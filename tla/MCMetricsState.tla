--------------------------- MODULE MCMetricsState ---------------------------
(***************************************************************************)
(* MetricsState on a small instance, one connection per remote endpoint.   *)
(* A behaviour has either many events and one connection that carries      *)
(* little, or many bytes on every connection and one event.                *)
(***************************************************************************)
EXTENDS MetricsState

VARIABLE scene

Own == CHOOSE g \in [Flows -> Keys] : IsInjective(g)

InScene ==
  CASE scene = "events" -> open \subseteq {1} /\ carried <= 1 /\ closes <= 1
    [] scene = "bytes" -> MapThenSumSet(LAMBDA k : Len(events[k]) + drained[k], Kinds) <= 1

MCInit == Init /\ scene \in {"events", "bytes"}
MCNext == Next /\ UNCHANGED scene /\ InScene'
MCSpec == MCInit /\ [][MCNext]_<<vars, scene>>
=============================================================================
