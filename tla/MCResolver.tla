----------------------------- MODULE MCResolver -----------------------------
(***************************************************************************)
(* Resolver on a small instance.  A behaviour either has as many addresses *)
(* as the two generations hold, with deadlines, cancellation and fairness, *)
(* or one more address than they hold, every query answered in time.       *)
(***************************************************************************)
EXTENDS Resolver

CONSTANT Extra \* the address that does not fit

VARIABLE scene

OnScreen == Addrs \ {Extra}

InScene ==
  CASE scene = "fits" -> Extra \notin inflight
    [] scene = "outgrows" ->
         /\ expired = {} /\ ~ctxDone
         /\ \A a \in Addrs : task[a] = "answered" => answer[a] = "resolved"

MCInit == Init /\ scene \in {"fits", "outgrows"}
MCNext == Next /\ UNCHANGED scene /\ InScene'
MCSpec == MCInit /\ [][MCNext]_<<vars, scene>> /\ FairTo(OnScreen)

-----------------------------------------------------------------------------
(* A query is always given up in the end, even if it never answers: resolve  *)
(* leaves it when queryCtx expires.                                          *)
QueriesEnd == scene = "fits" => Ends(OnScreen)

(* The backlog drains (Lookup, offered every address again on every tick).   *)
BacklogDrains == scene = "fits" => Drains(OnScreen)
=============================================================================
