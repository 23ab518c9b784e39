--------------------------- MODULE MCAggregator ---------------------------
(***************************************************************************)
(* Aggregator on small instances.  A behaviour has either traffic of both  *)
(* kinds, with and without sockets, on one interface, or traffic of        *)
(* sockets on two: the two only multiply each other.                       *)
(***************************************************************************)
EXTENDS Aggregator, TLC

CONSTANTS
  Second,     \* the second interface
  MaxTimeTwo  \* bound: the clock when both interfaces carry traffic

VARIABLE scene

InScene ==
  \A i \in Ifaces :
    \/ scene = "kinds" /\ i # Second
    \/ /\ pkt[i].tuple \in SocketTuples
       /\ IF scene = "kinds" THEN pc[i] = "read" ELSE now <= MaxTimeTwo

MCInit == AggInit /\ scene \in {"kinds", "interfaces"} /\ InScene
MCNext == AggNext /\ UNCHANGED scene /\ InScene'
MCSpec == MCInit /\ [][MCNext]_<<allVars, scene>>

Symmetry == Permutations(Counters)
=============================================================================
