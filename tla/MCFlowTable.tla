---------------------------- MODULE MCFlowTable ----------------------------
(* FlowTable on small instances. *)
EXTENDS FlowTable, TLC

Symmetry == Permutations(Counters) \cup Permutations(Ifaces)
=============================================================================
