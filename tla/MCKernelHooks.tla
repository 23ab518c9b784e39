--------------------------- MODULE MCKernelHooks ----------------------------
(***************************************************************************)
(* Two threads and two sockets: an IPv4 and an IPv4-mapped one, or a       *)
(* native IPv6 one and one of another protocol.                            *)
(***************************************************************************)
EXTENDS KernelHooks, TLC

CONSTANTS sk1, sk2

(* Port 80 in network order is 20480. *)
Inet(n) == [family |-> "AF_INET", protocol |-> "IPPROTO_TCP", local |-> V4(1), remote |-> V4(2),
            num |-> n, dport |-> 20480]
Mapped(n) == [Inet(n) EXCEPT !.family = "AF_INET6"]
Inet6(n) == [Mapped(n) EXCEPT !.local = V6(1, 1), !.remote = V6(1, 2)]
Other == [Inet(1000) EXCEPT !.protocol = "IPPROTO_SCTP"]

MCLayouts ==
  {sk1 :> Inet(1000) @@ sk2 :> Mapped(1001), sk1 :> Inet6(1000) @@ sk2 :> Other}

(* The tail of another event's IPv4-mapped address. *)
MCStale == {<<"mapped", 3>>}

VARIABLE scene

(* Two threads meet while every step of attach succeeds; calls come one after *)
(* the other while any step may fail; or one call succeeds and its socket, or *)
(* one of another protocol, goes through its states.                         *)
InScene ==
  /\ scene = "states" \/ \A sk \in Socks : state[sk] # "ESTABLISHED"
  /\ scene = "states" \/ socket[sk2].family = "AF_INET6"
  /\ scene = "states" => ncalls <= 1
  /\ scene = "failures" \/ pc \notin {"unwind", "poller"}
  /\ scene = "failures" => \A t, u \in Tids : call[t] # Nil /\ call[u] # Nil => t = u

MCInit == Init /\ scene \in {"threads", "failures", "states"} /\ InScene
MCNext == Next /\ UNCHANGED scene /\ InScene' /\ (scene = "threads" \/ UNCHANGED owner)
MCSpec == MCInit /\ [][MCNext]_<<vars, scene>>

Symmetry == Permutations(Tids) \cup Permutations(Pids)
=============================================================================
