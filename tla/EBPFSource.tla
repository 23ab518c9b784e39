----------------------------- MODULE EBPFSource -----------------------------
(***************************************************************************)
(* procinfo.EBPFSource: a table of open TCP connections kept up to date    *)
(* from two kernel ring buffers, one written by the connect hooks and one  *)
(* by the inet_sock_set_state tracepoint, each drained by a goroutine of   *)
(* its own.                                                                *)
(*                                                                         *)
(* The kernel is the environment: sockets are born, change state and die,  *)
(* and every transition appends an event.  A socket has a number (its      *)
(* birth), which the program never sees, and a struct sock address, which  *)
(* the kernel reuses.  A state is abstracted to live or terminal, which is *)
(* all that terminalTCPState tells apart.                                  *)
(***************************************************************************)
EXTENDS Integers, Sequences, FiniteSets, FiniteSetsExt

CONSTANTS
  SkAddrs,     \* struct sock addresses
  Pids,
  OutTuples,   \* tuples of outgoing connections
  InTuples,    \* tuples of accepted connections
  ListenTuple, \* the tuple of a listener: no remote end
  HalfOf,      \* HalfOf[t]: the tuple of t before the kernel binds a local port
  None,        \* no entry
  MaxSockets,  \* bound: sockets born in one behaviour
  RingSize     \* events a ring buffer holds

(* ebpfConnKey. *)
Keys == OutTuples \cup InTuples \cup {ListenTuple} \cup {HalfOf[t] : t \in OutTuples}
Births == 1 .. MaxSockets

ASSUME EBPFAssumption ==
  /\ MaxSockets \in Nat \ {0} /\ RingSize \in Nat
  /\ HalfOf \in [OutTuples -> Keys]
  /\ None \notin Keys \cup Pids

VARIABLES
  sock,     \* the kernel's sockets, by birth
  nborn,    \* how many there have been
  ring,     \* ring["connect"], ring["state"]: events not yet consumed
  attached, \* FALSE until bootstrap has run
  skipped,  \* history: processes bootstrap could not inspect
  booted,   \* history: the keys bootstrap filled
  conns,    \* EBPFSource.conns: the PID recorded under a key, or None
  skToKey,  \* EBPFSource.skToKey
  ended,    \* history: births a terminal event has been consumed of
  late,     \* history: an event was applied outside its socket's life
  lost      \* history: a ring buffer was full and an event dropped

kernelVars == <<sock, nborn>>
bootVars == <<skipped, booted>>
tableVars == <<conns, skToKey>>
historyVars == <<ended, late>>
vars == <<kernelVars, ring, attached, bootVars, tableVars, historyVars, lost>>

Event == [birth: Births, sk: SkAddrs, key: Keys, pid: Pids, live: BOOLEAN]
Phases == {"unborn", "listening", "binding", "connecting", "cloned", "open", "closing", "closed"}

TypeOK ==
  /\ sock \in [Births -> [sk: SkAddrs, pid: Pids, key: Keys, phase: Phases]]
  /\ nborn \in 0 .. MaxSockets
  /\ ring \in [{"connect", "state"} -> Seq(Event)]
  /\ \A r \in DOMAIN ring : Len(ring[r]) <= RingSize
  /\ attached \in BOOLEAN /\ late \in BOOLEAN /\ lost \in BOOLEAN
  /\ conns \in [Keys -> Pids \cup {None}]
  /\ skToKey \in [SkAddrs -> Keys \cup {None}]
  /\ ended \subseteq Births /\ booted \subseteq Keys /\ skipped \subseteq Pids

Alive(b) == sock[b].phase \notin {"unborn", "closed"}

(* The hooks attach to a kernel that may already have a socket open, of which *)
(* no event was seen; bootstrap has not run yet.                              *)
Init ==
  /\ \E s \in [sk: SkAddrs, pid: Pids, key: Keys, phase: {"unborn", "listening", "open", "closing"}] :
       /\ s.phase \in {"unborn", "listening"} <=> s.key = ListenTuple
       /\ s.key \in OutTuples \cup InTuples \cup {ListenTuple}
       /\ sock = [b \in Births |-> IF b = 1 THEN s ELSE [s EXCEPT !.phase = "unborn"]]
       /\ nborn = IF s.phase = "unborn" THEN 0 ELSE 1
  /\ ring = [r \in {"connect", "state"} |-> << >>]
  /\ attached = FALSE
  /\ conns = [k \in Keys |-> None] /\ skToKey = [a \in SkAddrs |-> None]
  /\ skipped = {} /\ booted = {} /\ ended = {} /\ late = FALSE /\ lost = FALSE

-----------------------------------------------------------------------------
(* The kernel. *)

(* A hook reserves room in its ring and submits the event, or drops it; so   *)
(* do those that report the same once more.  The key is the socket's tuple    *)
(* as the hook sees it.                                                      *)
Emit(r, b, s, key, pid, live, copies) ==
  LET ev == [birth |-> b, sk |-> s.sk, key |-> key, pid |-> pid, live |-> live]
      fit == Min({copies, RingSize - Len(ring[r])})
  IN /\ ring' = [ring EXCEPT ![r] = @ \o [i \in 1 .. fit |-> ev]]
     /\ lost' = (lost \/ fit < copies)

(* A new socket at an address and with a tuple no other socket has. *)
Born(s) ==
  /\ nborn < MaxSockets
  /\ \A b \in Births : Alive(b) => sock[b].sk # s.sk /\ sock[b].key # s.key
  /\ nborn' = nborn + 1
  /\ sock' = [sock EXCEPT ![nborn + 1] = s]

(* listen(2): TCP_LISTEN, in the caller's context. *)
Listen(a, p) ==
  LET s == [sk |-> a, pid |-> p, key |-> ListenTuple, phase |-> "listening"]
  IN /\ Born(s)
     /\ Emit("state", nborn + 1, s, ListenTuple, p, TRUE, 1)
     /\ UNCHANGED <<attached, bootVars, tableVars, historyVars>>

(* connect(2): TCP_SYN_SENT before a local port is bound. *)
ConnectBegin(a, p, t) ==
  LET s == [sk |-> a, pid |-> p, key |-> t, phase |-> "binding"]
  IN /\ Born(s)
     /\ Emit("state", nborn + 1, s, HalfOf[t], p, TRUE, 1)
     /\ UNCHANGED <<attached, bootVars, tableVars, historyVars>>

(* tcp_v4_connect returns 0: the connect hook sees the whole tuple.  The     *)
(* fexit hooks report an IPv4-mapped connection twice.                       *)
ConnectEnd(b) ==
  /\ sock[b].phase = "binding"
  /\ sock' = [sock EXCEPT ![b].phase = "connecting"]
  /\ \E copies \in 1 .. 2 :
       Emit("connect", b, sock[b], sock[b].key, sock[b].pid, TRUE, copies)
  /\ UNCHANGED <<nborn, attached, bootVars, tableVars, historyVars>>

(* A connection request is cloned from a listener: TCP_SYN_RECV before the   *)
(* remote end is filled in, in the context of whatever process was running.  *)
Clone(a, t, cur) ==
  \E l \in Births :
    LET s == [sk |-> a, pid |-> sock[l].pid, key |-> t, phase |-> "cloned"]
    IN /\ sock[l].phase = "listening"
       /\ Born(s)
       /\ Emit("state", nborn + 1, s, ListenTuple, cur, TRUE, 1)
       /\ UNCHANGED <<attached, bootVars, tableVars, historyVars>>

(* TCP_ESTABLISHED, in the context of whatever process was running. *)
Establish(b, cur) ==
  /\ sock[b].phase \in {"connecting", "cloned"}
  /\ sock' = [sock EXCEPT ![b].phase = "open"]
  /\ Emit("state", b, sock[b], sock[b].key, cur, TRUE, 1)
  /\ UNCHANGED <<nborn, attached, bootVars, tableVars, historyVars>>

(* The first terminal state of an established connection. *)
Shutdown(b, cur) ==
  /\ sock[b].phase = "open"
  /\ sock' = [sock EXCEPT ![b].phase = "closing"]
  /\ Emit("state", b, sock[b], sock[b].key, cur, FALSE, 1)
  /\ UNCHANGED <<nborn, attached, bootVars, tableVars, historyVars>>

(* TCP_CLOSE: of a closing connection, a refused or failed one, a listener. *)
Close(b, cur) ==
  /\ sock[b].phase \in {"closing", "connecting", "binding", "listening"}
  /\ sock' = [sock EXCEPT ![b].phase = "closed"]
  /\ Emit("state", b, sock[b],
          IF sock[b].phase = "binding" THEN HalfOf[sock[b].key] ELSE sock[b].key, cur, FALSE, 1)
  /\ UNCHANGED <<nborn, attached, bootVars, tableVars, historyVars>>

Kernel ==
  \/ \E a \in SkAddrs, p \in Pids : \/ Listen(a, p)
                                    \/ \E t \in OutTuples : ConnectBegin(a, p, t)
                                    \/ \E t \in InTuples : Clone(a, t, p)
  \/ \E b \in Births : \/ ConnectEnd(b)
                       \/ \E cur \in Pids : Establish(b, cur) \/ Shutdown(b, cur) \/ Close(b, cur)

-----------------------------------------------------------------------------
(* The source. *)

(* bootstrap walks /proc once the hooks are attached, before Run starts, and *)
(* skips a process it cannot inspect (all of them, when ListPIDs fails).  It  *)
(* finds the sockets with their final tuple; one winding down may have no     *)
(* owner any more.  The last process walked wins a shared key.                *)
bootstrap ==
  /\ ~attached
  /\ attached' = TRUE
  /\ skipped' \in SUBSET Pids
  /\ \E orphans \in SUBSET {b \in Births : sock[b].phase = "closing"} :
       LET found == {b \in Births \ orphans :
                       /\ sock[b].phase \in {"listening", "connecting", "open", "closing"}
                       /\ sock[b].pid \notin skipped'}
       IN /\ booted' = {sock[b].key : b \in found}
          /\ \E last \in [booted' -> found] :
               /\ \A k \in booted' : sock[last[k]].key = k
               /\ conns' = [k \in Keys |-> IF k \in booted' THEN sock[last[k]].pid ELSE None]
  /\ UNCHANGED <<kernelVars, ring, skToKey, historyVars, lost>>

(* Variant: the latest event's PID wins. *)
LatestPid(ev) == ev.pid

(* The PID handleEvent records: the one already recorded for this struct     *)
(* sock, else the one under the same key, else the event's own.              *)
RecordedPid(ev) ==
  LET from == IF skToKey[ev.sk] # None THEN skToKey[ev.sk] ELSE ev.key
  IN IF conns[from] # None THEN conns[from] ELSE ev.pid

(* Variant: the entry under the socket's previous key is left behind. *)
UpsertOnly(ev) ==
  /\ conns' = [conns EXCEPT ![ev.key] = RecordedPid(ev)]
  /\ skToKey' = [skToKey EXCEPT ![ev.sk] = ev.key]

(* handleEvent, on a live state. *)
Upsert(ev) ==
  /\ conns' = [k \in Keys |-> CASE k = ev.key -> RecordedPid(ev)
                                [] k = skToKey[ev.sk] /\ k # ev.key -> None
                                [] OTHER -> conns[k]]
  /\ skToKey' = [skToKey EXCEPT ![ev.sk] = ev.key]

(* Variant: only the event's own key is removed. *)
RemoveOwnKey(ev) ==
  /\ conns' = [conns EXCEPT ![ev.key] = None]
  /\ skToKey' = [skToKey EXCEPT ![ev.sk] = None]

(* handleEvent, on a terminal state. *)
Remove(ev) ==
  LET gone == IF skToKey[ev.sk] # None THEN skToKey[ev.sk] ELSE ev.key
  IN /\ conns' = [conns EXCEPT ![gone] = None]
     /\ skToKey' = [skToKey EXCEPT ![ev.sk] = None]

(* The rings were drained so unevenly that a live event is applied after its *)
(* socket's terminal event, or before an event of the socket that had the    *)
(* same address before it.                                                   *)
OutOfLife(ev) ==
  \/ ev.live /\ ev.birth \in ended
  \/ \E r \in DOMAIN ring : \E i \in DOMAIN ring[r] :
       ring[r][i].sk = ev.sk /\ ring[r][i].birth < ev.birth

(* consume: the goroutine of ring r reads one event and applies it. *)
consume(r) ==
  /\ attached /\ ring[r] # << >>
  /\ LET ev == Head(ring[r])
     IN /\ IF ev.live THEN Upsert(ev) ELSE Remove(ev)
        /\ ended' = IF ev.live THEN ended ELSE ended \cup {ev.birth}
        /\ late' = (late \/ OutOfLife(ev))
  /\ ring' = [ring EXCEPT ![r] = Tail(@)]
  /\ UNCHANGED <<kernelVars, attached, bootVars, lost>>

Next == Kernel \/ bootstrap \/ consume("connect") \/ consume("state")

Spec == Init /\ [][Next]_vars

-----------------------------------------------------------------------------
(* Everything the kernel has reported is applied, and no connection is still *)
(* being set up: until its next event one may be under its incomplete tuple. *)
Drained ==
  /\ attached /\ \A r \in DOMAIN ring : ring[r] = << >>
  /\ \A b \in Births : sock[b].phase \notin {"binding", "connecting", "cloned"}

KeysIn(phases) == {sock[b].key : b \in {x \in Births : sock[x].phase \in phases}}

(* Every entry of conns was put there by bootstrap or is the current entry   *)
(* of some struct sock, so that the next event of that socket finds it: no   *)
(* early event with an incomplete tuple leaves an entry behind (handleEvent, *)
(* ebpf_linux.go:388-397), whatever sockets share a key, whatever is lost.   *)
NoOrphanEntries ==
  \A k \in Keys : conns[k] # None => k \in booted \/ \E a \in SkAddrs : skToKey[a] = k

(* Once every event is applied, and none was dropped or applied outside its  *)
(* socket's life, the table lists exactly the open connections (listeners    *)
(* aside), however else the two rings' events were interleaved.  A           *)
(* connection that was already winding down when bootstrap walked /proc may  *)
(* stay until its TCP_CLOSE, and one of a process bootstrap skipped may be   *)
(* missing until its next event.                                             *)
DrainedTableIsExact ==
  Drained /\ ~late /\ ~lost =>
    LET listed == {k \in Keys \ {ListenTuple} : conns[k] # None}
    IN /\ \A b \in Births : sock[b].phase = "open" /\ sock[b].pid \notin skipped => sock[b].key \in listed
       /\ listed \subseteq KeysIn({"open"}) \cup (booted \cap KeysIn({"closing"}))

(* "The connect-hook events ... fire synchronously in the connecting         *)
(* process's own syscall context, so their Pid is trustworthy", and          *)
(* handleEvent "never lets a later event's Pid overwrite a PID already       *)
(* recorded" (ebpf_linux.go:357-364): an open outgoing connection belongs to *)
(* the process that connected it.                                            *)
ConnectorOwnsConnection ==
  Drained /\ ~late /\ ~lost =>
    \A b \in Births :
      sock[b].phase = "open" /\ sock[b].key \in OutTuples /\ sock[b].pid \notin skipped =>
         conns[sock[b].key] = sock[b].pid

(* Connections returns "the currently open connections" (ebpf_linux.go:493): *)
(* once every event is applied, nothing that has been closed is listed.      *)
NothingClosedIsListed ==
  Drained /\ ~lost =>
    \A k \in Keys : conns[k] # None => \E b \in Births : Alive(b) /\ sock[b].key = k

(* "a listener bound after this attaches needs no separate handling from a   *)
(* connecting socket" (ebpf_linux.go:244-245): an open listener is listed.   *)
ListenersAreListed ==
  Drained /\ ~late /\ ~lost =>
    \A b \in Births : sock[b].phase = "listening" /\ sock[b].pid \notin skipped => conns[ListenTuple] # None
=============================================================================
