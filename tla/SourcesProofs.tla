--------------------------- MODULE SourcesProofs ---------------------------
(***************************************************************************)
(* Proofs about the two connection sources, for any sockets, tuples,       *)
(* processes and ports and any size of the rings.  EBPFSource: its tables  *)
(* stay well-formed and no entry of conns is ever out of reach of the      *)
(* events that would remove it.  Poller: what it serves is one walk over   *)
(* the processes, whatever the kernel does between its system calls.       *)
(***************************************************************************)
EXTENDS MCSources, SequenceTheorems, TLAPS

SocketRecord == [sk: SkAddrs, pid: Pids, key: Keys, phase: Phases]

(* The part of TypeOK that is about the kernel and what it emits. *)
KernelTyped ==
  /\ sock \in [Births -> SocketRecord] /\ nborn \in 0 .. MaxSockets
  /\ ring \in [{"connect", "state"} -> Seq(Event)]
  /\ \A r \in DOMAIN ring : Len(ring[r]) <= RingSize
  /\ lost \in BOOLEAN

(* A socket in connect(2), of which the tracepoint sees half the tuple. *)
BindingGoesOut == \A b \in Births : sock[b].phase = "binding" => sock[b].key \in OutTuples

(* The inductive invariant. *)
Inv == TypeOK /\ BindingGoesOut /\ NoOrphanEntries

-----------------------------------------------------------------------------
LEMMA MinOfTwo ==
  ASSUME NEW m \in Int, NEW n \in Int
  PROVE  Min({m, n}) \in {m, n} /\ Min({m, n}) <= m /\ Min({m, n}) <= n
<1>1. \E x \in {m, n} : \A y \in {m, n} : x <= y
  OBVIOUS
<1>2. Min({m, n}) \in {m, n} /\ \A y \in {m, n} : Min({m, n}) <= y
  BY <1>1 DEF Min
<1> QED BY <1>2

(* Emit appends events while there is room. *)
LEMMA EmitType ==
  ASSUME TypeOK, NEW r \in {"connect", "state"}, NEW b \in Births, NEW s, s.sk \in SkAddrs,
         NEW key \in Keys, NEW pid \in Pids, NEW live \in BOOLEAN, NEW copies \in Nat,
         Emit(r, b, s, key, pid, live, copies)
  PROVE  /\ ring' \in [{"connect", "state"} -> Seq(Event)]
         /\ \A q \in DOMAIN ring' : Len(ring'[q]) <= RingSize
         /\ lost' \in BOOLEAN
<1> DEFINE ev == [birth |-> b, sk |-> s.sk, key |-> key, pid |-> pid, live |-> live]
           fit == Min({copies, RingSize - Len(ring[r])})
           more == [i \in 1 .. fit |-> ev]
<1>1. ev \in Event
  BY Zenon DEF Event
<1>2. /\ ring[r] \in Seq(Event) /\ Len(ring[r]) \in Nat /\ Len(ring[r]) <= RingSize
      /\ RingSize \in Nat
  BY EBPFAssumption DEF TypeOK
<1>3. fit \in Nat /\ fit <= RingSize - Len(ring[r])
  <2>1. copies \in Int /\ RingSize - Len(ring[r]) \in Int
    BY <1>2
  <2>2. fit \in {copies, RingSize - Len(ring[r])} /\ fit <= RingSize - Len(ring[r])
    BY <2>1, MinOfTwo, Zenon
  <2> QED BY <1>2, <2>2
<1> HIDE DEF ev, fit
<1>4. more \in Seq(Event) /\ Len(more) <= RingSize - Len(ring[r]) /\ Len(more) \in Nat
  BY <1>1, <1>3
<1> HIDE DEF more
<1>5. ring[r] \o more \in Seq(Event) /\ Len(ring[r] \o more) <= RingSize
  BY <1>2, <1>4
<1>6. ring' = [ring EXCEPT ![r] = @ \o more]
  BY Zenon DEF Emit, ev, fit, more
<1>7. lost' \in BOOLEAN
  BY Zenon DEF Emit
<1> QED BY <1>5, <1>6, <1>7, Zenon DEF TypeOK

(* A socket's record, and its two tuples. *)
LEMMA SocketType ==
  ASSUME TypeOK, NEW b \in Births
  PROVE  /\ sock[b].sk \in SkAddrs /\ sock[b].pid \in Pids /\ sock[b].key \in Keys
         /\ \A ph \in Phases : [sock EXCEPT ![b].phase = ph] \in [Births -> SocketRecord]
BY Zenon DEF TypeOK, SocketRecord

LEMMA BornType ==
  ASSUME TypeOK, NEW s \in SocketRecord, Born(s)
  PROVE  /\ sock' \in [Births -> SocketRecord]
         /\ nborn' \in 0 .. MaxSockets /\ nborn + 1 \in Births
<1>1. nborn + 1 \in Births /\ nborn' \in 0 .. MaxSockets
  BY EBPFAssumption DEF TypeOK, Born, Births
<1> QED BY <1>1, Zenon DEF TypeOK, Born, SocketRecord

LEMMA TupleTypes ==
  /\ ListenTuple \in Keys /\ OutTuples \subseteq Keys /\ InTuples \subseteq Keys
  /\ \A t \in OutTuples : HalfOf[t] \in Keys
BY Zenon DEF Keys

-----------------------------------------------------------------------------
(* The kernel's steps leave the program's tables alone. *)

LEMMA KernelLeavesTable ==
  ASSUME Kernel PROVE UNCHANGED <<attached, bootVars, tableVars, historyVars>>
BY Zenon DEF Kernel, Listen, ConnectBegin, Clone, ConnectEnd, Establish, Shutdown, Close

LEMMA BirthInv ==
  ASSUME Inv, NEW a \in SkAddrs, NEW p \in Pids,
         \/ Listen(a, p)
         \/ \E t \in OutTuples : ConnectBegin(a, p, t)
         \/ \E t \in InTuples : Clone(a, t, p)
  PROVE  KernelTyped'
<1> USE DEF Inv
<1>1. CASE Listen(a, p)
  <2> DEFINE s == [sk |-> a, pid |-> p, key |-> ListenTuple, phase |-> "listening"]
  <2>1. s \in SocketRecord /\ s.sk \in SkAddrs
    BY TupleTypes, Zenon DEF Phases, SocketRecord
  <2>2. Born(s) /\ Emit("state", nborn + 1, s, ListenTuple, p, TRUE, 1)
    BY <1>1, Zenon DEF Listen
  <2> HIDE DEF s
  <2>3. /\ sock' \in [Births -> SocketRecord]
        /\ nborn' \in 0 .. MaxSockets /\ nborn + 1 \in Births
    BY <2>1, <2>2, BornType
  <2> QED BY <2>1, <2>2, <2>3, TupleTypes, EmitType, Zenon DEF KernelTyped
<1>2. ASSUME NEW t \in OutTuples, ConnectBegin(a, p, t)
      PROVE  KernelTyped'
  <2> DEFINE s == [sk |-> a, pid |-> p, key |-> t, phase |-> "binding"]
  <2>1. s \in SocketRecord /\ s.sk \in SkAddrs
    BY TupleTypes, Zenon DEF Phases, SocketRecord
  <2>2. Born(s) /\ Emit("state", nborn + 1, s, HalfOf[t], p, TRUE, 1)
    BY <1>2, Zenon DEF ConnectBegin
  <2> HIDE DEF s
  <2>3. /\ sock' \in [Births -> SocketRecord]
        /\ nborn' \in 0 .. MaxSockets /\ nborn + 1 \in Births
    BY <2>1, <2>2, BornType
  <2> QED BY <2>1, <2>2, <2>3, TupleTypes, EmitType, Zenon DEF KernelTyped
<1>3. ASSUME NEW t \in InTuples, Clone(a, t, p)
      PROVE  KernelTyped'
  <2>1. PICK l \in Births :
          LET s == [sk |-> a, pid |-> sock[l].pid, key |-> t, phase |-> "cloned"]
          IN Born(s) /\ Emit("state", nborn + 1, s, ListenTuple, p, TRUE, 1)
    BY <1>3, Zenon DEF Clone
  <2> DEFINE s == [sk |-> a, pid |-> sock[l].pid, key |-> t, phase |-> "cloned"]
  <2>2. s \in SocketRecord /\ s.sk \in SkAddrs
    BY TupleTypes, SocketType, Zenon DEF Phases, SocketRecord
  <2>3. Born(s) /\ Emit("state", nborn + 1, s, ListenTuple, p, TRUE, 1)
    BY <2>1, Zenon
  <2> HIDE DEF s
  <2>4. /\ sock' \in [Births -> SocketRecord]
        /\ nborn' \in 0 .. MaxSockets /\ nborn + 1 \in Births
    BY <2>2, <2>3, BornType
  <2> QED BY <2>2, <2>3, <2>4, TupleTypes, EmitType, Zenon DEF KernelTyped
<1> QED BY <1>1, <1>2, <1>3

LEMMA TransitionInv ==
  ASSUME Inv, NEW b \in Births,
         ConnectEnd(b) \/ \E cur \in Pids : Establish(b, cur) \/ Shutdown(b, cur) \/ Close(b, cur)
  PROVE  KernelTyped'
<1> USE DEF Inv, Phases
<1>1. /\ sock[b].sk \in SkAddrs /\ sock[b].pid \in Pids /\ sock[b].key \in Keys
      /\ \A ph \in Phases : [sock EXCEPT ![b].phase = ph] \in [Births -> SocketRecord]
  BY SocketType, Zenon
<1>2. CASE ConnectEnd(b)
  <2>1. sock' \in [Births -> SocketRecord] /\ nborn' \in 0 .. MaxSockets
    BY <1>1, <1>2, Zenon DEF ConnectEnd, TypeOK
  <2>2. PICK copies \in 1 .. 2 :
          Emit("connect", b, sock[b], sock[b].key, sock[b].pid, TRUE, copies)
    BY <1>2, Zenon DEF ConnectEnd
  <2>3. copies \in Nat
    OBVIOUS
  <2> QED BY <1>1, <2>1, <2>2, <2>3, EmitType, Zenon DEF KernelTyped
<1>3. ASSUME NEW cur \in Pids, Establish(b, cur) PROVE KernelTyped'
  <2>1. sock' \in [Births -> SocketRecord] /\ nborn' \in 0 .. MaxSockets
    BY <1>1, <1>3, Zenon DEF Establish, TypeOK
  <2> QED BY <1>1, <1>3, <2>1, EmitType, Zenon DEF KernelTyped, Establish
<1>4. ASSUME NEW cur \in Pids, Shutdown(b, cur) PROVE KernelTyped'
  <2>1. sock' \in [Births -> SocketRecord] /\ nborn' \in 0 .. MaxSockets
    BY <1>1, <1>4, Zenon DEF Shutdown, TypeOK
  <2> QED BY <1>1, <1>4, <2>1, EmitType, Zenon DEF KernelTyped, Shutdown
<1>5. ASSUME NEW cur \in Pids, Close(b, cur) PROVE KernelTyped'
  <2>1. sock' \in [Births -> SocketRecord] /\ nborn' \in 0 .. MaxSockets
    BY <1>1, <1>5, Zenon DEF Close, TypeOK
  <2> DEFINE key == IF sock[b].phase = "binding" THEN HalfOf[sock[b].key] ELSE sock[b].key
  <2>2. key \in Keys
    BY <1>1, TupleTypes, Zenon DEF BindingGoesOut
  <2>3. Emit("state", b, sock[b], key, cur, FALSE, 1)
    BY <1>5, Zenon DEF Close
  <2> HIDE DEF key
  <2> QED BY <1>1, <2>1, <2>2, <2>3, EmitType, Zenon DEF KernelTyped
<1> QED BY <1>2, <1>3, <1>4, <1>5

(* A socket gets to "binding" only in connect(2). *)
LEMMA KernelBinding == ASSUME Inv, Kernel PROVE BindingGoesOut'
<1> USE DEF Inv, TypeOK, BindingGoesOut, Births
<1>1. ASSUME NEW s, Born(s), s.phase = "binding" => s.key \in OutTuples PROVE BindingGoesOut'
  BY <1>1, Zenon DEF Born
<1>2. ASSUME NEW a \in SkAddrs, NEW p \in Pids, Listen(a, p) PROVE BindingGoesOut'
  BY <1>1, <1>2, Zenon DEF Listen
<1>3. ASSUME NEW a \in SkAddrs, NEW p \in Pids, NEW t \in OutTuples, ConnectBegin(a, p, t)
      PROVE  BindingGoesOut'
  BY <1>1, <1>3, Zenon DEF ConnectBegin
<1>4. ASSUME NEW a \in SkAddrs, NEW p \in Pids, NEW t \in InTuples, Clone(a, t, p)
      PROVE  BindingGoesOut'
  BY <1>1, <1>4, Zenon DEF Clone
<1>5. ASSUME NEW b \in Births, NEW cur \in Pids,
             ConnectEnd(b) \/ Establish(b, cur) \/ Shutdown(b, cur) \/ Close(b, cur)
      PROVE  BindingGoesOut'
  <2>1. PICK ph \in {"connecting", "open", "closing", "closed"} : sock' = [sock EXCEPT ![b].phase = ph]
    BY <1>5, Zenon DEF ConnectEnd, Establish, Shutdown, Close
  <2>2. ASSUME NEW c \in Births, sock'[c].phase = "binding" PROVE sock[c].phase = "binding" /\ sock'[c] = sock[c]
    <3>1. sock \in [Births -> SocketRecord]
      BY Zenon DEF SocketRecord
    <3>2. c # b
      BY <2>1, <2>2, <3>1 DEF SocketRecord
    <3> QED BY <2>1, <2>2, <3>1, <3>2
  <2> QED BY <2>2, Zenon
<1> QED BY <1>2, <1>3, <1>4, <1>5, Zenon DEF Kernel

LEMMA KernelInv == ASSUME Inv, Kernel PROVE Inv'
<1>1. KernelTyped'
  BY BirthInv, TransitionInv, Zenon DEF Kernel
<1>2. UNCHANGED <<attached, skipped, booted, conns, skToKey, ended, late>>
  BY KernelLeavesTable DEF bootVars, tableVars, historyVars
<1>3. attached' \in BOOLEAN /\ late' \in BOOLEAN
  BY <1>2, Zenon DEF Inv, TypeOK
<1>4. TypeOK'
  BY <1>1, <1>2, <1>3, Zenon DEF Inv, TypeOK, KernelTyped, SocketRecord
<1>5. NoOrphanEntries'
  BY <1>2 DEF Inv, NoOrphanEntries
<1> QED BY <1>4, <1>5, KernelBinding DEF Inv

-----------------------------------------------------------------------------
(* The source's steps. *)

LEMMA InitInv == ASSUME Init PROVE Inv
<1>1. PICK s \in [sk: SkAddrs, pid: Pids, key: Keys,
                  phase: {"unborn", "listening", "open", "closing"}] :
        /\ sock = [b \in Births |-> IF b = 1 THEN s ELSE [s EXCEPT !.phase = "unborn"]]
        /\ nborn = IF s.phase = "unborn" THEN 0 ELSE 1
  BY Zenon DEF Init
<1>2. s \in SocketRecord /\ [s EXCEPT !.phase = "unborn"] \in SocketRecord
  BY DEF SocketRecord, Phases
<1>3. sock \in [Births -> SocketRecord] /\ nborn \in 0 .. MaxSockets
  BY <1>1, <1>2, EBPFAssumption
<1>4. BindingGoesOut
  BY <1>1 DEF BindingGoesOut
<1>5. /\ ring \in [{"connect", "state"} -> Seq(Event)]
      /\ \A r \in DOMAIN ring : Len(ring[r]) <= RingSize
  BY EBPFAssumption DEF Init
<1>6. attached \in BOOLEAN /\ late \in BOOLEAN /\ lost \in BOOLEAN
  BY Zenon DEF Init
<1>7. /\ conns \in [Keys -> Pids \cup {None}] /\ skToKey \in [SkAddrs -> Keys \cup {None}]
      /\ ended \subseteq Births /\ booted \subseteq Keys /\ skipped \subseteq Pids
  BY DEF Init
<1>8. NoOrphanEntries
  BY DEF Init, NoOrphanEntries
<1> QED BY <1>3, <1>4, <1>5, <1>6, <1>7, <1>8 DEF Inv, TypeOK, SocketRecord

(* bootstrap fills the table with the keys it notes, and with no others. *)
LEMMA BootstrapInv == ASSUME Inv, bootstrap PROVE Inv'
<1>1. UNCHANGED <<sock, nborn, ring, skToKey, ended, late, lost>> /\ attached' = TRUE
      /\ skipped' \subseteq Pids
  BY Zenon DEF bootstrap, kernelVars, historyVars
<1>2. PICK found \in SUBSET Births :
        /\ booted' = {sock[b].key : b \in found}
        /\ \E last \in [booted' -> found] :
             conns' = [k \in Keys |-> IF k \in booted' THEN sock[last[k]].pid ELSE None]
  <2>1. PICK orphans \in SUBSET {b \in Births : sock[b].phase = "closing"} :
          LET found == {b \in Births \ orphans :
                          /\ sock[b].phase \in {"listening", "connecting", "open", "closing"}
                          /\ sock[b].pid \notin skipped'}
          IN /\ booted' = {sock[b].key : b \in found}
             /\ \E last \in [booted' -> found] :
                  conns' = [k \in Keys |-> IF k \in booted' THEN sock[last[k]].pid ELSE None]
    BY Zenon DEF bootstrap
  <2> DEFINE F == {b \in Births \ orphans :
                     /\ sock[b].phase \in {"listening", "connecting", "open", "closing"}
                     /\ sock[b].pid \notin skipped'}
  <2> QED BY <2>1, F \in SUBSET Births, Zenon
<1>3. booted' \subseteq Keys /\ conns' \in [Keys -> Pids \cup {None}]
  BY <1>2, SocketType DEF Inv
<1>4. attached' \in BOOLEAN /\ late' \in BOOLEAN /\ lost' \in BOOLEAN
  BY <1>1, Zenon DEF Inv, TypeOK
<1>5. TypeOK'
  BY <1>1, <1>3, <1>4, Zenon DEF Inv, TypeOK
<1>6. NoOrphanEntries'
  BY <1>2, Zenon DEF NoOrphanEntries
<1>7. BindingGoesOut'
  BY <1>1 DEF Inv, BindingGoesOut
<1> QED BY <1>5, <1>6, <1>7 DEF Inv

(* What handleEvent makes of a live and of a terminal event. *)
LEMMA UpsertTable ==
  ASSUME Inv, NEW ev \in Event, Upsert(ev), UNCHANGED booted
  PROVE  /\ conns' \in [Keys -> Pids \cup {None}] /\ skToKey' \in [SkAddrs -> Keys \cup {None}]
         /\ NoOrphanEntries'
<1>1. ev.key \in Keys /\ ev.sk \in SkAddrs /\ ev.pid \in Pids
  BY DEF Event
<1>2. RecordedPid(ev) \in Pids
  BY <1>1, Zenon DEF RecordedPid, Inv, TypeOK
<1>3. conns' \in [Keys -> Pids \cup {None}] /\ skToKey' \in [SkAddrs -> Keys \cup {None}]
  BY <1>1, <1>2, Zenon DEF Upsert, Inv, TypeOK
<1>4. ASSUME NEW k \in Keys, conns'[k] # None
      PROVE  k \in booted \/ \E a \in SkAddrs : skToKey'[a] = k
  <2>1. CASE k = ev.key
    BY <1>1, <2>1, Zenon DEF Upsert, Inv, TypeOK
  <2>2. CASE k # ev.key
    <3>1. conns[k] # None /\ k # skToKey[ev.sk]
      BY <1>4, <2>2 DEF Upsert
    <3> QED BY <1>1, <3>1, Zenon DEF Inv, NoOrphanEntries, Upsert, TypeOK
  <2> QED BY <2>1, <2>2
<1> QED BY <1>3, <1>4 DEF NoOrphanEntries

LEMMA RemoveTable ==
  ASSUME Inv, NEW ev \in Event, Remove(ev), UNCHANGED booted
  PROVE  /\ conns' \in [Keys -> Pids \cup {None}] /\ skToKey' \in [SkAddrs -> Keys \cup {None}]
         /\ NoOrphanEntries'
<1>1. ev.key \in Keys /\ ev.sk \in SkAddrs
  BY DEF Event
<1> DEFINE gone == IF skToKey[ev.sk] # None THEN skToKey[ev.sk] ELSE ev.key
<1>2. gone \in Keys
  BY <1>1, Zenon DEF Inv, TypeOK
<1>3. conns' = [conns EXCEPT ![gone] = None] /\ skToKey' = [skToKey EXCEPT ![ev.sk] = None]
  BY Zenon DEF Remove
<1>4. conns' \in [Keys -> Pids \cup {None}] /\ skToKey' \in [SkAddrs -> Keys \cup {None}]
  BY <1>3, Zenon DEF Inv, TypeOK
<1>5. ASSUME NEW k \in Keys, conns'[k] # None
      PROVE  k \in booted \/ \E a \in SkAddrs : skToKey'[a] = k
  <2>1. conns[k] # None /\ k # gone
    BY <1>2, <1>3, <1>5, Zenon DEF Inv, TypeOK
  <2>2. k # skToKey[ev.sk]
    BY <2>1, EBPFAssumption
  <2> QED BY <1>3, <2>1, <2>2, Zenon DEF Inv, NoOrphanEntries, TypeOK
<1> QED BY <1>4, <1>5 DEF NoOrphanEntries

LEMMA ConsumeInv == ASSUME Inv, NEW r \in {"connect", "state"}, consume(r) PROVE Inv'
<1>1. /\ ring[r] # << >> /\ ring' = [ring EXCEPT ![r] = Tail(@)]
      /\ UNCHANGED <<sock, nborn, attached, skipped, booted, lost>>
  BY Zenon DEF consume, kernelVars, bootVars
<1>2. ring[r] \in Seq(Event) /\ Len(ring[r]) <= RingSize
  BY Zenon DEF Inv, TypeOK
<1>3. /\ Head(ring[r]) \in Event /\ Tail(ring[r]) \in Seq(Event)
      /\ Len(Tail(ring[r])) <= RingSize
  BY <1>1, <1>2, EBPFAssumption
<1>4. /\ ring' \in [{"connect", "state"} -> Seq(Event)]
      /\ \A q \in DOMAIN ring' : Len(ring'[q]) <= RingSize
  BY <1>1, <1>3, Zenon DEF Inv, TypeOK
<1>5. PICK ev \in Event : ev = Head(ring[r])
  BY <1>3
<1>6. Upsert(ev) \/ Remove(ev)
  BY <1>5, Zenon DEF consume
<1>7. /\ conns' \in [Keys -> Pids \cup {None}] /\ skToKey' \in [SkAddrs -> Keys \cup {None}]
      /\ NoOrphanEntries'
  BY <1>1, <1>6, UpsertTable, RemoveTable, Zenon
<1>8. ended' \subseteq Births
  BY <1>3, Zenon DEF consume, Inv, TypeOK, Event
<1>9. late' \in BOOLEAN
  BY Zenon DEF consume
<1>10. attached' \in BOOLEAN /\ lost' \in BOOLEAN
  BY <1>1, Zenon DEF Inv, TypeOK
<1>11. TypeOK'
  BY <1>1, <1>4, <1>7, <1>8, <1>9, <1>10, Zenon DEF Inv, TypeOK
<1>12. BindingGoesOut'
  BY <1>1, Zenon DEF Inv, BindingGoesOut
<1> QED BY <1>7, <1>11, <1>12 DEF Inv

-----------------------------------------------------------------------------
(* The invariant of the source. *)
THEOREM Invariance == Spec => []Inv
<1>1. Init => Inv
  BY InitInv
<1>2. Inv /\ [Next]_vars => Inv'
  <2> SUFFICES ASSUME Inv, [Next]_vars PROVE Inv'
    OBVIOUS
  <2>1. CASE UNCHANGED vars
    <3>1. UNCHANGED <<sock, nborn, ring, skipped, booted, conns, skToKey, ended>>
      BY <2>1 DEF vars, kernelVars, bootVars, tableVars, historyVars
    <3>2. attached' \in BOOLEAN /\ late' \in BOOLEAN /\ lost' \in BOOLEAN
      BY <2>1, Zenon DEF vars, historyVars, Inv, TypeOK
    <3> QED BY <3>1, <3>2, Zenon DEF Inv, TypeOK, BindingGoesOut, NoOrphanEntries
  <2> QED BY <2>1, KernelInv, BootstrapInv, ConsumeInv DEF Next
<1> QED BY <1>1, <1>2, PTL DEF Spec

(* Every entry of conns came from bootstrap or is the current entry of some  *)
(* struct sock, whatever events are lost, repeated or applied out of order   *)
(* (handleEvent): none is out of reach of the event that removes it.         *)
THEOREM EntriesHaveSockets == Spec => []NoOrphanEntries
<1>1. Inv => NoOrphanEntries
  BY DEF Inv
<1> QED BY <1>1, Invariance, PTL

-----------------------------------------------------------------------------
(* Poller.  What Lookup and Connections serve was built by a walk that is      *)
(* over, so the invariant says of the maps being built what the properties say *)
(* of those published, and of the history that it has seen the present.        *)

(* The history has seen who is alive and who holds what. *)
PresentSeen ==
  /\ \A p \in Pids : proc[p] # None => proc[p] \in carried[p] /\ proc[p] \in during.names[p]
  /\ \A k \in Ports, p \in Pids : k \in held[p] => p \in during.holders[k]

(* The process being walked held its ports at a moment of this walk. *)
SocksFresh ==
  pc = "name" => /\ socks.pid \in Pids /\ socks.ports # {}
                 /\ \A k \in socks.ports : socks.pid \in during.holders[k]

WalkFresh ==
  /\ \A k \in Ports : wPorts[k] # None => wPorts[k].pid \in during.holders[k]
  /\ \A c \in wConns : c.pid \in during.holders[c.port]

(* LookupMatchesConnections, without its set of owners. *)
OwnersListed(owner, list) ==
  \A k \in Ports :
    /\ owner[k] = None => \A c \in list : c.port # k
    /\ owner[k] # None => \E c \in list : c.port = k /\ owner[k] = [pid |-> c.pid, name |-> c.name]

(* A cached name is one its PID had, and its PID is listed in this walk. *)
WalkNames ==
  /\ \A c \in wConns : c.name # Unknown => c.name \in carried[c.pid]
  /\ \A p \in Pids : wNames[p] # None => wNames[p] \in carried[p] /\ \E c \in wConns : c.pid = p

CachedNames == \A p \in Pids : names[p] # None => names[p] \in carried[p]

PollInv ==
  /\ Polling!TypeOK /\ Polling!PortsAreFresh /\ Polling!NamesPruned
  /\ PresentSeen /\ SocksFresh /\ WalkFresh /\ WalkNames /\ CachedNames
  /\ OwnersListed(ports, polled) /\ OwnersListed(wPorts, wConns)

History == [names: [Pids -> SUBSET Names], holders: [Ports -> SUBSET Pids]]

LEMMA OwnersMatch ==
  ASSUME Polling!TypeOK, OwnersListed(ports, polled)
  PROVE  Polling!LookupMatchesConnections
<1> SUFFICES ASSUME NEW k \in Ports
             PROVE  LET listed == {[pid |-> c.pid, name |-> c.name] : c \in {x \in polled : x.port = k}}
                    IN IF listed = {} THEN ports[k] = None ELSE ports[k] \in listed
  BY Zenon DEF Polling!LookupMatchesConnections
<1>1. CASE ports[k] = None
  <2>1. {x \in polled : x.port = k} = {}
    BY <1>1 DEF OwnersListed
  <2>2. {[pid |-> c.pid, name |-> c.name] : c \in {x \in polled : x.port = k}} = {}
    BY <2>1
  <2> QED BY <1>1, <2>2
<1>2. CASE ports[k] # None
  <2>1. PICK c \in polled : c.port = k /\ ports[k] = [pid |-> c.pid, name |-> c.name]
    BY <1>2 DEF OwnersListed
  <2>2. ports[k] \in {[pid |-> d.pid, name |-> d.name] : d \in {x \in polled : x.port = k}}
    BY <2>1
  <2> QED BY <2>2, Zenon
<1> QED BY <1>1, <1>2, Zenon

LEMMA NowType ==
  ASSUME proc \in [Pids -> Names \cup {None}], held \in [Pids -> SUBSET Ports]
  PROVE  /\ Polling!Now \in History
         /\ \A p \in Pids : proc[p] # None => proc[p] \in Polling!Now.names[p]
         /\ \A k \in Ports, p \in Pids : k \in held[p] => p \in Polling!Now.holders[k]
BY Zenon DEF Polling!Now, History

LEMMA InitPollInv == ASSUME Polling!Init PROVE PollInv
<1>1. /\ proc = [p \in Pids |-> None] /\ held = [p \in Pids |-> {}] /\ spawned = 0
      /\ pc = "idle" /\ todo = {} /\ socks = [pid |-> None, ports |-> {}]
      /\ wNames = [p \in Pids |-> None] /\ wPorts = [k \in Ports |-> None] /\ wConns = {}
      /\ names = [p \in Pids |-> None] /\ ports = [k \in Ports |-> None] /\ polled = {}
      /\ carried = [p \in Pids |-> {}] /\ during = Polling!Now /\ lastDuring = Polling!Now
  BY Zenon DEF Polling!Init, Polling!NoNames, Polling!NoSocks
<1>2. Polling!Now \in History
  BY <1>1, NowType, Zenon
<1>3. Polling!TypeOK
  BY <1>1, <1>2, PollingAssumption DEF Polling!TypeOK, Polling!PollerAssumption, History
<1>4. Polling!PortsAreFresh /\ Polling!NamesPruned
  BY <1>1, Zenon DEF Polling!PortsAreFresh, Polling!NamesPruned
<1>5. PresentSeen /\ SocksFresh /\ WalkFresh /\ WalkNames /\ CachedNames
  BY <1>1, Zenon DEF PresentSeen, SocksFresh, WalkFresh, WalkNames, CachedNames
<1>6. OwnersListed(ports, polled) /\ OwnersListed(wPorts, wConns)
  BY <1>1, Zenon DEF OwnersListed
<1> QED BY <1>3, <1>4, <1>5, <1>6 DEF PollInv

(* Whatever the kernel does, the history only grows, and sees it. *)
LEMMA KernelPollInv == ASSUME PollInv, Polling!Kernel PROVE PollInv'
<1>1. /\ proc' \in [Pids -> Names \cup {None}] /\ held' \in [Pids -> SUBSET Ports]
      /\ spawned' \in 0 .. MaxSpawns
  BY PollingAssumption DEF PollInv, Polling!TypeOK, Polling!PollerAssumption, Polling!Kernel,
     Polling!Spawn, Polling!Exit, Polling!Bind, Polling!Unbind
<1>2. Polling!Observe
  BY Zenon DEF Polling!Kernel, Polling!Spawn, Polling!Exit, Polling!Bind, Polling!Unbind
<1>3. UNCHANGED <<pc, todo, socks, wNames, wPorts, wConns, names, ports, polled, lastDuring>>
  BY <1>2, Zenon DEF Polling!Observe, Polling!walkVars, Polling!pubVars
<1>4. PICK now : now = Polling!Now'
  OBVIOUS
<1>5. /\ now \in History
      /\ \A p \in Pids : proc'[p] # None => proc'[p] \in now.names[p]
      /\ \A k \in Ports, p \in Pids : k \in held'[p] => p \in now.holders[k]
  BY <1>1, <1>4 DEF Polling!Now, History
<1>6. /\ carried' = [p \in Pids |-> carried[p] \cup ({proc'[p]} \ {None})]
      /\ during' = [names |-> [p \in Pids |-> during.names[p] \cup now.names[p]],
                    holders |-> [k \in Ports |-> during.holders[k] \cup now.holders[k]]]
  BY <1>2, <1>4, Zenon DEF Polling!Observe
<1>7. /\ \A p \in Pids : carried[p] \subseteq carried'[p]
      /\ \A p \in Pids : during.names[p] \subseteq during'.names[p]
      /\ \A k \in Ports : during.holders[k] \subseteq during'.holders[k]
  BY <1>6, Zenon
<1>8. during \in History /\ carried \in [Pids -> SUBSET Names]
  BY Zenon DEF PollInv, Polling!TypeOK, History
<1>9. during' \in History /\ carried' \in [Pids -> SUBSET Names]
  BY <1>1, <1>5, <1>6, <1>8 DEF History
<1>10. Polling!TypeOK'
  BY <1>1, <1>3, <1>9, Zenon DEF PollInv, Polling!TypeOK, History
<1>11. /\ polled \subseteq Polling!Connection /\ wConns \subseteq Polling!Connection
  BY Zenon DEF PollInv, Polling!TypeOK
<1>12. Polling!PortsAreFresh'
  BY <1>3, Zenon DEF PollInv, Polling!PortsAreFresh
<1>13. Polling!NamesPruned'
  BY <1>3, <1>7, <1>11, Zenon DEF PollInv, Polling!NamesPruned, Polling!Connection
<1>14. PresentSeen'
  BY <1>5, <1>6, Zenon DEF PresentSeen
<1>15. SocksFresh'
  BY <1>3, <1>7, Zenon DEF PollInv, SocksFresh, Polling!TypeOK
<1>16. WalkFresh'
  BY <1>3, <1>7, <1>11, Zenon DEF PollInv, WalkFresh, Polling!Connection
<1>17. WalkNames' /\ CachedNames'
  BY <1>3, <1>7, <1>11, Zenon DEF PollInv, WalkNames, CachedNames, Polling!Connection
<1>18. OwnersListed(ports, polled)' /\ OwnersListed(wPorts, wConns)'
  BY <1>3 DEF PollInv, OwnersListed
<1> QED BY <1>10, <1>12, <1>13, <1>14, <1>15, <1>16, <1>17, <1>18 DEF PollInv

(* A new walk starts from empty maps and from what is the case now. *)
LEMMA ListPIDsPollInv == ASSUME PollInv, Polling!ListPIDs PROVE PollInv'
<1>1. /\ pc' = "walk" /\ todo' \subseteq Pids
      /\ wNames' = [p \in Pids |-> None] /\ wPorts' = [k \in Ports |-> None] /\ wConns' = {}
      /\ during' = Polling!Now
      /\ UNCHANGED <<proc, held, spawned, socks, names, ports, polled, carried, lastDuring>>
  BY DEF Polling!ListPIDs, Polling!NoNames, Polling!kernelVars, Polling!pubVars
<1>2. PICK now : now = Polling!Now
  OBVIOUS
<1>3. /\ now \in History
      /\ \A p \in Pids : proc[p] # None => proc[p] \in now.names[p]
      /\ \A k \in Ports, p \in Pids : k \in held[p] => p \in now.holders[k]
  BY <1>2, NowType, Zenon DEF PollInv, Polling!TypeOK
<1>4. Polling!TypeOK'
  BY <1>1, <1>2, <1>3 DEF PollInv, Polling!TypeOK, History
<1>5. Polling!PortsAreFresh' /\ Polling!NamesPruned'
  BY <1>1, Zenon DEF PollInv, Polling!PortsAreFresh, Polling!NamesPruned
<1>6. PresentSeen'
  BY <1>1, <1>2, <1>3, Zenon DEF PollInv, PresentSeen
<1>7. SocksFresh' /\ WalkFresh' /\ WalkNames' /\ CachedNames'
  BY <1>1, Zenon DEF PollInv, SocksFresh, WalkFresh, WalkNames, CachedNames
<1>8. OwnersListed(ports, polled)' /\ OwnersListed(wPorts, wConns)'
  BY <1>1 DEF PollInv, OwnersListed
<1> QED BY <1>4, <1>5, <1>6, <1>7, <1>8 DEF PollInv

LEMMA SocketsForPIDPollInv ==
  ASSUME PollInv, NEW p \in Pids, Polling!SocketsForPID(p)
  PROVE  PollInv'
<1>1. /\ pc = "walk" /\ todo' = todo \ {p}
      /\ \/ held[p] # {} /\ socks' = [pid |-> p, ports |-> held[p]] /\ pc' = "name"
         \/ UNCHANGED <<socks, pc>>
      /\ UNCHANGED <<proc, held, spawned, wNames, wPorts, wConns, names, ports, polled,
                     carried, during, lastDuring>>
  BY Zenon DEF Polling!SocketsForPID, Polling!kernelVars, Polling!pubVars
<1>2. held[p] \in SUBSET Ports
  BY Zenon DEF PollInv, Polling!TypeOK
<1>3. Polling!TypeOK'
  BY <1>1, <1>2 DEF PollInv, Polling!TypeOK
<1>4. SocksFresh'
  <2>1. CASE held[p] # {} /\ socks' = [pid |-> p, ports |-> held[p]]
    <3>1. socks'.pid = p /\ socks'.ports = held[p]
      BY <2>1
    <3>2. \A k \in held[p] : p \in during.holders[k]
      BY <1>2, Zenon DEF PollInv, PresentSeen
    <3> QED BY <1>1, <2>1, <3>1, <3>2, Zenon DEF SocksFresh
  <2>2. CASE UNCHANGED <<socks, pc>>
    BY <1>1, <2>2, Zenon DEF PollInv, SocksFresh
  <2> QED BY <1>1, <2>1, <2>2, Zenon
<1>5. Polling!PortsAreFresh' /\ Polling!NamesPruned' /\ PresentSeen'
  BY <1>1, Zenon DEF PollInv, Polling!PortsAreFresh, Polling!NamesPruned, PresentSeen
<1>6. WalkFresh' /\ WalkNames' /\ CachedNames'
  BY <1>1, Zenon DEF PollInv, WalkFresh, WalkNames, CachedNames
<1>7. OwnersListed(ports, polled)' /\ OwnersListed(wPorts, wConns)'
  BY <1>1 DEF PollInv, OwnersListed
<1> QED BY <1>3, <1>4, <1>5, <1>6, <1>7 DEF PollInv

(* The name found is one the PID has had since a walk last missed it, and the  *)
(* ports are recorded under one and the same owner in both maps.               *)
LEMMA ProcessNamePollInv == ASSUME PollInv, Polling!ProcessName PROVE PollInv'
<1>1. /\ pc = "name" /\ pc' = "walk" /\ socks' = [pid |-> None, ports |-> {}]
      /\ UNCHANGED <<proc, held, spawned, todo, names, ports, polled, carried, during, lastDuring>>
  BY Zenon DEF Polling!ProcessName, Polling!NoSocks, Polling!kernelVars, Polling!pubVars
<1>2. PICK pid \in Pids : pid = socks.pid
  BY <1>1, Zenon DEF PollInv, SocksFresh
<1>3. PICK held_ \in SUBSET Ports : held_ = socks.ports
  BY Zenon DEF PollInv, Polling!TypeOK
<1>4. held_ # {} /\ \A k \in held_ : pid \in during.holders[k]
  BY <1>1, <1>2, <1>3, Zenon DEF PollInv, SocksFresh
<1>5. PICK name \in IF names[socks.pid] # None THEN {names[socks.pid]}
                    ELSE {Unknown} \cup ({proc[socks.pid]} \ {None}) :
        /\ wNames' = IF name # Unknown THEN [wNames EXCEPT ![socks.pid] = name] ELSE wNames
        /\ wPorts' = [k \in Ports |-> IF k \in socks.ports THEN [pid |-> socks.pid, name |-> name] ELSE wPorts[k]]
        /\ wConns' = wConns \cup {[pid |-> socks.pid, name |-> name, port |-> k] : k \in socks.ports}
  BY Zenon DEF Polling!ProcessName
<1>6. /\ name = names[pid] \/ name = Unknown \/ name = proc[pid]
      /\ name # None
  BY <1>2, <1>5, PollingAssumption, Zenon DEF Polling!PollerAssumption
<1>7. /\ name # Unknown => wNames' = [wNames EXCEPT ![pid] = name]
      /\ name = Unknown => wNames' = wNames
  BY <1>2, <1>5, Zenon
<1>8. wPorts' = [k \in Ports |-> IF k \in held_ THEN [pid |-> pid, name |-> name] ELSE wPorts[k]]
  BY <1>2, <1>3, <1>5, Zenon
<1>9. wConns' = wConns \cup {[pid |-> pid, name |-> name, port |-> k] : k \in held_}
  BY <1>2, <1>3, <1>5, Zenon
<1>10. /\ Unknown \notin Names /\ None \notin Names
      /\ proc \in [Pids -> Names \cup {None}] /\ names \in [Pids -> Names \cup {None}]
  BY PollingAssumption, Zenon DEF Polling!PollerAssumption, PollInv, Polling!TypeOK
<1>11. name \in Names \cup {Unknown} /\ (name # Unknown => name \in Names /\ name \in carried[pid])
  BY <1>6, <1>10, Zenon DEF PollInv, PresentSeen, CachedNames
<1>12. Polling!TypeOK'
  <2>1. wNames' \in [Pids -> Names \cup {None}]
    BY <1>7, <1>11 DEF PollInv, Polling!TypeOK
  <2>2. wPorts' \in [Ports -> Polling!Process \cup {None}]
    <3>1. [pid |-> pid, name |-> name] \in Polling!Process
      BY <1>11 DEF Polling!Process
    <3> QED BY <1>8, <3>1, Zenon DEF PollInv, Polling!TypeOK
  <2>3. wConns' \in SUBSET Polling!Connection
    <3>1. \A k \in held_ : [pid |-> pid, name |-> name, port |-> k] \in Polling!Connection
      BY <1>11 DEF Polling!Connection
    <3> QED BY <1>9, <3>1 DEF PollInv, Polling!TypeOK
  <2>4. socks' \in [pid: Pids \cup {None}, ports: SUBSET Ports]
    BY <1>1, Zenon
  <2> QED BY <1>1, <2>1, <2>2, <2>3, <2>4, Zenon DEF PollInv, Polling!TypeOK
<1>13. Polling!PortsAreFresh' /\ Polling!NamesPruned' /\ PresentSeen' /\ SocksFresh' /\ CachedNames'
  BY <1>1, Zenon DEF PollInv, Polling!PortsAreFresh, Polling!NamesPruned, PresentSeen, SocksFresh, CachedNames
<1>14. \A c \in wConns' : c \in wConns \/ (c.pid = pid /\ c.name = name /\ c.port \in held_)
  BY <1>9
<1>15. WalkFresh'
  <2>1. \A k \in Ports : wPorts'[k] # None => wPorts'[k].pid \in during.holders[k]
    BY <1>4, <1>8, Zenon DEF PollInv, WalkFresh
  <2>2. \A c \in wConns' : c.pid \in during.holders[c.port]
    BY <1>4, <1>14, Zenon DEF PollInv, WalkFresh
  <2> QED BY <1>1, <2>1, <2>2, Zenon DEF WalkFresh
<1>16. WalkNames'
  <2>1. \A c \in wConns' : c.name # Unknown => c.name \in carried[c.pid]
    BY <1>11, <1>14, Zenon DEF PollInv, WalkNames
  <2>2. PICK k \in held_ : TRUE
    BY <1>4
  <2>3. [pid |-> pid, name |-> name, port |-> k] \in wConns' /\ wConns \subseteq wConns'
    BY <1>8, <1>9, <2>2, Zenon
  <2>4. \E c \in wConns' : c.pid = pid
    BY <2>3
  <2>5. wNames \in [Pids -> Names \cup {None}]
    BY Zenon DEF PollInv, Polling!TypeOK
  <2>6. \A p \in Pids : wNames'[p] # None =>
          wNames'[p] = wNames[p] \/ (p = pid /\ name # Unknown /\ wNames'[p] = name)
    BY <1>7, <2>5
  <2>7. ASSUME NEW p \in Pids, wNames'[p] # None
        PROVE  wNames'[p] \in carried[p] /\ \E c \in wConns' : c.pid = p
    <3>1. CASE wNames'[p] = wNames[p]
      BY <2>3, <2>7, <3>1, Zenon DEF PollInv, WalkNames
    <3>2. CASE p = pid /\ name # Unknown /\ wNames'[p] = name
      BY <1>11, <2>4, <3>2
    <3> QED BY <2>6, <2>7, <3>1, <3>2
  <2> QED BY <1>1, <2>1, <2>7, Zenon DEF WalkNames
<1>17. OwnersListed(wPorts, wConns)'
  <2> SUFFICES ASSUME NEW k \in Ports
               PROVE  /\ wPorts'[k] = None => \A c \in wConns' : c.port # k
                      /\ wPorts'[k] # None =>
                           \E c \in wConns' : c.port = k /\ wPorts'[k] = [pid |-> c.pid, name |-> c.name]
    BY Zenon DEF OwnersListed
  <2>1. CASE k \in held_
    <3>1. wPorts'[k] = [pid |-> pid, name |-> name]
      BY <1>8, <1>9, <2>1, Zenon
    <3>2. [pid |-> pid, name |-> name, port |-> k] \in wConns'
      BY <1>8, <1>9, <2>1, Zenon
    <3>3. [pid |-> pid, name |-> name] # None
      <4>1. [pid |-> pid, name |-> name] \in Polling!Process
        BY <1>11 DEF Polling!Process
      <4> QED BY <4>1, PollingAssumption DEF Polling!PollerAssumption
    <3> QED BY <3>1, <3>2, <3>3, Zenon
  <2>2. CASE k \notin held_
    <3>1. wPorts'[k] = wPorts[k] /\ wConns \subseteq wConns'
      BY <1>8, <1>9, <2>2, Zenon
    <3>2. \A c \in wConns' : c.port = k => c \in wConns
      BY <1>14, <2>2
    <3> QED BY <3>1, <3>2 DEF PollInv, OwnersListed
  <2> QED BY <2>1, <2>2, Zenon
<1>18. OwnersListed(ports, polled)'
  BY <1>1 DEF PollInv, OwnersListed
<1> QED BY <1>12, <1>13, <1>15, <1>16, <1>17, <1>18 DEF PollInv

(* The maps of the walk become what is served, the name cache among them. *)
LEMMA PublishPollInv == ASSUME PollInv, Polling!Publish PROVE PollInv'
<1>1. /\ pc = "walk" /\ pc' = "idle" /\ names' = wNames /\ ports' = wPorts /\ polled' = wConns
      /\ wNames' = [p \in Pids |-> None] /\ wPorts' = [k \in Ports |-> None] /\ wConns' = {}
      /\ carried' = [p \in Pids |-> IF \E c \in wConns : c.pid = p THEN carried[p] ELSE during.names[p]]
      /\ lastDuring' = during
      /\ UNCHANGED <<proc, held, spawned, todo, socks, during>>
  BY Zenon DEF Polling!Publish, Polling!NoNames, Polling!kernelVars
<1>2. wConns \subseteq Polling!Connection
  BY Zenon DEF PollInv, Polling!TypeOK
<1>3. Polling!TypeOK'
  BY <1>1, Zenon DEF PollInv, Polling!TypeOK
<1>4. Polling!PortsAreFresh'
  BY <1>1, Zenon DEF PollInv, WalkFresh, Polling!PortsAreFresh
<1>5. Polling!NamesPruned' /\ CachedNames'
  BY <1>1, <1>2, Zenon DEF PollInv, WalkNames, Polling!NamesPruned, CachedNames, Polling!Connection
<1>6. PresentSeen'
  BY <1>1, Zenon DEF PollInv, PresentSeen
<1>7. SocksFresh' /\ WalkFresh' /\ WalkNames'
  BY <1>1, Zenon DEF SocksFresh, WalkFresh, WalkNames
<1>8. OwnersListed(ports, polled)' /\ OwnersListed(wPorts, wConns)'
  BY <1>1, Zenon DEF PollInv, OwnersListed
<1> QED BY <1>3, <1>4, <1>5, <1>6, <1>7, <1>8 DEF PollInv

(* The poller that has stopped, or waits, serves what it did. *)
LEMMA RestPollInv ==
  ASSUME PollInv, pc' = pc \/ pc' = "stopped",
         UNCHANGED <<proc, held, spawned, todo, socks, wNames, wPorts, wConns, names, ports, polled,
                     carried, during, lastDuring>>
  PROVE  PollInv'
<1>1. Polling!TypeOK'
  BY Zenon DEF PollInv, Polling!TypeOK
<1>2. Polling!PortsAreFresh' /\ Polling!NamesPruned' /\ PresentSeen' /\ SocksFresh'
  BY Zenon DEF PollInv, Polling!PortsAreFresh, Polling!NamesPruned, PresentSeen, SocksFresh
<1>3. WalkFresh' /\ WalkNames' /\ CachedNames'
  BY Zenon DEF PollInv, WalkFresh, WalkNames, CachedNames
<1>4. OwnersListed(ports, polled)' /\ OwnersListed(wPorts, wConns)'
  BY DEF PollInv, OwnersListed
<1> QED BY <1>1, <1>2, <1>3, <1>4, Zenon DEF PollInv

(* The invariant of the poller. *)
THEOREM PollInvariance == Polling!Spec => []PollInv
<1>1. Polling!Init => PollInv
  BY InitPollInv
<1>2. PollInv /\ [Polling!Next]_(Polling!vars) => PollInv'
  <2> SUFFICES ASSUME PollInv, [Polling!Next]_(Polling!vars) PROVE PollInv'
    OBVIOUS
  <2>1. CASE Polling!Stop
    BY <2>1, RestPollInv DEF Polling!Stop, Polling!kernelVars, Polling!walkVars, Polling!pubVars
  <2>2. CASE UNCHANGED Polling!vars
    BY <2>2, RestPollInv, Zenon DEF Polling!vars, Polling!kernelVars, Polling!walkVars, Polling!pubVars
  <2> QED BY <2>1, <2>2, KernelPollInv, ListPIDsPollInv, SocketsForPIDPollInv, ProcessNamePollInv,
             PublishPollInv DEF Polling!Next
<1> QED BY <1>1, <1>2, PTL DEF Polling!Spec

(* What the poller serves is always one walk: the owner of a port held it      *)
(* during that walk, Lookup and Connections name the same owner, and a cached   *)
(* name is one its PID had since a walk last missed it (poll, ProcessName),     *)
(* however processes exit, PIDs are reused and ports change hands meanwhile.    *)
THEOREM ServesOneWalk == Polling!Spec => []PollIsOneWalk
<1>1. PollInv => PollIsOneWalk
  BY OwnersMatch DEF PollInv, PollIsOneWalk
<1> QED BY <1>1, PollInvariance, PTL
=============================================================================
