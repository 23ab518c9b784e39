-------------------------- MODULE AggregatorProofs --------------------------
(***************************************************************************)
(* Proofs about the flow table and about Refresh, for any interfaces,      *)
(* tuples, processes, counters, bounds and grace period.                   *)
(*                                                                         *)
(* The flow table first.  Its inductive invariant Inv adds to the checked  *)
(* invariants what they rest on: which goroutine holds a counter, that a   *)
(* snapshot only visits flows that are there, and how the history variable *)
(* newest relates to the counter in the table.                             *)
(*                                                                         *)
(* Then Refresh: it shows exactly the rows with a recent source, and a     *)
(* row's total drops only when Evict or another interface explains it.     *)
(* The last needs an invariant that ties every row to a counter still in   *)
(* the table, through packets credited, counters created and evicted, and  *)
(* a snapshot being taken in the meantime.                                 *)
(***************************************************************************)
EXTENDS Aggregator, TLAPS

(* A capture goroutine holds a counter only between record's lookup and Add, *)
(* and the packet it then handles has a timestamp.                           *)
HeldWhileAdding ==
  \A i \in Ifaces : /\ held[i] # Nil <=> pc[i] = "add"
                    /\ pc[i] # "read" => pkt[i].ts > 0

(* Snapshot has still to visit, or is half way through, flows in the table. *)
SnapshotVisitsLive ==
  /\ rpc = "snapshot" => todo \subseteq Live
  /\ half # Nil => rpc = "snapshot" /\ flows[half] # Nil

(* A counter that has counted a packet has a date, and so has what Snapshot  *)
(* is about to read.                                                         *)
CountersDated ==
  /\ \A c \in Counters : ctr[c].bytes > 0 => ctr[c].lastSeen > 0
  /\ half # Nil /\ snap[half].bytes > 0 => ctr[flows[half]].bytes > 0

(* newest never runs ahead of the counter in the table. *)
NewestBounded ==
  \A k \in FlowKey :
    IF flows[k] = Nil THEN newest[k] = 0 ELSE newest[k] <= ctr[flows[k]].lastSeen

(* Evict has collected no flow it was told to keep. *)
StaleNotKept == stale \cap keep = {}

(* No two flows and no two capture goroutines share a counter, and a counter *)
(* a goroutine holds is in the table under its own key or not at all.        *)
CountersNotShared ==
  /\ \A k, l \in Live : k # l => flows[k] # flows[l]
  /\ \A i \in Ifaces, k \in Live : held[i] = flows[k] => k = KeyOf(i)
  /\ \A i, j \in Ifaces : held[i] # Nil /\ i # j => held[i] # held[j]

(* A goroutine that found no counter still finds none under the write lock. *)
NoneMeanwhile == \A i \in Ifaces : pc[i] = "create" => flows[KeyOf(i)] = Nil

Inv == /\ TypeOK
       /\ HeldWhileAdding
       /\ SnapshotVisitsLive
       /\ CountersNotShared
       /\ CountersDated
       /\ SnapshotDatesTraffic
       /\ NewestBounded
       /\ StaleNotKept

-----------------------------------------------------------------------------
LEMMA KeyOfType ==
  ASSUME TypeOK, NEW i \in Ifaces
  PROVE  KeyOf(i) \in FlowKey /\ KeyOf(i)[2] = i
BY Zenon DEF TypeOK, KeyOf, FlowKey

LEMMA InitInv == Init => Inv
<1> SUFFICES ASSUME Init PROVE Inv
  OBVIOUS
<1> USE FlowTableAssumption
<1>1. TypeOK
  BY DEF Init, TypeOK, NoStats, FlowStats, ZeroCounter
<1>2. HeldWhileAdding /\ SnapshotVisitsLive /\ StaleNotKept
  BY Zenon DEF Init, HeldWhileAdding, SnapshotVisitsLive, StaleNotKept, Live
<1>3. CountersNotShared
  BY Zenon DEF Init, CountersNotShared, Live
<1>4. CountersDated /\ SnapshotDatesTraffic /\ NewestBounded
  BY Zenon DEF Init, CountersDated, SnapshotDatesTraffic, NewestBounded, ZeroCounter, NoStats
<1> QED BY <1>1, <1>2, <1>3, <1>4 DEF Inv

-----------------------------------------------------------------------------
(* The capture goroutines. *)

LEMMA ReadPacketInv == ASSUME Inv, NEW i \in Ifaces, ReadPacket(i) PROVE Inv'
<1> USE FlowTableAssumption DEF Inv
<1> DEFINE lo == LaterOf(1, now - MaxLag)
<1>1. PICK t \in Tuples, ts \in lo .. now : pkt' = [pkt EXCEPT ![i] = [tuple |-> t, ts |-> ts]]
  BY Zenon DEF ReadPacket
<1>2. ts \in Nat /\ ts > 0
  <2>1. now \in Nat BY Zenon DEF TypeOK
  <2>2. lo \in Int /\ lo >= 1 BY <2>1 DEF LaterOf
  <2> QED BY <2>1, <2>2
<1>3. TypeOK'
  BY <1>1, <1>2 DEF TypeOK, ReadPacket, tableVars, refreshVars
<1>4. HeldWhileAdding'
  BY <1>1, <1>2, Zenon DEF HeldWhileAdding, ReadPacket, TypeOK
<1>5. \A j \in Ifaces : j # i => KeyOf(j)' = KeyOf(j)
  BY <1>1, Zenon DEF KeyOf, TypeOK
<1>6. held[i] = Nil /\ held' = held /\ flows' = flows
  BY Zenon DEF HeldWhileAdding, ReadPacket, tableVars
<1>7. CountersNotShared'
  BY <1>5, <1>6 DEF CountersNotShared, Live, FlowKey
<1>8. SnapshotVisitsLive' /\ CountersDated' /\ SnapshotDatesTraffic' /\ NewestBounded' /\ StaleNotKept'
  BY Zenon DEF ReadPacket, tableVars, refreshVars, SnapshotVisitsLive, CountersDated,
         SnapshotDatesTraffic, NewestBounded, StaleNotKept, Live
<1> QED BY <1>3, <1>4, <1>7, <1>8, Zenon

LEMMA LookupInv == ASSUME Inv, NEW i \in Ifaces, Lookup(i) PROVE Inv'
<1> USE FlowTableAssumption DEF Inv
<1>1. KeyOf(i) \in FlowKey /\ \A j \in Ifaces : KeyOf(j)' = KeyOf(j) /\ KeyOf(j)[2] = j
  BY KeyOfType, Zenon DEF Lookup, KeyOf
<1>2. TypeOK'
  BY <1>1, Zenon DEF TypeOK, Lookup, tableVars, refreshVars
<1>3. HeldWhileAdding'
  BY Zenon DEF HeldWhileAdding, Lookup, TypeOK
<1>4. /\ held' = [held EXCEPT ![i] = flows[KeyOf(i)]]
      /\ held \in [Ifaces -> Counters \cup {Nil}]
      /\ flows' = flows
  BY Zenon DEF Lookup, tableVars, TypeOK
<1>5. CountersNotShared'
  BY <1>1, <1>4 DEF CountersNotShared, Live
<1>6. SnapshotVisitsLive' /\ CountersDated' /\ SnapshotDatesTraffic' /\ NewestBounded' /\ StaleNotKept'
  BY Zenon DEF Lookup, tableVars, refreshVars, SnapshotVisitsLive, CountersDated,
         SnapshotDatesTraffic, NewestBounded, StaleNotKept, Live
<1> QED BY <1>2, <1>3, <1>5, <1>6, Zenon

LEMMA CreateInv == ASSUME Inv, NEW i \in Ifaces, Create(i) PROVE Inv'
<1> USE FlowTableAssumption DEF Inv
<1>1. KeyOf(i) \in FlowKey /\ \A j \in Ifaces : KeyOf(j)' = KeyOf(j) /\ KeyOf(j)[2] = j
  BY KeyOfType, Zenon DEF Create, KeyOf
<1>2. pc[i] = "create" /\ rpc # "snapshot" /\ half = Nil
  BY Zenon DEF Create, SnapshotVisitsLive
<1>3. UNCHANGED <<now, npkts, pkt, refreshVars>> /\ pc' = [pc EXCEPT ![i] = "add"]
  BY Zenon DEF Create
<1>4. CASE /\ flows[KeyOf(i)] # Nil
           /\ held' = [held EXCEPT ![i] = flows[KeyOf(i)]]
           /\ UNCHANGED tableVars
  <2>1. TypeOK'
    BY <1>1, <1>3, <1>4, Zenon DEF TypeOK, tableVars, refreshVars
  <2>2. HeldWhileAdding'
    BY <1>2, <1>3, <1>4, Zenon DEF HeldWhileAdding, TypeOK
  <2>3. CountersNotShared'
    BY <1>1, <1>4 DEF CountersNotShared, Live, tableVars, TypeOK
  <2>4. SnapshotVisitsLive' /\ CountersDated' /\ SnapshotDatesTraffic' /\ NewestBounded' /\ StaleNotKept'
    BY <1>3, <1>4, Zenon DEF tableVars, refreshVars, SnapshotVisitsLive, CountersDated,
           SnapshotDatesTraffic, NewestBounded, StaleNotKept, Live
  <2> QED BY <2>1, <2>2, <2>3, <2>4, Zenon
<1>5. ASSUME flows[KeyOf(i)] = Nil, UNCHANGED newest,
             NEW c \in Unreachable,
             flows' = [flows EXCEPT ![KeyOf(i)] = c],
             ctr' = [ctr EXCEPT ![c] = ZeroCounter],
             held' = [held EXCEPT ![i] = c]
      PROVE  Inv'
  <2>1. /\ c \in Counters /\ \A k \in FlowKey : flows[k] # c
        /\ \A j \in Ifaces : held[j] # c
    BY Zenon DEF Unreachable
  <2>2. TypeOK'
    BY <1>1, <1>3, <1>5, <2>1, Zenon DEF TypeOK, refreshVars, ZeroCounter
  <2>3. HeldWhileAdding'
    BY <1>2, <1>3, <1>5, <2>1, Zenon DEF HeldWhileAdding, TypeOK
  <2>4. CountersNotShared'
    BY <1>1, <1>5, <2>1 DEF CountersNotShared, Live, TypeOK
  <2>5. SnapshotVisitsLive' /\ StaleNotKept' /\ SnapshotDatesTraffic'
    BY <1>2, <1>3, Zenon DEF refreshVars, SnapshotVisitsLive, StaleNotKept, SnapshotDatesTraffic
  <2>6. CountersDated'
    BY <1>2, <1>3, <1>5, <2>1, Zenon DEF CountersDated, refreshVars, ZeroCounter, TypeOK
  <2>7. NewestBounded'
    BY <1>1, <1>5, <2>1 DEF NewestBounded, ZeroCounter, TypeOK
  <2> QED BY <2>2, <2>3, <2>4, <2>5, <2>6, <2>7, Zenon
<1> QED BY <1>4, <1>5, Zenon DEF Create

LEMMA AddInv == ASSUME Inv, NEW i \in Ifaces, Add(i) PROVE Inv'
<1> USE FlowTableAssumption DEF Inv
<1> DEFINE key == KeyOf(i)
           ts == pkt[i].ts
           credited == [bytes |-> ctr[held[i]].bytes + 1,
                        lastSeen |-> LaterOf(ctr[held[i]].lastSeen, ts)]
<1>1. key \in FlowKey /\ \A j \in Ifaces : KeyOf(j)' = KeyOf(j) /\ KeyOf(j)[2] = j
  BY KeyOfType, Zenon DEF Add, KeyOf
<1>2. ts \in Nat /\ ts > 0
  BY Zenon DEF Add, HeldWhileAdding, TypeOK
<1>3. /\ flows' = flows /\ pkt' = pkt /\ UNCHANGED <<now, npkts, refreshVars>>
      /\ ctr' = [ctr EXCEPT ![held[i]] = credited]
      /\ held' = [held EXCEPT ![i] = Nil] /\ pc' = [pc EXCEPT ![i] = "read"]
  BY Zenon DEF Add
<1>4. newest' = IF flows[key] = held[i] THEN [newest EXCEPT ![key] = LaterOf(@, ts)] ELSE newest
  BY Zenon DEF Add
<1>5. held[i] \in Counters =>
        /\ credited.bytes \in Nat /\ credited.bytes > 0
        /\ credited.lastSeen \in Nat
        /\ credited.lastSeen >= ts /\ credited.lastSeen >= ctr[held[i]].lastSeen
  BY <1>2 DEF TypeOK, LaterOf
<1>6. newest[key] \in Nat /\ LaterOf(newest[key], ts) \in Nat
  BY <1>1, <1>2, Zenon DEF TypeOK, LaterOf
<1>7. TypeOK'
  <2>1. ctr' \in [Counters -> [bytes: Nat, lastSeen: Nat]]
    BY <1>3, <1>5, Zenon DEF TypeOK
  <2>2. newest' \in [FlowKey -> Nat]
    BY <1>1, <1>4, <1>6, Zenon DEF TypeOK
  <2> QED BY <1>3, <2>1, <2>2, Zenon DEF TypeOK, refreshVars
<1>8. HeldWhileAdding'
  BY <1>3, Zenon DEF HeldWhileAdding, TypeOK
<1>9. CountersNotShared'
  BY <1>1, <1>3 DEF CountersNotShared, Live, TypeOK
<1>10. SnapshotVisitsLive' /\ StaleNotKept' /\ SnapshotDatesTraffic'
  BY <1>3, Zenon DEF refreshVars, SnapshotVisitsLive, StaleNotKept, SnapshotDatesTraffic, Live
<1>11. CountersDated'
  BY <1>2, <1>3, <1>5 DEF CountersDated, refreshVars, TypeOK, SnapshotVisitsLive
<1>12. held[i] # Nil
  BY Zenon DEF Add, HeldWhileAdding
<1>13. NewestBounded'
  <2> SUFFICES ASSUME NEW k \in FlowKey
               PROVE IF flows[k] = Nil THEN newest'[k] = 0
                     ELSE newest'[k] <= ctr'[flows[k]].lastSeen
    BY <1>3, Zenon DEF NewestBounded
  <2>1. CASE flows[k] = Nil
    BY <1>1, <1>4, <2>1, <1>12, Zenon DEF NewestBounded, TypeOK
  <2>2. CASE flows[k] # Nil /\ flows[k] = held[i]
    <3>1. k = key BY <2>2, Zenon DEF CountersNotShared, Live
    <3>2. newest'[k] = LaterOf(newest[k], ts) BY <1>1, <1>4, <2>2, <3>1, Zenon DEF TypeOK
    <3>3. ctr'[flows[k]] = credited BY <1>3, <2>2, Zenon DEF TypeOK
    <3> QED BY <1>2, <1>5, <1>6, <2>2, <3>1, <3>2, <3>3 DEF NewestBounded, TypeOK, LaterOf
  <2>3. CASE flows[k] # Nil /\ flows[k] # held[i]
    BY <1>1, <1>3, <1>4, <2>3 DEF NewestBounded, TypeOK
  <2> QED BY <2>1, <2>2, <2>3, Zenon
<1> QED BY <1>7, <1>8, <1>9, <1>10, <1>11, <1>13

-----------------------------------------------------------------------------
(* The refreshing goroutine and the clock. *)

LEMMA SnapshotBeginInv == ASSUME Inv, SnapshotBegin PROVE Inv'
<1> USE FlowTableAssumption DEF Inv, captureVars, tableVars
<1>1. half = Nil
  BY Zenon DEF SnapshotBegin, SnapshotVisitsLive
<1>2. TypeOK' /\ HeldWhileAdding' /\ StaleNotKept'
  BY Zenon DEF SnapshotBegin, TypeOK, HeldWhileAdding, StaleNotKept, Live, NoStats, FlowStats
<1>3. CountersNotShared' /\ NewestBounded'
  BY Zenon DEF SnapshotBegin, CountersNotShared, NewestBounded, Live, KeyOf
<1>4. SnapshotVisitsLive' /\ CountersDated' /\ SnapshotDatesTraffic'
  BY <1>1, Zenon DEF SnapshotBegin, SnapshotVisitsLive, CountersDated, SnapshotDatesTraffic, Live, NoStats
<1> QED BY <1>2, <1>3, <1>4, Zenon

LEMMA SnapshotTotalsInv == ASSUME Inv, NEW k \in FlowKey, SnapshotTotals(k) PROVE Inv'
<1> USE FlowTableAssumption DEF Inv, captureVars, tableVars
<1>1. flows[k] \in Counters
  BY Zenon DEF SnapshotTotals, SnapshotVisitsLive, Live, TypeOK
<1>2. TypeOK' /\ HeldWhileAdding' /\ StaleNotKept'
  BY <1>1, Zenon DEF SnapshotTotals, TypeOK, HeldWhileAdding, StaleNotKept, FlowStats
<1>3. CountersNotShared' /\ NewestBounded'
  BY Zenon DEF SnapshotTotals, CountersNotShared, NewestBounded, Live, KeyOf
<1>4. SnapshotVisitsLive'
  BY <1>1, Zenon DEF SnapshotTotals, SnapshotVisitsLive, Live
<1>5. snap'[k].bytes = ctr[flows[k]].bytes /\ half' = k
  BY Zenon DEF SnapshotTotals, TypeOK
<1>6. CountersDated'
  BY <1>1, <1>5, Zenon DEF SnapshotTotals, CountersDated
<1>7. SnapshotDatesTraffic'
  <2> SUFFICES ASSUME NEW l \in FlowKey, l # k PROVE snap'[l] = snap[l]
    BY <1>5, Zenon DEF SnapshotTotals, SnapshotDatesTraffic, FlowKey
  <2> QED BY Zenon DEF SnapshotTotals, TypeOK
<1> QED BY <1>2, <1>3, <1>4, <1>6, <1>7, Zenon

LEMMA SnapshotLastSeenInv == ASSUME Inv, NEW k \in FlowKey, SnapshotLastSeen(k) PROVE Inv'
<1> USE FlowTableAssumption DEF Inv, captureVars, tableVars
<1>1. half = k /\ k # Nil /\ flows[k] \in Counters
  BY Zenon DEF SnapshotLastSeen, SnapshotVisitsLive, TypeOK, FlowKey
<1>2. TypeOK' /\ HeldWhileAdding' /\ StaleNotKept'
  BY <1>1 DEF SnapshotLastSeen, TypeOK, HeldWhileAdding, StaleNotKept, FlowStats
<1>3. CountersNotShared' /\ NewestBounded'
  BY Zenon DEF SnapshotLastSeen, CountersNotShared, NewestBounded, Live, KeyOf
<1>4. SnapshotVisitsLive' /\ CountersDated'
  BY <1>1, Zenon DEF SnapshotLastSeen, SnapshotVisitsLive, CountersDated, Live
<1>5. SnapshotDatesTraffic'
  BY <1>1 DEF SnapshotLastSeen, SnapshotDatesTraffic, CountersDated, TypeOK, FlowStats
<1> QED BY <1>2, <1>3, <1>4, <1>5, Zenon

LEMMA EvictScanInv == ASSUME Inv, NEW spared, EvictScan(spared) PROVE Inv'
<1> USE FlowTableAssumption DEF Inv, captureVars, tableVars
<1>1. TypeOK' /\ HeldWhileAdding' /\ StaleNotKept'
  BY Zenon DEF EvictScan, TypeOK, HeldWhileAdding, StaleNotKept, Live
<1>2. CountersNotShared' /\ NewestBounded'
  BY Zenon DEF EvictScan, CountersNotShared, NewestBounded, Live, KeyOf
<1>3. SnapshotVisitsLive' /\ CountersDated' /\ SnapshotDatesTraffic'
  BY Zenon DEF EvictScan, SnapshotVisitsLive, CountersDated, SnapshotDatesTraffic
<1> QED BY <1>1, <1>2, <1>3, Zenon

LEMMA EvictSweepInv == ASSUME Inv, EvictSweep PROVE Inv'
<1> USE FlowTableAssumption DEF Inv, captureVars
<1>1. half = Nil
  BY Zenon DEF EvictSweep, SnapshotVisitsLive
<1>2. TypeOK' /\ HeldWhileAdding' /\ StaleNotKept'
  BY Zenon DEF EvictSweep, TypeOK, HeldWhileAdding, StaleNotKept
<1>3. \A k \in FlowKey : flows'[k] = flows[k] \/ flows'[k] = Nil
  BY Zenon DEF EvictSweep
<1>4. CountersNotShared'
  BY <1>3, Zenon DEF EvictSweep, CountersNotShared, Live, KeyOf
<1>5. NewestBounded'
  BY Zenon DEF EvictSweep, NewestBounded, TypeOK
<1>6. SnapshotVisitsLive' /\ CountersDated' /\ SnapshotDatesTraffic'
  BY <1>1, Zenon DEF EvictSweep, SnapshotVisitsLive, CountersDated, SnapshotDatesTraffic
<1> QED BY <1>2, <1>4, <1>5, <1>6, Zenon

LEMMA QuietStepInv ==
  ASSUME Inv, RefreshBegin \/ SnapshotEnd \/ Tick \/ UNCHANGED vars
  PROVE  Inv'
<1> USE FlowTableAssumption
    DEF Inv, vars, captureVars, tableVars, refreshVars, RefreshBegin, SnapshotEnd, Tick
<1>1. TypeOK'
  BY DEF TypeOK
<1>2. HeldWhileAdding' /\ StaleNotKept' /\ SnapshotVisitsLive'
  BY Zenon DEF HeldWhileAdding, StaleNotKept, SnapshotVisitsLive, Live
<1>3. CountersNotShared' /\ NewestBounded'
  BY Zenon DEF CountersNotShared, NewestBounded, Live, KeyOf
<1>4. CountersDated' /\ SnapshotDatesTraffic'
  BY Zenon DEF CountersDated, SnapshotDatesTraffic
<1> QED BY <1>1, <1>2, <1>3, <1>4, Zenon

-----------------------------------------------------------------------------
(* Inv is an invariant of the specification. *)
THEOREM Invariance == Spec => []Inv
<1>1. Init => Inv
  BY InitInv
<1>2. Inv /\ [Next]_vars => Inv'
  <2> SUFFICES ASSUME Inv, [Next]_vars PROVE Inv'
    OBVIOUS
  <2>1. ASSUME NEW i \in Ifaces, Capture(i) PROVE Inv'
    BY <2>1, ReadPacketInv, LookupInv, CreateInv, AddInv DEF Capture
  <2>2. CASE Snapshot
    BY <2>2, SnapshotBeginInv, SnapshotTotalsInv, SnapshotLastSeenInv, QuietStepInv DEF Snapshot
  <2>3. CASE \E spared \in SUBSET FlowKey : EvictScan(spared)
    BY <2>3, EvictScanInv
  <2>4. CASE EvictSweep
    BY <2>4, EvictSweepInv
  <2>5. CASE Tick \/ RefreshBegin \/ UNCHANGED vars
    BY <2>5, QuietStepInv
  <2> QED BY <2>1, <2>2, <2>3, <2>4, <2>5 DEF Next
<1> QED BY <1>1, <1>2, PTL DEF Spec

(* Type correctness of the flow table, its counters and both goroutines. *)
THEOREM TypeCorrect == Spec => []TypeOK
<1>1. Inv => TypeOK
  BY DEF Inv
<1> QED BY <1>1, Invariance, PTL

(* Between record's lookup and its write lock no step stores a counter under *)
(* the goroutine's key: another goroutine's key has another interface.       *)
LEMMA NoneMeanwhileStep ==
  ASSUME Inv, NoneMeanwhile, [Next]_vars
  PROVE  NoneMeanwhile'
<1> USE DEF Inv, vars, captureVars, tableVars, refreshVars
<1>1. ASSUME NEW i \in Ifaces, ReadPacket(i) PROVE NoneMeanwhile'
  BY <1>1, Zenon DEF NoneMeanwhile, ReadPacket, KeyOf, TypeOK
<1>2. ASSUME NEW i \in Ifaces, Lookup(i) PROVE NoneMeanwhile'
  BY <1>2, Zenon DEF NoneMeanwhile, Lookup, KeyOf, TypeOK
<1>3. ASSUME NEW i \in Ifaces, Create(i) PROVE NoneMeanwhile'
  <2> SUFFICES ASSUME NEW j \in Ifaces, pc'[j] = "create" PROVE flows'[KeyOf(j)] = Nil
    BY <1>3, Zenon DEF NoneMeanwhile, Create, KeyOf
  <2>1. j # i /\ pc[j] = "create"
    BY <1>3, Zenon DEF Create, TypeOK
  <2>2. KeyOf(i) # KeyOf(j)
    BY <2>1, KeyOfType, Zenon
  <2>3. flows'[KeyOf(j)] = flows[KeyOf(j)]
    BY <1>3, <2>2, KeyOfType, Zenon DEF Create, TypeOK
  <2> QED BY <2>1, <2>3, Zenon DEF NoneMeanwhile
<1>4. ASSUME NEW i \in Ifaces, Add(i) PROVE NoneMeanwhile'
  BY <1>4, Zenon DEF NoneMeanwhile, Add, KeyOf, TypeOK
<1>5. CASE EvictSweep
  <2>1. \A k \in FlowKey : flows'[k] = flows[k] \/ flows'[k] = Nil
    BY <1>5, Zenon DEF EvictSweep
  <2> QED BY <1>5, <2>1, KeyOfType, Zenon DEF NoneMeanwhile, EvictSweep, KeyOf
<1>6. ASSUME UNCHANGED <<pc, pkt, flows>> PROVE NoneMeanwhile'
  BY <1>6, Zenon DEF NoneMeanwhile, KeyOf
<1>7. CASE Tick \/ RefreshBegin \/ Snapshot \/ UNCHANGED vars
  BY <1>6, <1>7, Zenon DEF Tick, RefreshBegin, Snapshot, SnapshotBegin, SnapshotEnd,
                           SnapshotTotals, SnapshotLastSeen
<1>8. CASE \E spared \in SUBSET FlowKey : EvictScan(spared)
  BY <1>6, <1>8, Zenon DEF EvictScan
<1> QED BY <1>1, <1>2, <1>3, <1>4, <1>5, <1>7, <1>8 DEF Next, Capture

(* record: no two capture goroutines credit one counter, a counter is        *)
(* credited under its own key or after it has left the table, and the        *)
(* re-check under the write lock never finds a counter.                      *)
THEOREM WritersAreApart == Spec => []OneWriterPerFlow
<1>1. Init => NoneMeanwhile
  BY Zenon DEF Init, NoneMeanwhile
<1>2. Inv /\ NoneMeanwhile /\ [Next]_vars => NoneMeanwhile'
  BY NoneMeanwhileStep
<1>3. Inv /\ NoneMeanwhile => OneWriterPerFlow
  BY DEF Inv, CountersNotShared, NoneMeanwhile, OneWriterPerFlow
<1> QED BY <1>1, <1>2, <1>3, Invariance, PTL DEF Spec

(* Snapshot never shows traffic without its date. *)
THEOREM SnapshotDated == Spec => []SnapshotDatesTraffic
<1>1. Inv => SnapshotDatesTraffic
  BY DEF Inv
<1> QED BY <1>1, Invariance, PTL

(* Evict drops only flows whose every credited packet is older than the      *)
(* cutoff and that it was not told to keep.                                  *)
THEOREM EvictionSafe == Spec => EvictsOnlyQuietFlows
<1> DEFINE A == \A k \in FlowKey :
                  flows[k] # Nil /\ flows'[k] = Nil => newest[k] < Before /\ k \notin keep
<1>1. Inv /\ [Next]_vars => [A]_vars
  <2> SUFFICES ASSUME Inv, Next, NEW k \in FlowKey, flows[k] # Nil, flows'[k] = Nil
               PROVE  newest[k] < Before /\ k \notin keep
    BY Zenon DEF vars
  <2> USE FlowTableAssumption DEF Inv
  <2>1. EvictSweep
    <3>1. ASSUME NEW i \in Ifaces, Create(i) PROVE FALSE
      <4>1. KeyOf(i) \in FlowKey BY KeyOfType, Zenon
      <4> QED BY <3>1, <4>1, Zenon DEF Create, tableVars, TypeOK, Unreachable
    <3>2. UNCHANGED flows \/ EvictSweep
      BY <3>1, Zenon DEF Next, Capture, ReadPacket, Lookup, Add, RefreshBegin, Snapshot, SnapshotBegin,
         SnapshotTotals, SnapshotLastSeen, SnapshotEnd, EvictScan, Tick, tableVars
    <3> QED BY <3>2, Zenon
  <2>2. k \in Doomed
    BY <2>1, Zenon DEF EvictSweep
  <2>3. flows[k] \in Counters /\ ctr[flows[k]].lastSeen < Before /\ k \in stale
    BY <2>2, Zenon DEF Doomed, TypeOK
  <2>4. newest[k] <= ctr[flows[k]].lastSeen
    BY Zenon DEF NewestBounded
  <2>5. newest[k] < Before
    BY <2>3, <2>4 DEF TypeOK, Before
  <2> QED BY <2>3, <2>5, Zenon DEF StaleNotKept
<1> QED BY <1>1, Invariance, PTL DEF Spec, EvictsOnlyQuietFlows

(* Of a step that writes the table or a counter: a flow that stays in the    *)
(* table keeps its counter, which only grows (record, Add, Evict).           *)
LEMMA CountersGrow ==
  ASSUME Inv, NEW k \in FlowKey, flows[k] # Nil, flows'[k] # Nil,
         UNCHANGED <<flows, ctr>> \/ EvictSweep \/ \E i \in Ifaces : Create(i) \/ Add(i)
  PROVE  /\ flows'[k] = flows[k]
         /\ ctr'[flows[k]].bytes >= ctr[flows[k]].bytes
         /\ ctr'[flows[k]].lastSeen >= ctr[flows[k]].lastSeen
<1> USE FlowTableAssumption DEF Inv
<1>1. flows[k] \in Counters /\ ctr[flows[k]].bytes \in Nat /\ ctr[flows[k]].lastSeen \in Nat
  BY Zenon DEF TypeOK
<1>2. ASSUME NEW i \in Ifaces, Create(i)
      PROVE  flows'[k] = flows[k] /\ ctr'[flows[k]] = ctr[flows[k]]
  <2>1. KeyOf(i) \in FlowKey BY KeyOfType, Zenon
  <2> QED BY <1>1, <1>2, <2>1, Zenon DEF Create, tableVars, TypeOK, Unreachable
<1>3. ASSUME NEW i \in Ifaces, Add(i)
      PROVE  /\ flows'[k] = flows[k]
             /\ ctr'[flows[k]].bytes >= ctr[flows[k]].bytes
             /\ ctr'[flows[k]].lastSeen >= ctr[flows[k]].lastSeen
  <2>1. pkt[i].ts \in Nat BY Zenon DEF TypeOK
  <2>2. CASE flows[k] = held[i]
    BY <1>1, <1>3, <2>1, <2>2 DEF Add, LaterOf, TypeOK
  <2>3. CASE flows[k] # held[i]
    BY <1>1, <1>3, <2>3 DEF Add, TypeOK
  <2> QED BY <2>2, <2>3, Zenon
<1>4. CASE EvictSweep
  BY <1>1, <1>4 DEF EvictSweep
<1>5. CASE UNCHANGED <<flows, ctr>>
  BY <1>1, <1>5
<1> QED BY <1>1, <1>2, <1>3, <1>4, <1>5

(* A capture goroutine takes no flow out of the table. *)
LEMMA CaptureKeepsFlows ==
  ASSUME Inv, NEW i \in Ifaces, Capture(i), NEW k \in FlowKey, flows[k] # Nil
  PROVE  flows'[k] # Nil
<1>1. KeyOf(i) \in FlowKey BY KeyOfType, Zenon DEF Inv
<1> QED
  BY <1>1, FlowTableAssumption, Zenon
  DEF Inv, Capture, ReadPacket, Lookup, Create, Add, tableVars, TypeOK, Unreachable

(* While a flow stays in the table its counter is the same object and only   *)
(* grows.                                                                    *)
THEOREM TotalsGrow == Spec => TotalsOnlyGrow
<1> DEFINE B == \A k \in FlowKey : flows[k] # Nil /\ flows'[k] # Nil =>
                  /\ flows'[k] = flows[k]
                  /\ ctr'[flows[k]].bytes >= ctr[flows[k]].bytes
                  /\ ctr'[flows[k]].lastSeen >= ctr[flows[k]].lastSeen
<1>1. Inv /\ [Next]_vars => [B]_vars
  <2> SUFFICES ASSUME Inv, Next PROVE B
    BY Zenon DEF vars
  <2>1. \/ UNCHANGED <<flows, ctr>> \/ EvictSweep
        \/ \E i \in Ifaces : Create(i) \/ Add(i)
    BY Zenon DEF Next, Capture, ReadPacket, Lookup, RefreshBegin, Snapshot, SnapshotBegin,
       SnapshotTotals, SnapshotLastSeen, SnapshotEnd, EvictScan, Tick, tableVars
  <2> QED BY <2>1, CountersGrow, Zenon
<1> QED BY <1>1, Invariance, PTL DEF Spec, TotalsOnlyGrow

-----------------------------------------------------------------------------
(* Refresh. *)

(* A refresh is shown at the time it was called, which the clock has reached. *)
Clocks ==
  /\ shownAt <= at /\ at <= now /\ now >= 1
  /\ rpc # "idle" => at >= 1
  /\ rpc \in {"evict", "sweep"} => shownAt = at

(* A row remembers the last refresh that had a source for it. *)
RowsDated == \A k \in DOMAIN records : records[k].lastPolled = reported[k]

(* Snapshot holds the lock of the map, so what it has copied is still there, *)
(* and the counters have only grown since.                                   *)
SnapshotBehind ==
  rpc = "snapshot" =>
    \A f \in FlowKey :
      IF snap[f].live
      THEN /\ flows[f] # Nil /\ snap[f].bytes <= ctr[flows[f]].bytes
           /\ snap[f].lastSeen <= ctr[flows[f]].lastSeen
      ELSE snap[f].bytes = 0

(* The counter of flow f has all that row k shows, and a snapshot that has   *)
(* passed f has copied as much.                                              *)
BackedBy(k, f) ==
  /\ flows[f] # Nil
  /\ records[k].bytes <= ctr[flows[f]].bytes /\ records[k].lastSeen <= ctr[flows[f]].lastSeen
  /\ rpc = "snapshot" /\ f \notin todo => snap[f].live /\ records[k].bytes <= snap[f].bytes

(* A row with traffic had fallen silent when it was last shown, or one of    *)
(* the interfaces still has the counter behind it.                           *)
RowsBacked ==
  \A k \in DOMAIN records : records[k].bytes > 0 =>
    \/ records[k].lastSeen < shownAt - Grace
    \/ \E i \in Ifaces : BackedBy(k, <<k[2], i>>)

(* The inductive invariant: that of the flow table, and these. *)
AggInv ==
  /\ Inv
  /\ AggTypeOK
  /\ Clocks
  /\ RowsDated
  /\ ShowsExactlyRecentRows
  /\ SnapshotBehind
  /\ RowsBacked

-----------------------------------------------------------------------------
LEMMA ConnectionIsConnKey == Connection \subseteq ConnKey
BY AggregatorAssumption DEF Connection, ConnKey

(* The counter behind a flow in the table. *)
LEMMA CounterType ==
  ASSUME TypeOK, NEW f \in FlowKey, flows[f] # Nil
  PROVE  flows[f] \in Counters /\ ctr[flows[f]].bytes \in Nat /\ ctr[flows[f]].lastSeen \in Nat
BY Zenon DEF TypeOK

(* A row's key names flows of the table, and its totals are numbers. *)
LEMMA RowType ==
  ASSUME AggTypeOK, NEW k \in DOMAIN records
  PROVE  /\ k \in ConnKey /\ k[2] \in Tuples /\ \A i \in Ifaces : <<k[2], i>> \in FlowKey
         /\ records[k].bytes \in Nat /\ records[k].lastSeen \in Nat
         /\ records[k].lastPolled \in Nat
BY Zenon DEF AggTypeOK, ConnKey, ConnectionRecord, FlowKey

LEMMA AggInitInv == ASSUME AggInit PROVE AggInv
<1>1. Inv
  BY InitInv DEF AggInit
<1>2. DOMAIN records = {}
  BY DEF AggInit
<1>3. AggTypeOK
  BY <1>2 DEF AggInit, AggTypeOK
<1>4. Clocks /\ SnapshotBehind
  BY DEF AggInit, Init, Clocks, SnapshotBehind
<1>5. RowsDated /\ RowsBacked
  BY <1>2 DEF RowsDated, RowsBacked
<1>6. ShowsExactlyRecentRows
  BY <1>2 DEF AggInit, ShowsExactlyRecentRows
<1> QED BY <1>1, <1>3, <1>4, <1>5, <1>6 DEF AggInv

-----------------------------------------------------------------------------
(* Whatever leaves the rows alone and takes no flow from the table keeps the *)
(* rows backed, if a snapshot passes a flow only by copying its counter.     *)
LEMMA BackingKept ==
  ASSUME AggInv, TypeOK', UNCHANGED <<records, shownAt>>,
         \A f \in FlowKey : flows[f] # Nil =>
           /\ flows'[f] = flows[f]
           /\ ctr'[flows[f]].bytes >= ctr[flows[f]].bytes
           /\ ctr'[flows[f]].lastSeen >= ctr[flows[f]].lastSeen
           /\ rpc' = "snapshot" /\ f \notin todo' =>
                \/ /\ rpc = "snapshot" /\ f \notin todo
                   /\ snap'[f].live = snap[f].live /\ snap'[f].bytes = snap[f].bytes
                \/ snap'[f].live /\ snap'[f].bytes = ctr[flows[f]].bytes
  PROVE  RowsBacked'
<1> SUFFICES ASSUME NEW k \in DOMAIN records, records[k].bytes > 0,
                    ~(records[k].lastSeen < shownAt - Grace)
             PROVE  \E i \in Ifaces : BackedBy(k, <<k[2], i>>)'
  BY Zenon DEF RowsBacked
<1>1. PICK i \in Ifaces : BackedBy(k, <<k[2], i>>)
  BY Zenon DEF AggInv, RowsBacked
<1> DEFINE f == <<k[2], i>>
<1>2. f \in FlowKey /\ records[k].bytes \in Nat /\ records[k].lastSeen \in Nat
  BY RowType, Zenon DEF AggInv
<1>3. flows[f] # Nil /\ flows'[f] = flows[f]
  BY <1>1, <1>2, Zenon DEF BackedBy
<1>4. /\ ctr[flows[f]].bytes \in Nat /\ ctr[flows[f]].lastSeen \in Nat
      /\ ctr'[flows[f]].bytes \in Nat /\ ctr'[flows[f]].lastSeen \in Nat
  BY <1>2, <1>3, Zenon DEF AggInv, Inv, TypeOK
<1>5. records[k].bytes <= ctr'[flows[f]].bytes /\ records[k].lastSeen <= ctr'[flows[f]].lastSeen
  BY <1>1, <1>2, <1>3, <1>4 DEF BackedBy
<1>6. rpc' = "snapshot" /\ f \notin todo' => snap'[f].live /\ records[k].bytes <= snap'[f].bytes
  BY <1>1, <1>2, <1>3, Zenon DEF BackedBy
<1>7. BackedBy(k, f)'
  BY <1>3, <1>5, <1>6, Zenon DEF BackedBy
<1> QED BY <1>7, Zenon
(* What a flow in the table is after a step of a capture goroutine. *)
LEMMA CaptureGrows ==
  ASSUME Inv, NEW i \in Ifaces, Capture(i), NEW f \in FlowKey, flows[f] # Nil
  PROVE  /\ flows'[f] = flows[f]
         /\ ctr'[flows[f]].bytes >= ctr[flows[f]].bytes
         /\ ctr'[flows[f]].lastSeen >= ctr[flows[f]].lastSeen
<1>1. flows'[f] # Nil
  BY CaptureKeepsFlows
<1>2. UNCHANGED <<flows, ctr>> \/ Create(i) \/ Add(i)
  BY Zenon DEF Capture, ReadPacket, Lookup, tableVars
<1> QED BY <1>1, <1>2, CountersGrow, Zenon

(* The parts of the invariant that speak of the rows alone. *)
LEMMA RowsUntouched ==
  ASSUME AggInv, UNCHANGED aggVars
  PROVE  AggTypeOK' /\ RowsDated' /\ ShowsExactlyRecentRows'
BY Zenon DEF AggInv, aggVars, AggTypeOK, RowsDated, ShowsExactlyRecentRows

(* Packets credited and counters created while a refresh is anywhere.  *)
LEMMA CaptureAggInv ==
  ASSUME AggInv, NEW i \in Ifaces, Capture(i), UNCHANGED aggVars
  PROVE  AggInv'
<1>1. Inv'
  BY ReadPacketInv, LookupInv, CreateInv, AddInv DEF AggInv, Capture
<1>2. UNCHANGED <<now, refreshVars>>
  BY Zenon DEF Capture, ReadPacket, Lookup, Create, Add
<1>3. Clocks'
  BY <1>2, Zenon DEF AggInv, Clocks, refreshVars, aggVars
<1>4. \A f \in FlowKey : flows[f] # Nil =>
        /\ flows'[f] = flows[f]
        /\ ctr'[flows[f]].bytes >= ctr[flows[f]].bytes
        /\ ctr'[flows[f]].lastSeen >= ctr[flows[f]].lastSeen
  BY CaptureGrows, Zenon DEF AggInv
<1>5. SnapshotBehind'
  <2> SUFFICES ASSUME rpc = "snapshot", NEW f \in FlowKey, snap[f].live
               PROVE  /\ flows'[f] # Nil /\ snap[f].bytes <= ctr'[flows'[f]].bytes
                      /\ snap[f].lastSeen <= ctr'[flows'[f]].lastSeen
    BY <1>2, Zenon DEF AggInv, SnapshotBehind, refreshVars
  <2>1. /\ flows[f] # Nil /\ snap[f].bytes <= ctr[flows[f]].bytes
        /\ snap[f].lastSeen <= ctr[flows[f]].lastSeen
    BY Zenon DEF AggInv, SnapshotBehind
  <2>2. /\ ctr[flows[f]].bytes \in Nat /\ ctr[flows[f]].lastSeen \in Nat
        /\ ctr'[flows[f]].bytes \in Nat /\ ctr'[flows[f]].lastSeen \in Nat
        /\ snap[f].bytes \in Nat /\ snap[f].lastSeen \in Nat
    BY <1>1, <2>1, Zenon DEF AggInv, Inv, TypeOK, FlowStats
  <2> QED BY <1>4, <2>1, <2>2
<1>6. RowsBacked'
  BY <1>1, <1>2, <1>4, BackingKept, Zenon DEF Inv, refreshVars, aggVars
<1> QED BY <1>1, <1>3, <1>5, <1>6, RowsUntouched DEF AggInv

-----------------------------------------------------------------------------
(* The refreshing goroutine, the clock, the kernel and the source. *)

(* Snapshot begins with every flow still to visit. *)
LEMMA SnapshotBeginAggInv == ASSUME AggInv, SnapshotBegin, UNCHANGED aggVars PROVE AggInv'
<1>1. Inv'
  BY SnapshotBeginInv DEF AggInv
<1>2. /\ UNCHANGED <<now, at, flows, ctr>> /\ rpc = "called" /\ rpc' = "snapshot"
      /\ todo' = Live /\ snap' = [k \in FlowKey |-> NoStats]
  BY DEF SnapshotBegin, tableVars
<1>3. Clocks'
  BY <1>2, Zenon DEF AggInv, Clocks, aggVars
<1>4. SnapshotBehind'
  BY <1>2, Zenon DEF SnapshotBehind, NoStats
<1>5. \A f \in FlowKey : flows[f] # Nil =>
        ctr[flows[f]].bytes \in Nat /\ ctr[flows[f]].lastSeen \in Nat /\ f \in todo'
  BY <1>2, CounterType, Zenon DEF AggInv, Inv, Live
<1>6. RowsBacked'
  BY <1>1, <1>2, <1>5, BackingKept DEF Inv, aggVars
<1> QED BY <1>1, <1>3, <1>4, <1>6, RowsUntouched DEF AggInv

(* Snapshot copies the totals of a flow: exactly what its counter has. *)
LEMMA SnapshotTotalsAggInv ==
  ASSUME AggInv, NEW g \in FlowKey, SnapshotTotals(g), UNCHANGED aggVars
  PROVE  AggInv'
<1>1. Inv'
  BY SnapshotTotalsInv DEF AggInv
<1>2. /\ UNCHANGED <<now, at, flows, ctr, rpc>> /\ rpc = "snapshot" /\ g \in todo /\ todo' = todo \ {g}
      /\ flows[g] # Nil
      /\ snap'[g] = [live |-> TRUE, bytes |-> ctr[flows[g]].bytes, lastSeen |-> 0]
      /\ \A f \in FlowKey : f # g => snap'[f] = snap[f]
  BY Zenon DEF SnapshotTotals, tableVars, AggInv, Inv, TypeOK, SnapshotVisitsLive, Live
<1>3. \A f \in FlowKey : flows[f] # Nil =>
        ctr[flows[f]].bytes \in Nat /\ ctr[flows[f]].lastSeen \in Nat
  BY CounterType, Zenon DEF AggInv, Inv
<1>4. Clocks'
  BY <1>2, Zenon DEF AggInv, Clocks, aggVars
<1>5. SnapshotBehind'
  BY <1>2, <1>3 DEF AggInv, SnapshotBehind
<1>6. \A f \in FlowKey : flows[f] # Nil /\ f \notin todo' =>
        \/ f \notin todo /\ snap'[f].live = snap[f].live /\ snap'[f].bytes = snap[f].bytes
        \/ snap'[f].live /\ snap'[f].bytes = ctr[flows[f]].bytes
  BY <1>2
<1>7. RowsBacked'
  BY <1>1, <1>2, <1>3, <1>6, BackingKept DEF Inv, aggVars
<1> QED BY <1>1, <1>4, <1>5, <1>7, RowsUntouched DEF AggInv

(* Snapshot reads the date of the same flow. *)
LEMMA SnapshotLastSeenAggInv ==
  ASSUME AggInv, NEW g \in FlowKey, SnapshotLastSeen(g), UNCHANGED aggVars
  PROVE  AggInv'
<1>1. Inv'
  BY SnapshotLastSeenInv DEF AggInv
<1>2. /\ UNCHANGED <<now, at, flows, ctr, rpc, todo>> /\ rpc = "snapshot"
      /\ snap'[g] = [snap[g] EXCEPT !.lastSeen = ctr[flows[g]].lastSeen]
      /\ \A f \in FlowKey : f # g => snap'[f] = snap[f]
  BY Zenon DEF SnapshotLastSeen, tableVars, AggInv, Inv, TypeOK
<1>3. /\ snap'[g].live = snap[g].live /\ snap'[g].bytes = snap[g].bytes
      /\ snap'[g].lastSeen = ctr[flows[g]].lastSeen
  <2>1. snap[g] \in FlowStats
    BY Zenon DEF AggInv, Inv, TypeOK
  <2> QED BY <1>2, <2>1 DEF FlowStats
<1>4. \A f \in FlowKey : flows[f] # Nil =>
        ctr[flows[f]].bytes \in Nat /\ ctr[flows[f]].lastSeen \in Nat
  BY CounterType, Zenon DEF AggInv, Inv
<1>5. Clocks'
  BY <1>2, Zenon DEF AggInv, Clocks, aggVars
<1>6. SnapshotBehind'
  <2> SUFFICES ASSUME NEW f \in FlowKey
               PROVE  IF snap'[f].live
                      THEN /\ flows[f] # Nil /\ snap'[f].bytes <= ctr[flows[f]].bytes
                           /\ snap'[f].lastSeen <= ctr[flows[f]].lastSeen
                      ELSE snap'[f].bytes = 0
    BY <1>2, Zenon DEF SnapshotBehind
  <2>1. IF snap[f].live
        THEN /\ flows[f] # Nil /\ snap[f].bytes <= ctr[flows[f]].bytes
             /\ snap[f].lastSeen <= ctr[flows[f]].lastSeen
        ELSE snap[f].bytes = 0
    BY <1>2, Zenon DEF AggInv, SnapshotBehind
  <2>2. CASE f = g
    BY <1>3, <1>4, <2>1, <2>2
  <2>3. CASE f # g
    BY <1>2, <2>1, <2>3, Zenon
  <2> QED BY <2>2, <2>3, Zenon
<1>7. \A f \in FlowKey : snap'[f].live = snap[f].live /\ snap'[f].bytes = snap[f].bytes
  BY <1>2, <1>3, Zenon
<1>8. RowsBacked'
  BY <1>1, <1>2, <1>4, <1>7, BackingKept DEF Inv, aggVars
<1> QED BY <1>1, <1>5, <1>6, <1>8, RowsUntouched DEF AggInv
(* Evict collects what it may drop and drops nothing yet; the clock ticks;   *)
(* nothing happens.                                                          *)
LEMMA QuietAggInv ==
  ASSUME AggInv, UNCHANGED aggVars, EvictScan(openFlowKeys) \/ Tick \/ UNCHANGED vars
  PROVE  AggInv'
<1>1. Inv'
  BY EvictScanInv, QuietStepInv DEF AggInv
<1>2. /\ UNCHANGED <<at, flows, ctr, todo, snap>>
      /\ rpc' = rpc \/ (rpc = "evict" /\ rpc' = "sweep")
      /\ now' = now \/ now' = now + 1
  <2>1. CASE EvictScan(openFlowKeys)
    BY <2>1, Zenon DEF EvictScan, tableVars
  <2>2. CASE Tick \/ UNCHANGED vars
    BY <2>2, Zenon DEF Tick, vars, tableVars, refreshVars
  <2> QED BY <2>1, <2>2
<1>3. Clocks'
  BY <1>2 DEF AggInv, Inv, TypeOK, Clocks, aggVars
<1>4. SnapshotBehind'
  BY <1>2, Zenon DEF AggInv, SnapshotBehind
<1>5. \A f \in FlowKey : flows[f] # Nil =>
        ctr[flows[f]].bytes \in Nat /\ ctr[flows[f]].lastSeen \in Nat
  BY CounterType, Zenon DEF AggInv, Inv
<1>6. RowsBacked'
  BY <1>1, <1>2, <1>5, BackingKept DEF Inv, aggVars
<1> QED BY <1>1, <1>3, <1>4, <1>6, RowsUntouched DEF AggInv

(* Evict's second half: a row whose counter goes had fallen silent. *)
LEMMA EvictSweepAggInv == ASSUME AggInv, EvictSweep, UNCHANGED aggVars PROVE AggInv'
<1>1. Inv'
  BY EvictSweepInv DEF AggInv
<1>2. UNCHANGED <<now, at, ctr, todo, snap>> /\ rpc = "sweep" /\ rpc' = "idle" /\ shownAt = at
  BY Zenon DEF EvictSweep, AggInv, Clocks
<1>3. Clocks' /\ SnapshotBehind'
  BY <1>2, Zenon DEF AggInv, Clocks, SnapshotBehind, aggVars
<1>4. RowsBacked'
  <2> SUFFICES ASSUME NEW k \in DOMAIN records, records[k].bytes > 0,
                      ~(records[k].lastSeen < shownAt - Grace)
               PROVE  \E i \in Ifaces : BackedBy(k, <<k[2], i>>)'
    BY Zenon DEF RowsBacked, aggVars
  <2>1. PICK i \in Ifaces : BackedBy(k, <<k[2], i>>)
    BY Zenon DEF AggInv, RowsBacked
  <2> DEFINE f == <<k[2], i>>
  <2>2. f \in FlowKey /\ records[k].lastSeen \in Nat
    BY RowType, Zenon DEF AggInv
  <2>3. flows[f] # Nil /\ records[k].lastSeen <= ctr[flows[f]].lastSeen
    BY <2>1, Zenon DEF BackedBy
  <2>4. ctr[flows[f]].lastSeen \in Nat
    BY <2>2, <2>3, CounterType, Zenon DEF AggInv, Inv
  <2>5. f \notin Doomed
    BY <1>2, <2>2, <2>3, <2>4, FlowTableAssumption DEF Doomed, Before, AggInv, Inv, TypeOK
  <2>6. flows'[f] = flows[f]
    BY <2>2, <2>5, Zenon DEF EvictSweep
  <2>7. BackedBy(k, f)'
    BY <1>2, <2>1, <2>6, Zenon DEF BackedBy, aggVars
  <2> QED BY <2>7
<1> QED BY <1>1, <1>3, <1>4, RowsUntouched DEF AggInv

(* Refresh is called and asks the source. *)
LEMMA RefreshConnsAggInv == ASSUME AggInv, RefreshConns PROVE AggInv'
<1>1. Inv'
  BY QuietStepInv DEF AggInv, RefreshConns
<1>2. /\ UNCHANGED <<now, flows, ctr, todo, snap, records, reported, shownAt, socks, polled>>
      /\ at' = now /\ rpc = "idle" /\ rpc' = "called" /\ conns' = polled
  BY DEF RefreshConns, RefreshBegin, tableVars
<1>3. AggTypeOK' /\ RowsDated' /\ ShowsExactlyRecentRows' /\ SnapshotBehind'
  BY <1>2, Zenon DEF AggInv, AggTypeOK, RowsDated, ShowsExactlyRecentRows, SnapshotBehind
<1>4. Clocks'
  BY <1>2 DEF AggInv, Inv, TypeOK, AggTypeOK, Clocks
<1>5. \A f \in FlowKey : flows[f] # Nil =>
        ctr[flows[f]].bytes \in Nat /\ ctr[flows[f]].lastSeen \in Nat
  BY CounterType, Zenon DEF AggInv, Inv
<1>6. RowsBacked'
  BY <1>1, <1>2, <1>5, BackingKept DEF Inv
<1> QED BY <1>1, <1>3, <1>4, <1>6 DEF AggInv

(* Sockets open and close, and the source polls them. *)
LEMMA SourceAggInv ==
  ASSUME AggInv, (\E c \in Connection : SocketOpen(c) \/ SocketClose(c)) \/ Poll
  PROVE  AggInv'
<1>1. UNCHANGED <<conns, records, reported, shownAt, vars>>
  BY DEF SocketOpen, SocketClose, Poll
<1>2. socks' \subseteq Connection /\ polled' \subseteq Connection
  BY Zenon DEF AggInv, AggTypeOK, SocketOpen, SocketClose, Poll
<1>3. Inv'
  BY <1>1, QuietStepInv DEF AggInv
<1>4. /\ AggTypeOK' /\ RowsDated' /\ ShowsExactlyRecentRows' /\ SnapshotBehind' /\ Clocks'
  BY <1>1, <1>2, Zenon
  DEF AggInv, AggTypeOK, RowsDated, ShowsExactlyRecentRows, SnapshotBehind, Clocks,
      vars, tableVars, refreshVars
<1>5. \A f \in FlowKey : flows[f] # Nil =>
        ctr[flows[f]].bytes \in Nat /\ ctr[flows[f]].lastSeen \in Nat
  BY CounterType, Zenon DEF AggInv, Inv
<1>6. RowsBacked'
  <2>1. UNCHANGED <<records, shownAt, flows, ctr, rpc, todo, snap>> /\ TypeOK'
    BY <1>1, <1>3, Zenon DEF Inv, vars, tableVars, refreshVars
  <2>2. \A f \in FlowKey : flows[f] # Nil =>
          ctr[flows[f]].bytes >= ctr[flows[f]].bytes /\ ctr[flows[f]].lastSeen >= ctr[flows[f]].lastSeen
    BY <1>5
  <2> QED BY <2>1, <2>2, BackingKept, Zenon
<1> QED BY <1>3, <1>4, <1>6 DEF AggInv
-----------------------------------------------------------------------------
(* join. *)

(* The rows with a source have keys of rows. *)
LEMMA SourcedType == ASSUME AggTypeOK PROVE Sourced \subseteq ConnKey
BY ConnectionIsConnKey DEF AggTypeOK, Sourced, ConnKey

(* The flow a sourced row is built from: of some interface, and copied by    *)
(* the snapshot if any interface's is.                                       *)
LEMMA VisitedType ==
  ASSUME AggInv, NEW win \in LastVisited, NEW k \in ConnKey
  PROVE  /\ win[k[2]] \in Ifaces /\ <<k[2], win[k[2]]>> \in FlowKey
         /\ snap[<<k[2], win[k[2]]>>] \in FlowStats
         /\ Captured(k[2]) => snap[<<k[2], win[k[2]]>>].live
<1>1. k[2] \in Tuples
  BY DEF ConnKey
<1>2. win \in [Tuples -> Ifaces] /\ (Captured(k[2]) => snap[<<k[2], win[k[2]]>>].live)
  BY <1>1, Zenon DEF LastVisited
<1>3. win[k[2]] \in Ifaces /\ <<k[2], win[k[2]]>> \in FlowKey
  BY <1>1, <1>2, Zenon DEF FlowKey
<1> QED BY <1>2, <1>3, Zenon DEF AggInv, Inv, TypeOK

(* The rows after the join: those with a source are built afresh, those      *)
(* carried forward keep everything but the mark.                             *)
LEMMA JoinedRows ==
  ASSUME AggInv, Join
  PROVE  \E win \in LastVisited :
           /\ DOMAIN records' = Sourced \cup Carried
           /\ \A k \in Sourced :
                records'[k] = Joined(k, snap[<<k[2], win[k[2]]>>], win[k[2]])
           /\ \A k \in Carried :
                /\ k \in DOMAIN records /\ k \notin Sourced
                /\ records'[k] = [records[k] EXCEPT !.vanished = TRUE]
<1>1. PICK win \in LastVisited :
        records' = [k \in Sourced \cup Carried |->
                      IF k \in Sourced THEN Joined(k, snap[<<k[2], win[k[2]]>>], win[k[2]])
                      ELSE [records[k] EXCEPT !.vanished = TRUE]]
  BY Zenon DEF Join
<1>2. \A k \in Carried : k \in DOMAIN records /\ k \notin Sourced
  BY DEF Carried
<1> QED BY <1>1, <1>2, Zenon

LEMMA JoinedType ==
  ASSUME NEW k, NEW st \in FlowStats, NEW i \in Ifaces, at \in Nat, FirstSeen(k) \in Nat
  PROVE  /\ Joined(k, st, i) \in ConnectionRecord
         /\ Joined(k, st, i).bytes = st.bytes /\ Joined(k, st, i).lastSeen = st.lastSeen
         /\ Joined(k, st, i).firstSeen = FirstSeen(k) /\ Joined(k, st, i).lastPolled = at
<1>1. (IF st.live THEN i ELSE NoIface) \in Ifaces \cup {NoIface}
  OBVIOUS
<1>2. st.bytes \in Nat /\ st.lastSeen \in Nat
  BY DEF FlowStats
<1> QED BY <1>1, <1>2, Zenon DEF Joined, ConnectionRecord

(* Every row after the join is a record, dated by its last source. *)
LEMMA JoinTypes ==
  ASSUME AggInv, Join
  PROVE  AggTypeOK' /\ RowsDated'
<1>1. PICK win \in LastVisited :
        /\ DOMAIN records' = Sourced \cup Carried
        /\ \A k \in Sourced : records'[k] = Joined(k, snap[<<k[2], win[k[2]]>>], win[k[2]])
        /\ \A k \in Carried : /\ k \in DOMAIN records /\ k \notin Sourced
                              /\ records'[k] = [records[k] EXCEPT !.vanished = TRUE]
  BY JoinedRows, Zenon
<1>2. Sourced \subseteq ConnKey /\ at \in Nat
  BY SourcedType, Zenon DEF AggInv, Inv, TypeOK
<1>3. /\ shownAt' = at /\ UNCHANGED <<socks, polled, conns>>
      /\ reported' = [k \in ConnKey |-> IF k \in Sourced THEN at ELSE reported[k]]
  BY DEF Join
<1>4. ASSUME NEW k \in Sourced
      PROVE  records'[k] \in ConnectionRecord /\ records'[k].lastPolled = reported'[k]
  <2>1. k \in ConnKey
    BY <1>2
  <2>2. snap[<<k[2], win[k[2]]>>] \in FlowStats /\ win[k[2]] \in Ifaces
    BY <2>1, VisitedType, Zenon
  <2>3. FirstSeen(k) \in Nat
    BY <1>2 DEF FirstSeen, AggInv, AggTypeOK, ConnectionRecord
  <2>4. /\ records'[k] = Joined(k, snap[<<k[2], win[k[2]]>>], win[k[2]])
        /\ reported'[k] = at
    BY <1>1, <1>3, <2>1
  <2>5. PICK st \in FlowStats, i \in Ifaces :
          st = snap[<<k[2], win[k[2]]>>] /\ i = win[k[2]]
    BY <2>2
  <2>6. Joined(k, st, i) \in ConnectionRecord /\ Joined(k, st, i).lastPolled = at
    BY <1>2, <2>3, JoinedType
  <2>7. records'[k] = Joined(k, st, i)
    BY <2>4, <2>5
  <2> QED BY <2>4, <2>6, <2>7
<1>5. ASSUME NEW k \in Carried
      PROVE  /\ records'[k] \in ConnectionRecord /\ k \in ConnKey
             /\ records'[k].lastPolled = reported'[k]
  <2>1. records[k] \in ConnectionRecord /\ k \in ConnKey /\ records[k].lastPolled = reported[k]
    BY <1>1, Zenon DEF AggInv, AggTypeOK, RowsDated
  <2> QED BY <1>1, <1>3, <2>1, Zenon DEF ConnectionRecord
<1>6. reported' \in [ConnKey -> Nat] /\ shownAt' \in Nat
  BY <1>2, <1>3 DEF AggInv, AggTypeOK
<1>7. AggTypeOK'
  BY <1>1, <1>2, <1>3, <1>4, <1>5, <1>6, Zenon DEF AggInv, AggTypeOK
<1> QED BY <1>1, <1>4, <1>5, <1>7 DEF RowsDated

(* The rows after the join are those with a source in the grace period: one  *)
(* that had none this time was shown before, since time does not run back.   *)
LEMMA JoinShowsRecent == ASSUME AggInv, Join PROVE ShowsExactlyRecentRows'
<1>1. DOMAIN records' = Sourced \cup Carried
  BY JoinedRows
<1>2. /\ shownAt' = at
      /\ reported' = [k \in ConnKey |-> IF k \in Sourced THEN at ELSE reported[k]]
  BY DEF Join
<1>3. /\ Sourced \subseteq ConnKey /\ DOMAIN records \subseteq ConnKey
      /\ at \in Nat /\ at >= 1 /\ shownAt \in Nat /\ shownAt <= at /\ Grace \in Nat
      /\ \A k \in ConnKey : reported[k] \in Nat
  BY SourcedType, FlowTableAssumption, Zenon
  DEF AggInv, Inv, TypeOK, AggTypeOK, Clocks, Join, SnapshotEnd
<1>4. ASSUME NEW k \in ConnKey
      PROVE  k \in Sourced \cup Carried <=> reported'[k] # 0 /\ reported'[k] >= at - Grace
  <2>1. CASE k \in Sourced
    BY <1>2, <1>3, <2>1
  <2>2. CASE k \notin Sourced
    <3>1. k \in Carried <=> k \in DOMAIN records /\ reported[k] >= at - Grace
      BY <2>2 DEF Carried, Before, AggInv, RowsDated
    <3>2. k \in DOMAIN records <=> reported[k] # 0 /\ reported[k] >= shownAt - Grace
      BY DEF AggInv, ShowsExactlyRecentRows
    <3>3. reported[k] >= at - Grace => reported[k] >= shownAt - Grace
      BY <1>3
    <3> QED BY <1>2, <2>2, <3>1, <3>2, <3>3
  <2> QED BY <2>1, <2>2
<1>5. Sourced \cup Carried \subseteq ConnKey
  BY <1>3 DEF Carried
<1> QED BY <1>1, <1>2, <1>4, <1>5 DEF ShowsExactlyRecentRows
(* A row with traffic has its counter behind it after the join: a sourced    *)
(* one the counter the snapshot copied, a carried one what it had before.    *)
LEMMA JoinBacked == ASSUME AggInv, Join PROVE RowsBacked'
<1>1. PICK win \in LastVisited :
        /\ DOMAIN records' = Sourced \cup Carried
        /\ \A k \in Sourced : records'[k] = Joined(k, snap[<<k[2], win[k[2]]>>], win[k[2]])
        /\ \A k \in Carried : /\ k \in DOMAIN records /\ k \notin Sourced
                              /\ records'[k] = [records[k] EXCEPT !.vanished = TRUE]
  BY JoinedRows, Zenon
<1>2. /\ rpc = "snapshot" /\ rpc' = "evict" /\ shownAt' = at
      /\ UNCHANGED <<flows, ctr>>
  BY Zenon DEF Join, SnapshotEnd, tableVars
<1>3. /\ at \in Nat /\ shownAt \in Nat /\ shownAt <= at /\ Grace \in Nat
      /\ Sourced \subseteq ConnKey
  BY SourcedType, FlowTableAssumption, Zenon DEF AggInv, Inv, TypeOK, AggTypeOK, Clocks
<1>4. ASSUME NEW k \in Sourced, records'[k].bytes > 0
      PROVE  \E i \in Ifaces : BackedBy(k, <<k[2], i>>)'
  <2> DEFINE f == <<k[2], win[k[2]]>>
  <2>1. k \in ConnKey
    BY <1>3
  <2>2. win[k[2]] \in Ifaces /\ f \in FlowKey /\ snap[f] \in FlowStats
    BY <2>1, VisitedType, Zenon
  <2>3. FirstSeen(k) \in Nat
    BY <1>3 DEF FirstSeen, AggInv, AggTypeOK, ConnectionRecord
  <2>4. records'[k].bytes = snap[f].bytes /\ records'[k].lastSeen = snap[f].lastSeen
    BY <1>1, <1>3, <2>2, <2>3, JoinedType
  <2>5. /\ flows[f] # Nil /\ snap[f].bytes <= ctr[flows[f]].bytes
        /\ snap[f].lastSeen <= ctr[flows[f]].lastSeen
    BY <1>2, <1>4, <2>2, <2>4 DEF AggInv, SnapshotBehind
  <2>6. BackedBy(k, <<k[2], win[k[2]]>>)'
    BY <1>2, <2>4, <2>5, Zenon DEF BackedBy
  <2> QED BY <2>2, <2>6
<1>5. ASSUME NEW k \in Carried, records'[k].bytes > 0
      PROVE  \/ records'[k].lastSeen < at - Grace
             \/ \E i \in Ifaces : BackedBy(k, <<k[2], i>>)'
  <2>1. /\ records[k].bytes \in Nat /\ records[k].lastSeen \in Nat
        /\ records'[k].bytes = records[k].bytes /\ records'[k].lastSeen = records[k].lastSeen
    BY <1>1 DEF AggInv, AggTypeOK, ConnectionRecord
  <2>2. CASE records[k].lastSeen < shownAt - Grace
    BY <1>3, <2>1, <2>2
  <2>3. ASSUME NEW i \in Ifaces, BackedBy(k, <<k[2], i>>)
        PROVE  BackedBy(k, <<k[2], i>>)'
    BY <1>2, <2>1, <2>3, Zenon DEF BackedBy
  <2> QED BY <1>1, <1>5, <2>1, <2>2, <2>3, Zenon DEF AggInv, RowsBacked
<1> QED BY <1>1, <1>2, <1>4, <1>5 DEF RowsBacked

LEMMA JoinAggInv == ASSUME AggInv, Join PROVE AggInv'
<1>1. Inv'
  BY QuietStepInv, Zenon DEF Join, AggInv
<1>2. Clocks'
  BY DEF Join, SnapshotEnd, AggInv, Clocks, Inv, TypeOK
<1>3. SnapshotBehind'
  BY Zenon DEF Join, SnapshotEnd, SnapshotBehind
<1> QED BY <1>1, <1>2, <1>3, JoinTypes, JoinShowsRecent, JoinBacked DEF AggInv

-----------------------------------------------------------------------------
(* The invariant of Refresh and its flow table. *)
THEOREM AggInvariance == AggSpec => []AggInv
<1>1. AggInit => AggInv
  BY AggInitInv
<1>2. AggInv /\ [AggNext]_allVars => AggInv'
  <2> SUFFICES ASSUME AggInv, [AggNext]_allVars PROVE AggInv'
    OBVIOUS
  <2>1. CASE Tick /\ UNCHANGED aggVars
    BY <2>1, QuietAggInv
  <2>2. CASE \E i \in Ifaces : Capture(i) /\ UNCHANGED aggVars
    BY <2>2, CaptureAggInv
  <2>3. CASE (\E c \in Connection : SocketOpen(c) \/ SocketClose(c)) \/ Poll
    BY <2>3, SourceAggInv
  <2>4. CASE RefreshConns
    BY <2>4, RefreshConnsAggInv
  <2>5. CASE SnapshotBegin /\ UNCHANGED aggVars
    BY <2>5, SnapshotBeginAggInv
  <2>6. CASE \E k \in FlowKey : (SnapshotTotals(k) \/ SnapshotLastSeen(k)) /\ UNCHANGED aggVars
    BY <2>6, SnapshotTotalsAggInv, SnapshotLastSeenAggInv
  <2>7. CASE Join
    BY <2>7, JoinAggInv
  <2>8. CASE Evict
    BY <2>8, QuietAggInv DEF Evict
  <2>9. CASE EvictSweep /\ UNCHANGED aggVars
    BY <2>9, EvictSweepAggInv
  <2>10. CASE UNCHANGED allVars
    BY <2>10, QuietAggInv DEF allVars
  <2> QED BY <2>1, <2>2, <2>3, <2>4, <2>5, <2>6, <2>7, <2>8, <2>9, <2>10 DEF AggNext, Refresh
<1> QED BY <1>1, <1>2, PTL DEF AggSpec

(* The table shows exactly the rows that had a source, an open socket or a   *)
(* socketless flow, in some refresh within the grace period (join and        *)
(* carryForwardVanished).                                                    *)
THEOREM RecentRowsShown == AggSpec => []ShowsExactlyRecentRows
<1>1. AggInv => ShowsExactlyRecentRows
  BY DEF AggInv
<1> QED BY <1>1, AggInvariance, PTL
-----------------------------------------------------------------------------
(* What a row keeps. *)

(* A row that the join builds afresh or carries forward keeps its FirstSeen. *)
LEMMA JoinKeepsFirstSeen == ASSUME AggInv, Join PROVE FirstSeenSticks
<1>1. PICK win \in LastVisited :
        /\ DOMAIN records' = Sourced \cup Carried
        /\ \A k \in Sourced : records'[k] = Joined(k, snap[<<k[2], win[k[2]]>>], win[k[2]])
        /\ \A k \in Carried : /\ k \in DOMAIN records /\ k \notin Sourced
                              /\ records'[k] = [records[k] EXCEPT !.vanished = TRUE]
  BY JoinedRows, Zenon
<1>2. ASSUME NEW k \in DOMAIN records, k \in Sourced
      PROVE  records'[k].firstSeen = records[k].firstSeen
  <2>1. Joined(k, snap[<<k[2], win[k[2]]>>], win[k[2]]).firstSeen = FirstSeen(k)
    BY Zenon DEF Joined
  <2> QED BY <1>1, <1>2, <2>1, Zenon DEF FirstSeen
<1>3. ASSUME NEW k \in DOMAIN records, k \in Carried
      PROVE  records'[k].firstSeen = records[k].firstSeen
  BY <1>1, <1>3 DEF AggInv, AggTypeOK, ConnectionRecord
<1> QED BY <1>1, <1>2, <1>3 DEF FirstSeenSticks

(* The bytes of a row go down in the join only if it had fallen silent, or   *)
(* if another interface than the one that has its counter was visited last.  *)
LEMMA JoinDropsAfterSilence == ASSUME AggInv, Join PROVE TotalsDropOnlyAfterSilence
<1>1. PICK win \in LastVisited :
        /\ DOMAIN records' = Sourced \cup Carried
        /\ \A k \in Sourced : records'[k] = Joined(k, snap[<<k[2], win[k[2]]>>], win[k[2]])
        /\ \A k \in Carried : /\ k \in DOMAIN records /\ k \notin Sourced
                              /\ records'[k] = [records[k] EXCEPT !.vanished = TRUE]
  BY JoinedRows, Zenon
<1> SUFFICES ASSUME NEW k \in DOMAIN records, k \in DOMAIN records',
                    records'[k].bytes < records[k].bytes,
                    ~(records[k].lastSeen < shownAt - Grace)
             PROVE  \E i, j \in Ifaces :
                      i # j /\ snap[<<k[2], i>>].live /\ snap[<<k[2], j>>].live
  BY Zenon DEF TotalsDropOnlyAfterSilence
<1>2. /\ k \in ConnKey /\ records[k].bytes \in Nat /\ records[k].lastSeen \in Nat
      /\ \A i \in Ifaces : <<k[2], i>> \in FlowKey
  BY RowType, Zenon DEF AggInv
<1>3. k \in Sourced
  <2>1. k \in Carried => records'[k].bytes = records[k].bytes
    BY <1>1 DEF AggInv, AggTypeOK, ConnectionRecord
  <2> QED BY <1>1, <1>2, <2>1
<1> DEFINE j == win[k[2]]
<1>4. /\ j \in Ifaces /\ snap[<<k[2], j>>] \in FlowStats
      /\ Captured(k[2]) => snap[<<k[2], j>>].live
  BY <1>2, VisitedType, Zenon
<1>5. records'[k].bytes = snap[<<k[2], j>>].bytes /\ snap[<<k[2], j>>].bytes \in Nat
  BY <1>1, <1>3, <1>4 DEF Joined, FlowStats
<1>6. PICK i \in Ifaces : BackedBy(k, <<k[2], i>>)
  BY <1>2, <1>5 DEF AggInv, RowsBacked
<1>7. snap[<<k[2], i>>].live /\ records[k].bytes <= snap[<<k[2], i>>].bytes
  BY <1>6, Zenon DEF BackedBy, Join, SnapshotEnd
<1>8. snap[<<k[2], j>>].live
  BY <1>4, <1>7, Zenon DEF Captured
<1>9. i # j
  BY <1>2, <1>5, <1>7
<1> QED BY <1>4, <1>7, <1>8, <1>9, Zenon

(* A row that stays in the table keeps its FirstSeen, and its bytes until    *)
(* silence let Evict take its counter or another interface's counter         *)
(* answers for the tuple (joinConnections, flowsByAddr).                     *)
THEOREM RowsKeepHistory == AggSpec => RowsKeepTheirHistory
<1>1. AggInv /\ [AggNext]_allVars => [FirstSeenSticks /\ TotalsDropOnlyAfterSilence]_allVars
  <2> SUFFICES ASSUME AggInv, AggNext PROVE FirstSeenSticks /\ TotalsDropOnlyAfterSilence
    OBVIOUS
  <2>1. CASE Join
    BY <2>1, JoinKeepsFirstSeen, JoinDropsAfterSilence
  <2>2. CASE ~Join
    <3>1. UNCHANGED records
      BY <2>2, Zenon DEF AggNext, Refresh, RefreshConns, Evict, SocketOpen, SocketClose, Poll, aggVars
    <3>2. \A k \in DOMAIN records : records[k].bytes \in Nat
      BY RowType DEF AggInv
    <3> QED BY <3>1, <3>2 DEF FirstSeenSticks, TotalsDropOnlyAfterSilence
  <2> QED BY <2>1, <2>2
<1> QED BY <1>1, AggInvariance, PTL DEF AggSpec, RowsKeepTheirHistory
=============================================================================
