----------------------------- MODULE FlowTable -----------------------------
(***************************************************************************)
(* The flow table of package capture: Capturer.flows and the ByteCounters  *)
(* it points to, shared by one capture goroutine per interface             *)
(* (captureOn, handlePacket, record, ByteCounter.Add) and one refreshing   *)
(* goroutine (Snapshot, then Evict).                                       *)
(*                                                                         *)
(* One step is one critical section: of Capturer.mu for the map, of        *)
(* ByteCounter.mu for a counter.  A ByteCounter is an object with an       *)
(* identity, because record keeps a pointer to it after it has released    *)
(* Capturer.mu.  Packet sizes are 1 and the two directions are one total:  *)
(* Add treats both alike.  Time is counted in ticks from 1; 0 stands for   *)
(* the zero time.Time.                                                     *)
(***************************************************************************)
EXTENDS Integers, FiniteSets

CONSTANTS
  Tuples,     \* address/port/protocol tuples a packet can carry
  Ifaces,     \* captured interfaces: ResolveInterfaces returns each one once
  Counters,   \* identities of ByteCounter objects
  Nil,        \* the nil *ByteCounter
  MaxTime,    \* bound: the clock stops here
  MaxLag,     \* bound: how old a packet's capture timestamp may be when read
  MaxPackets, \* bound: packets read in one behaviour
  Grace       \* GracePeriod

ASSUME FlowTableAssumption ==
  /\ Nil \notin Counters
  /\ Nil \notin Tuples \X Ifaces
  /\ MaxTime \in Nat /\ MaxLag \in Nat /\ MaxPackets \in Nat /\ Grace \in Nat

(* FlowKey: both directions of a connection, on the interface it was seen on. *)
FlowKey == Tuples \X Ifaces

VARIABLES
  now,     \* the wall clock
  npkts,   \* packets read so far
  flows,   \* Capturer.flows: the counter stored under a key, or Nil
  ctr,     \* the heap of ByteCounters
  pc,      \* control state of each capture goroutine
  pkt,     \* the packet each capture goroutine is handling
  held,    \* record's local variable ctr
  newest,  \* history: newest timestamp credited through the table's counter
  rpc,     \* control state of the refreshing goroutine
  at,      \* Refresh's argument now
  todo,    \* flows Snapshot has still to visit
  half,    \* the flow Snapshot has read Totals of, but not yet LastSeen
  snap,    \* the map Snapshot is building
  keep,    \* Evict's argument keep
  stale    \* Evict's local variable stale

captureVars == <<npkts, pc, pkt, held>>
tableVars == <<flows, ctr, newest>>
refreshVars == <<rpc, at, todo, half, snap, keep, stale>>
vars == <<now, captureVars, tableVars, refreshVars>>

(* FlowStats, with live FALSE for a key the snapshot map does not contain. *)
FlowStats == [live: BOOLEAN, bytes: Nat, lastSeen: Nat]
NoStats == [live |-> FALSE, bytes |-> 0, lastSeen |-> 0]

(* The zero ByteCounter{} that record allocates. *)
ZeroCounter == [bytes |-> 0, lastSeen |-> 0]

(* Variant: a key without the interface. *)
KeyWithoutIface(i) == <<pkt[i].tuple, CHOOSE j \in Ifaces : TRUE>>

(* The key normalise builds for the packet goroutine i is handling. *)
KeyOf(i) == <<pkt[i].tuple, i>>

Live == {k \in FlowKey : flows[k] # Nil}

(* Counters nothing points to any more, so that the allocator may reuse them. *)
Unreachable ==
  {c \in Counters : /\ \A k \in FlowKey : flows[k] # c
                    /\ \A i \in Ifaces : held[i] # c}

LaterOf(a, b) == IF a < b THEN b ELSE a

(* Variant: the grace period forgotten. *)
BeforeNow == at

(* Evict's argument before: GracePeriod ahead of Refresh's now. *)
Before == at - Grace

TypeOK ==
  /\ now \in Nat /\ npkts \in Nat
  /\ flows \in [FlowKey -> Counters \cup {Nil}]
  /\ ctr \in [Counters -> [bytes: Nat, lastSeen: Nat]]
  /\ pc \in [Ifaces -> {"read", "lookup", "create", "add"}]
  /\ pkt \in [Ifaces -> [tuple: Tuples, ts: Nat]]
  /\ held \in [Ifaces -> Counters \cup {Nil}]
  /\ newest \in [FlowKey -> Nat]
  /\ rpc \in {"idle", "called", "snapshot", "evict", "sweep"}
  /\ at \in Nat
  /\ todo \in SUBSET FlowKey
  /\ half \in FlowKey \cup {Nil}
  /\ snap \in [FlowKey -> FlowStats]
  /\ stale \in SUBSET FlowKey

Init ==
  /\ now = 1 /\ npkts = 0
  /\ flows = [k \in FlowKey |-> Nil]
  /\ ctr = [c \in Counters |-> ZeroCounter]
  /\ pc = [i \in Ifaces |-> "read"]
  /\ pkt \in [Ifaces -> [tuple: Tuples, ts: {0}]]
  /\ held = [i \in Ifaces |-> Nil]
  /\ newest = [k \in FlowKey |-> 0]
  /\ rpc = "idle" /\ at = 0
  /\ todo = {} /\ half = Nil
  /\ snap = [k \in FlowKey |-> NoStats]
  /\ keep = {} /\ stale = {}

-----------------------------------------------------------------------------
(* The capture goroutine of interface i. *)

(* captureOn reads a packet of some flow, stamped by the kernel up to MaxLag *)
(* ago and not necessarily in order, and handlePacket calls record.          *)
ReadPacket(i) ==
  /\ pc[i] = "read" /\ npkts < MaxPackets
  /\ \E t \in Tuples, ts \in LaterOf(1, now - MaxLag) .. now :
       pkt' = [pkt EXCEPT ![i] = [tuple |-> t, ts |-> ts]]
  /\ pc' = [pc EXCEPT ![i] = "lookup"]
  /\ npkts' = npkts + 1
  /\ UNCHANGED <<now, held, tableVars, refreshVars>>

(* record, under RLock: look the counter up. *)
Lookup(i) ==
  /\ pc[i] = "lookup"
  /\ held' = [held EXCEPT ![i] = flows[KeyOf(i)]]
  /\ pc' = [pc EXCEPT ![i] = IF flows[KeyOf(i)] = Nil THEN "create" ELSE "add"]
  /\ UNCHANGED <<now, npkts, pkt, tableVars, refreshVars>>

(* record, under Lock: look again and store a new counter if there is still *)
(* none.  Snapshot holds RLock while it runs, so this waits for it.         *)
Create(i) ==
  /\ pc[i] = "create" /\ rpc # "snapshot"
  /\ \/ /\ flows[KeyOf(i)] # Nil
        /\ held' = [held EXCEPT ![i] = flows[KeyOf(i)]]
        /\ UNCHANGED tableVars
     \/ /\ flows[KeyOf(i)] = Nil
        /\ \E c \in Unreachable :
             /\ flows' = [flows EXCEPT ![KeyOf(i)] = c]
             /\ ctr' = [ctr EXCEPT ![c] = ZeroCounter]
             /\ held' = [held EXCEPT ![i] = c]
        /\ UNCHANGED newest
  /\ pc' = [pc EXCEPT ![i] = "add"]
  /\ UNCHANGED <<now, npkts, pkt, refreshVars>>

(* Variant: Add does not touch lastSeen. *)
AddUndated(i) ==
  /\ pc[i] = "add"
  /\ ctr' = [ctr EXCEPT ![held[i]].bytes = @ + 1]
  /\ pc' = [pc EXCEPT ![i] = "read"]
  /\ held' = [held EXCEPT ![i] = Nil]
  /\ UNCHANGED <<now, npkts, pkt, flows, newest, refreshVars>>

(* Variant: lastSeen is the timestamp of whichever packet came last. *)
AddLatestWins(i) ==
  /\ pc[i] = "add"
  /\ ctr' = [ctr EXCEPT ![held[i]] = [bytes |-> @.bytes + 1, lastSeen |-> pkt[i].ts]]
  /\ pc' = [pc EXCEPT ![i] = "read"]
  /\ held' = [held EXCEPT ![i] = Nil]
  /\ UNCHANGED <<now, npkts, pkt, flows, newest, refreshVars>>

(* ByteCounter.Add, under the counter's own lock: lastSeen only advances. *)
Add(i) ==
  /\ pc[i] = "add"
  /\ ctr' = [ctr EXCEPT ![held[i]] =
               [bytes |-> @.bytes + 1, lastSeen |-> LaterOf(@.lastSeen, pkt[i].ts)]]
  /\ newest' = IF flows[KeyOf(i)] = held[i]
               THEN [newest EXCEPT ![KeyOf(i)] = LaterOf(@, pkt[i].ts)]
               ELSE newest
  /\ pc' = [pc EXCEPT ![i] = "read"]
  /\ held' = [held EXCEPT ![i] = Nil]
  /\ UNCHANGED <<now, npkts, pkt, flows, refreshVars>>

Capture(i) == ReadPacket(i) \/ Lookup(i) \/ Create(i) \/ Add(i)

-----------------------------------------------------------------------------
(* The refreshing goroutine. *)

(* Refresh is called with the time of this tick. *)
RefreshBegin ==
  /\ rpc = "idle"
  /\ rpc' = "called" /\ at' = now
  /\ UNCHANGED <<now, todo, half, snap, keep, stale, captureVars, tableVars>>

(* Snapshot takes RLock and holds it until SnapshotEnd. *)
SnapshotBegin ==
  /\ rpc = "called"
  /\ rpc' = "snapshot"
  /\ todo' = Live
  /\ snap' = [k \in FlowKey |-> NoStats]
  /\ UNCHANGED <<now, at, half, keep, stale, captureVars, tableVars>>

(* Totals of the next flow, in map iteration order. *)
SnapshotTotals(k) ==
  /\ rpc = "snapshot" /\ half = Nil /\ k \in todo
  /\ todo' = todo \ {k} /\ half' = k
  /\ snap' = [snap EXCEPT ![k] =
                [live |-> TRUE, bytes |-> ctr[flows[k]].bytes, lastSeen |-> 0]]
  /\ UNCHANGED <<now, rpc, at, keep, stale, captureVars, tableVars>>

(* LastSeen of the same flow: the counter's lock was released in between. *)
SnapshotLastSeen(k) ==
  /\ rpc = "snapshot" /\ half = k
  /\ half' = Nil
  /\ snap' = [snap EXCEPT ![k].lastSeen = ctr[flows[k]].lastSeen]
  /\ UNCHANGED <<now, rpc, at, todo, keep, stale, captureVars, tableVars>>

(* RUnlock. *)
SnapshotEnd ==
  /\ rpc = "snapshot" /\ todo = {} /\ half = Nil
  /\ rpc' = "evict"
  /\ UNCHANGED <<now, at, todo, half, snap, keep, stale, captureVars, tableVars>>

(* Evict's first half, under RLock.  The counters are read one by one while  *)
(* packets are credited; a flow credited during the walk may be collected or *)
(* not, and EvictSweep passes over it either way, so one step stands for the *)
(* whole walk.                                                               *)
EvictScan(spared) ==
  /\ rpc = "evict"
  /\ rpc' = "sweep"
  /\ keep' = spared
  /\ stale' = {k \in Live \ spared : ctr[flows[k]].lastSeen < Before}
  /\ UNCHANGED <<now, at, todo, half, snap, captureVars, tableVars>>

(* Variant: the second half trusts the first. *)
DoomedUnchecked == {k \in stale : flows[k] # Nil}

(* Variant: the re-check the wrong way round. *)
DoomedIfBusy == {k \in stale : flows[k] # Nil /\ ctr[flows[k]].lastSeen >= Before}

(* The collected flows that are still there and still stale. *)
Doomed == {k \in stale : flows[k] # Nil /\ ctr[flows[k]].lastSeen < Before}

(* Evict's second half, under Lock. *)
EvictSweep ==
  /\ rpc = "sweep"
  /\ rpc' = "idle"
  /\ flows' = [k \in FlowKey |-> IF k \in Doomed THEN Nil ELSE flows[k]]
  /\ newest' = [k \in FlowKey |-> IF k \in Doomed THEN 0 ELSE newest[k]]
  /\ stale' = {}
  /\ UNCHANGED <<now, ctr, at, todo, half, snap, keep, captureVars>>

Tick ==
  /\ now < MaxTime
  /\ now' = now + 1
  /\ UNCHANGED <<captureVars, tableVars, refreshVars>>

Snapshot == \/ SnapshotBegin \/ SnapshotEnd
            \/ \E k \in FlowKey : SnapshotTotals(k) \/ SnapshotLastSeen(k)

(* Evict may be called with any set to keep. *)
Next ==
  \/ Tick
  \/ \E i \in Ifaces : Capture(i)
  \/ RefreshBegin
  \/ Snapshot
  \/ \E spared \in SUBSET FlowKey : EvictScan(spared)
  \/ EvictSweep

Spec == Init /\ [][Next]_vars

-----------------------------------------------------------------------------
(* Evict (pcap.go:442-457) never drops a flow to which a packet stamped at   *)
(* or after the cutoff has been credited, however the packets were ordered   *)
(* and wherever between Evict's two critical sections they arrived, and it   *)
(* never drops a flow it was told to keep.                                   *)
EvictsOnlyQuietFlows ==
  [][\A k \in FlowKey :
       flows[k] # Nil /\ flows'[k] = Nil => newest[k] < Before /\ k \notin keep]_vars

(* A counter that has been handed out for a key is never swapped for another *)
(* one and never runs backwards while it stays in the table: what Totals     *)
(* reports of a flow changes only by growing, until Evict removes the flow.  *)
TotalsOnlyGrow ==
  [][\A k \in FlowKey : flows[k] # Nil /\ flows'[k] # Nil =>
       /\ flows'[k] = flows[k]
       /\ ctr'[flows[k]].bytes >= ctr[flows[k]].bytes
       /\ ctr'[flows[k]].lastSeen >= ctr[flows[k]].lastSeen]_vars

(* No two capture goroutines ever work on one flow (record, pcap.go:392-410): *)
(* the counter a goroutine credits, after it has released the map's lock, is  *)
(* in the table under its own packet's key or nowhere, and no other goroutine *)
(* holds it; and between record's lookup and its write lock nobody stores a   *)
(* counter under its key.  The re-check under that lock (pcap.go:399-400,     *)
(* "another interface's goroutine may have created it") therefore never finds *)
(* one: the key holds the interface, and each has one goroutine.              *)
OneWriterPerFlow ==
  /\ \A i \in Ifaces, k \in Live : held[i] = flows[k] => k = KeyOf(i)
  /\ \A i, j \in Ifaces : held[i] # Nil /\ i # j => held[i] # held[j]
  /\ \A i \in Ifaces : pc[i] = "create" => flows[KeyOf(i)] = Nil

(* A FlowStats that shows traffic also shows when it was: Snapshot reads     *)
(* Totals before LastSeen (pcap.go:468-475), with the counter unlocked in    *)
(* between, so a first packet can never be counted and still read as never   *)
(* seen -- which aggregate.closed takes for "has not carried traffic".       *)
SnapshotDatesTraffic ==
  \A k \in FlowKey : snap[k].bytes > 0 /\ k # half => snap[k].lastSeen > 0

(* What the comment in Evict promises (pcap.go:447-449): activity on a flow  *)
(* "must not be discarded", so the counter a capture goroutine is about to   *)
(* credit is the one in the table.                                           *)
ActivityNotDiscarded ==
  \A i \in Ifaces : pc[i] = "add" => flows[KeyOf(i)] = held[i]
=============================================================================
