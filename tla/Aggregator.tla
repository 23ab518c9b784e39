----------------------------- MODULE Aggregator -----------------------------
(***************************************************************************)
(* Aggregator.Refresh: the join of the connections a ConnectionSource      *)
(* reports with the flow counters capture holds, the grace period of a     *)
(* connection that has vanished, and the eviction of old counters.         *)
(*                                                                         *)
(* It composes the flow table with the kernel's sockets and a source that  *)
(* polls them.  A connection is <<pid, tuple>>; an ICMP or ARP flow, which *)
(* has no socket, gets a row under NoPid.                                  *)
(***************************************************************************)
EXTENDS FlowTable

CONSTANTS
  SocketTuples,  \* the TCP and UDP tuples; the others are ICMP and ARP
  Pids,
  NoPid,         \* connKey's zero pid
  NoIface        \* FlowKey's zero Iface

ASSUME AggregatorAssumption ==
  /\ SocketTuples \subseteq Tuples
  /\ NoPid \notin Pids
  /\ NoIface \notin Ifaces

Connection == Pids \X SocketTuples
ConnKey == (Pids \cup {NoPid}) \X Tuples
ConnectionRecord ==
  [bytes: Nat, lastSeen: Nat, iface: Ifaces \cup {NoIface},
   lastPolled: Nat, firstSeen: Nat, vanished: BOOLEAN]

VARIABLES
  socks,     \* the sockets open in the kernel
  polled,    \* what ConnectionSource.Connections returns
  conns,     \* Refresh's local variable conns
  records,   \* Aggregator.records
  reported,  \* history: the latest refresh that had a source for a row
  shownAt    \* history: the time of the latest completed join

aggVars == <<socks, polled, conns, records, reported, shownAt>>
allVars == <<vars, aggVars>>

AggTypeOK ==
  /\ socks \subseteq Connection /\ polled \subseteq Connection
  /\ conns \subseteq Connection
  /\ DOMAIN records \subseteq ConnKey
  /\ \A k \in DOMAIN records : records[k] \in ConnectionRecord
  /\ reported \in [ConnKey -> Nat] /\ shownAt \in Nat

AggInit ==
  /\ Init
  /\ socks = {} /\ polled = {} /\ conns = {}
  /\ records = [k \in {} |-> NoStats]
  /\ reported = [k \in ConnKey |-> 0] /\ shownAt = 0

-----------------------------------------------------------------------------
(* The kernel and the source. *)

SocketOpen(c) ==
  /\ c \notin socks
  /\ socks' = socks \cup {c}
  /\ UNCHANGED <<polled, conns, records, reported, shownAt, vars>>

SocketClose(c) ==
  /\ c \in socks
  /\ socks' = socks \ {c}
  /\ UNCHANGED <<polled, conns, records, reported, shownAt, vars>>

(* The source finishes a poll and publishes it. *)
Poll ==
  /\ polled' = socks
  /\ UNCHANGED <<socks, conns, records, reported, shownAt, vars>>

-----------------------------------------------------------------------------
(* Refresh. *)

(* Refresh asks the source first, then takes the snapshot. *)
RefreshConns ==
  /\ RefreshBegin
  /\ conns' = polled
  /\ UNCHANGED <<socks, polled, records, reported, shownAt>>

Captured(t) == \E i \in Ifaces : snap[<<t, i>>].live

(* joinConnections strips Iface from the flows into flowsByAddr and          *)
(* joinUnattributedFlows from the connKey, both in map iteration order: of   *)
(* two interfaces that saw the same tuple the last one visited stays.        *)
LastVisited ==
  {win \in [Tuples -> Ifaces] : \A t \in Tuples : Captured(t) => snap[<<t, win[t]>>].live}

(* The rows with a source in this refresh: connections and socketless flows. *)
Sourced ==
  conns \cup {<<NoPid, t>> : t \in {u \in Tuples \ SocketTuples : Captured(u)}}

(* Variant: a connection that comes back starts afresh. *)
FirstSeenIfNotVanished(k) ==
  IF k \in DOMAIN records /\ ~records[k].vanished THEN records[k].firstSeen ELSE at

FirstSeen(k) == IF k \in DOMAIN records THEN records[k].firstSeen ELSE at

(* joinConnections and joinUnattributedFlows, with the flow seen on i if any. *)
Joined(k, st, i) ==
  [bytes |-> st.bytes, lastSeen |-> st.lastSeen,
   iface |-> IF st.live THEN i ELSE NoIface,
   lastPolled |-> at, firstSeen |-> FirstSeen(k), vanished |-> FALSE]

(* Variant: the boundary of the grace period off by one. *)
CarriedStrictly == {k \in DOMAIN records \ Sourced : records[k].lastPolled > Before}

(* Variant: rows are carried forward without end. *)
CarriedForever == DOMAIN records \ Sourced

(* carryForwardVanished: rows without a source, within the grace period. *)
Carried == {k \in DOMAIN records \ Sourced : records[k].lastPolled >= Before}

(* The record map is replaced wholesale. *)
Join ==
  /\ SnapshotEnd
  /\ \E win \in LastVisited :
       records' = [k \in Sourced \cup Carried |->
                     IF k \in Sourced THEN Joined(k, snap[<<k[2], win[k[2]]>>], win[k[2]])
                     ELSE [records[k] EXCEPT !.vanished = TRUE]]
  /\ reported' = [k \in ConnKey |-> IF k \in Sourced THEN at ELSE reported[k]]
  /\ shownAt' = at
  /\ UNCHANGED <<socks, polled, conns>>

(* The keys of the open connections' flows, which have no Iface. *)
openFlowKeys == {<<c[2], NoIface>> : c \in conns}

Evict == EvictScan(openFlowKeys) /\ UNCHANGED aggVars

Refresh ==
  \/ RefreshConns
  \/ SnapshotBegin /\ UNCHANGED aggVars
  \/ \E k \in FlowKey : (SnapshotTotals(k) \/ SnapshotLastSeen(k)) /\ UNCHANGED aggVars
  \/ Join
  \/ Evict
  \/ EvictSweep /\ UNCHANGED aggVars

AggNext ==
  \/ Tick /\ UNCHANGED aggVars
  \/ \E i \in Ifaces : Capture(i) /\ UNCHANGED aggVars
  \/ \E c \in Connection : SocketOpen(c) \/ SocketClose(c)
  \/ Poll
  \/ Refresh

AggSpec == AggInit /\ [][AggNext]_allVars

-----------------------------------------------------------------------------
(* The table shows exactly the rows that had a source -- an open socket in   *)
(* the poll, or a socketless flow in the snapshot -- in some refresh no more *)
(* than GracePeriod ago (join and carryForwardVanished, aggregator.go:341-   *)
(* 363, 478-487): no row leaves early, none outstays its grace period,       *)
(* however often it vanished and came back.                                  *)
ShowsExactlyRecentRows ==
  DOMAIN records =
    {k \in ConnKey : reported[k] # 0 /\ reported[k] >= shownAt - Grace}

(* A row that stays in the table, vanished or not, keeps the FirstSeen it    *)
(* entered with (aggregator.go:392-395, 451-454).                            *)
FirstSeenSticks ==
  \A k \in DOMAIN records \cap DOMAIN records' :
    records'[k].firstSeen = records[k].firstSeen

(* What a row shows goes down only when its flow had been silent for the     *)
(* grace period at the previous refresh, so that Evict dropped the counter   *)
(* behind it, or when two interfaces hold counters for the row's tuple and   *)
(* flowsByAddr keeps either (aggregator.go:374-378).  Nothing else resets a  *)
(* total: not a vanished connection that comes back, nor a counter evicted   *)
(* while its packet was being credited.                                      *)
TotalsDropOnlyAfterSilence ==
  \A k \in DOMAIN records \cap DOMAIN records' :
    records'[k].bytes < records[k].bytes =>
      \/ records[k].lastSeen < shownAt - Grace
      \/ \E i, j \in Ifaces : i # j /\ snap[<<k[2], i>>].live /\ snap[<<k[2], j>>].live

(* A row that stays in the table keeps its past: the FirstSeen it entered    *)
(* with (joinConns), and its bytes, until silence let Evict take the counter *)
(* or another interface's counter answers for the tuple (flowsByAddr).       *)
RowsKeepTheirHistory == [][FirstSeenSticks /\ TotalsDropOnlyAfterSilence]_allVars

(* "A connection this poll still reports open is spared regardless of the    *)
(* cutoff ... must keep its running totals" (aggregator.go:303-306): from    *)
(* one refresh to the next the total of a connection open in both does not   *)
(* go down.                                                                  *)
OpenConnectionKeepsTotals ==
  [][\A k \in DOMAIN records \cap DOMAIN records' :
       ~records[k].vanished /\ ~records'[k].vanished /\ k \in Connection
         => records'[k].bytes >= records[k].bytes]_allVars

(* "Iface is the name of the interface capture last saw this connection's    *)
(* traffic on", and LastSeen "when the connection last carried traffic"      *)
(* (aggregator.go:84-86, 98-100): once a refresh has joined, no interface's  *)
(* counter for the row's tuple is newer than the one the row was built from. *)
RowShowsLatestInterface ==
  rpc = "evict" =>
    \A k \in DOMAIN records, i \in Ifaces :
      ~records[k].vanished /\ snap[<<k[2], i>>].live
        => snap[<<k[2], i>>].lastSeen <= records[k].lastSeen

(* Evict keeps the table from growing for ever (pcap.go:415-418): a flow     *)
(* with no open connection behind it that stays quiet for the grace period   *)
(* is eventually removed.                                                    *)
QuietFlowsEvicted ==
  \A k \in FlowKey :
    (flows[k] # Nil) ~>
      \/ flows[k] = Nil
      \/ ctr[flows[k]].lastSeen >= MaxTime - Grace
      \/ \E p \in Pids : <<p, k[1]>> \in socks

(* A row whose socket is gone for good eventually leaves the table. *)
ClosedRowsLeave ==
  \A c \in Connection :
    (c \notin socks) ~>
      \/ c \in socks
      \/ c \notin DOMAIN records
      \/ records[c].lastPolled >= MaxTime - Grace

(* A socket that stays open eventually has its row. *)
OpenRowsAppear ==
  \A c \in Connection : (c \in socks) ~> (c \notin socks \/ c \in DOMAIN records)
=============================================================================
