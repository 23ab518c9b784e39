-------------------------------- MODULE Rows --------------------------------
(***************************************************************************)
(* aggregate.Rows and the row pipeline of the table: how a snapshot's      *)
(* connection records become rows (rollup), which rows are dimmed          *)
(* (closed), which are kept (the filters) and in what order (less and      *)
(* sortRows).  These are pure functions; module Model calls them.          *)
(*                                                                         *)
(* A record's remote address and port are one value, and the bytes and     *)
(* rates of the two directions, which every function here adds up the same *)
(* way, are one number each.  Time 0 is the zero time.                     *)
(***************************************************************************)
EXTENDS Integers, SequencesExt

CONSTANTS
  IPv4, IPv6,      \* the remotes whose address parses, by family
  Private,         \* those of them that are private addresses
  IdleThreshold

RowsAssumption ==
  /\ IPv4 \cap IPv6 = {}
  /\ Private \subseteq IPv4 \cup IPv6
  /\ IdleThreshold \in Nat

GroupNone == 0
GroupByPID == 1
GroupByProcessName == 2
Groupings == {GroupNone, GroupByPID, GroupByProcessName}

SortRate == 0
SortTotal == 1
SortPID == 2
SortKeys == {SortRate, SortTotal, SortPID}

(* The next grouping `g` cycles to, and the sort keys `s` and `r` lead to. *)
Next3(k) == (k + 1) % 3
toggleRate(k) == IF k = SortRate THEN SortTotal ELSE SortRate

-----------------------------------------------------------------------------
(* Row keys: what is rolled up into one row at each grouping. *)
connectionKey(c) == <<c.PID, c.LocalAddr, c.LocalPort, c.Remote, c.Proto>>
pidRemoteKey(c) == <<c.PID, c.Remote>>
processRemoteKey(c) == <<c.ProcessName, c.Remote>>

keyOf(g, c) ==
  CASE g = GroupByPID -> pidRemoteKey(c)
    [] g = GroupByProcessName -> processRemoteKey(c)
    [] OTHER -> connectionKey(c)

(* The row a key starts life as.  A grouped row keeps only the fields the    *)
(* group has one answer for, or that its first record stands for.            *)
emptyRow(key) ==
  [Key |-> key, Label |-> "", PID |-> 0, Remote |-> 0, Proto |-> "", State |-> "",
   Hostname |-> "", Iface |-> "", Vanished |-> FALSE, total |-> 0, rate |-> 0, Connections |-> 0,
   LastSeen |-> 0, FirstSeen |-> 0]

seedUngrouped(c) ==
  [emptyRow(connectionKey(c)) EXCEPT
     !.Label = c.ProcessName, !.PID = c.PID, !.Remote = c.Remote, !.Proto = c.Proto,
     !.State = c.State, !.Hostname = c.Hostname, !.Iface = c.Iface, !.Vanished = c.Vanished]

(* Variant: the row of a group has no hostname of its own. *)
seedByPIDUnnamed(c) ==
  [emptyRow(pidRemoteKey(c)) EXCEPT
     !.Label = c.ProcessName, !.PID = c.PID, !.Remote = c.Remote, !.Iface = c.Iface]

seedByPID(c) ==
  [emptyRow(pidRemoteKey(c)) EXCEPT
     !.Label = c.ProcessName, !.PID = c.PID, !.Remote = c.Remote,
     !.Hostname = c.Hostname, !.Iface = c.Iface]
seedByProcessName(c) ==
  [emptyRow(processRemoteKey(c)) EXCEPT
     !.Label = c.ProcessName, !.Remote = c.Remote, !.Hostname = c.Hostname, !.Iface = c.Iface]

seedOf(g, c) ==
  CASE g = GroupByPID -> seedByPID(c)
    [] g = GroupByProcessName -> seedByProcessName(c)
    [] OTHER -> seedUngrouped(c)

(* Variant: a zero FirstSeen is taken for the earliest. *)
accumulateZero(r, c) ==
  [r EXCEPT !.total = @ + c.total, !.rate = @ + c.rate, !.Connections = @ + 1,
            !.LastSeen = IF c.LastSeen > @ THEN c.LastSeen ELSE @,
            !.FirstSeen = IF c.FirstSeen < @ THEN c.FirstSeen ELSE @]

(* A record's counters added to its row. *)
accumulate(r, c) ==
  [r EXCEPT !.total = @ + c.total, !.rate = @ + c.rate, !.Connections = @ + 1,
            !.LastSeen = IF c.LastSeen > @ THEN c.LastSeen ELSE @,
            !.FirstSeen = IF @ = 0 \/ c.FirstSeen < @ THEN c.FirstSeen ELSE @]

indexOf(rows, key) == CHOOSE i \in DOMAIN rows : rows[i].Key = key

(* rollup: rows in order of first appearance, each the sum of its records. *)
rollup(records, g) ==
  FoldLeft(LAMBDA rows, c :
             IF \E i \in DOMAIN rows : rows[i].Key = keyOf(g, c)
             THEN [rows EXCEPT ![indexOf(rows, keyOf(g, c))] = accumulate(@, c)]
             ELSE Append(rows, accumulate(seedOf(g, c), c)),
           << >>, records)

-----------------------------------------------------------------------------
(* The kernel states of a connection that is winding down. *)
closingTCPState(state) == state \in {"CLOSE_WAIT", "TIME_WAIT"}

(* Whether a record or a row renders dimmed. *)
closed(r, now) ==
  \/ r.Vanished
  \/ r.State # "" /\ closingTCPState(r.State)
  \/ r.State = "" /\ r.LastSeen # 0 /\ now - r.LastSeen > IdleThreshold

-----------------------------------------------------------------------------
(* The filters.  A row that a filter cannot classify is kept. *)
filterListening(rows, show) == SelectSeq(rows, LAMBDA r : show \/ r.State # "LISTEN")

filterProto(rows, showTCP, showUDP) ==
  SelectSeq(rows, LAMBDA r : (r.Proto = "tcp" => showTCP) /\ (r.Proto = "udp" => showUDP))

filterIPFamily(rows, showIPv4, showIPv6) ==
  SelectSeq(rows, LAMBDA r : (r.Remote \in IPv4 => showIPv4) /\ (r.Remote \in IPv6 => showIPv6))

filterPrivate(rows, show) == SelectSeq(rows, LAMBDA r : r.Remote \in Private => show)

filterIface(rows, active) == SelectSeq(rows, LAMBDA r : r.Iface = "" \/ r.Iface \in active)

-----------------------------------------------------------------------------
(* Variant: the records of a process are left as they come. *)
lessByPID(r, o) == r.PID < o.PID

(* The records' order: process, remote endpoint, local port, protocol. *)
less(r, o) ==
  CASE r.PID # o.PID -> r.PID < o.PID
    [] r.Remote # o.Remote -> r.Remote < o.Remote
    [] r.LocalPort # o.LocalPort -> r.LocalPort < o.LocalPort
    [] OTHER -> r.Proto = "tcp" /\ o.Proto = "udp"

(* The orders Refresh's sort.Slice can leave a set of records in: it takes   *)
(* them from a map, and is free with records that less does not tell apart.  *)
listsOf(records) ==
  {s \in SetToSeqs(records) : \A i, j \in DOMAIN s : i < j => ~less(s[j], s[i])}

before(a, b, k) ==
  CASE k = SortTotal -> a.total > b.total
    [] k = SortPID -> a.PID < b.PID
    [] OTHER -> a.rate > b.rate

(* sortRows: a stable sort by the active key. *)
sortRows(rows, k) ==
  FoldLeft(LAMBDA sorted, r :
             InsertAt(sorted, 1 + Cardinality({i \in DOMAIN sorted : ~before(r, sorted[i], k)}), r),
           << >>, rows)
=============================================================================
