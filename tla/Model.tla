------------------------------- MODULE Model --------------------------------
(***************************************************************************)
(* tui.Model, the connections table: Update's tick and key handlers acting *)
(* on the snapshot, the row pipeline (module Rows), the cursor, the filter *)
(* input and the overlays.  The events panel and the split are in module   *)
(* Panels.                                                                 *)
(*                                                                         *)
(* A tick installs any snapshot of Snapshots that its time allows, in any  *)
(* order Refresh's sort can leave it in.  Hostnames resolve in the         *)
(* background, so each rebuild sees names for some of the remotes: named   *)
(* holds those the latest one saw.  What a text contains is given by the   *)
(* constants below; the input's value is the filter, so one keystroke      *)
(* moves it to any query.                                                  *)
(***************************************************************************)
EXTENDS Rows

CONSTANTS
  Snapshots,    \* sets of connection records an Aggregator.Refresh may return
  Queries,      \* non-empty filter texts
  labelText,    \* the queries each process name contains
  addrText,     \* the queries each remote's address contains
  sniText,      \* the queries each hostname found in a connection contains
  hostText,     \* the queries the hostname known for each remote contains
  Nameable,     \* the remotes that may have a hostname
  interfaces,   \* the interfaces capture was told about, in picker order
  Flags,        \* the toggles in use
  MaxPage,      \* bound: the largest page size
  MaxNow        \* bound: ticks carry times up to MaxNow

ModelAssumption ==
  /\ "" \notin Queries
  /\ Flags \subseteq {"listening", "tcp", "udp", "ipv4", "ipv6", "private"}
  /\ MaxPage \in Nat /\ MaxNow \in Nat

VARIABLES
  snap, now, rows, cursor,
  grouping, sort, show, active,
  filter, filterBefore, filtering,
  paused, showHelp, showIfacePicker, ifaceCursor, focus, zoomed,
  named,    \* the remotes whose hostname the latest rebuild saw
  inForce   \* history: the filter last committed

settings == <<grouping, sort, show, active>>
edit == <<filter, filterBefore, filtering, inForce>>
overlays == <<showHelp, showIfacePicker, ifaceCursor>>
panel == <<focus, zoomed>>
table == <<rows, cursor, named>>
data == <<snap, now>>
vars == <<data, table, settings, edit, paused, overlays, panel>>

AllFlags == {"listening", "tcp", "udp", "ipv4", "ipv6", "private"}
clamp(v, lo, hi) == Min({Max({v, lo}), hi})

TypeOK ==
  /\ snap \in Seq(UNION Snapshots) /\ now \in 0 .. MaxNow
  /\ IF rows = << >> THEN cursor = 0 ELSE cursor \in 0 .. Len(rows) - 1
  /\ grouping \in Groupings /\ sort \in SortKeys
  /\ show \in [AllFlags -> BOOLEAN]
  /\ active \subseteq ToSet(interfaces)
  /\ {filter, filterBefore, inForce} \subseteq Queries \cup {""}
  /\ {filtering, paused, showHelp, showIfacePicker, zoomed} \subseteq BOOLEAN
  /\ ifaceCursor \in 0 .. Max({Len(interfaces) - 1, 0})
  /\ focus \in {"connections", "events"} /\ named \subseteq Nameable

Init ==
  /\ snap = << >> /\ now = 0 /\ rows = << >> /\ cursor = 0
  /\ grouping = GroupNone /\ sort = SortPID
  /\ show = [f \in AllFlags |-> TRUE] /\ active = ToSet(interfaces)
  /\ filter = "" /\ filterBefore = "" /\ filtering = FALSE /\ inForce = ""
  /\ paused = FALSE /\ showHelp = FALSE /\ showIfacePicker = FALSE /\ ifaceCursor = 0
  /\ focus = "connections" /\ zoomed = FALSE /\ named = {}

-----------------------------------------------------------------------------
(* The text filterRows searches besides the label (Hostname): the row's own  *)
(* hostname, else the one known for its remote, from the cache or from       *)
(* reverse DNS, else the bare address.                                       *)
hostnameText(r, names) ==
  CASE r.Hostname # "" -> sniText[r.Hostname]
    [] r.Hostname = "" /\ r.Remote \in names -> hostText[r.Remote]
    [] OTHER -> addrText[r.Remote]

matches(r, q, names) == q = "" \/ q \in labelText[r.Label] \/ q \in hostnameText(r, names)

filterRows(rs, q, names) == SelectSeq(rs, LAMBDA r : matches(r, q, names))

(* The pipeline of rebuild: roll up, narrow, sort. *)
visibleRows(sn, g, k, sh, ac, q, names) ==
  LET all == rollup(sn, g)
      classed == filterIface(filterPrivate(filterIPFamily(filterProto(
                   filterListening(all, sh["listening"]), sh["tcp"], sh["udp"]),
                   sh["ipv4"], sh["ipv6"]), sh["private"]), ac)
  IN sortRows(filterRows(classed, q, names), k)

NoKey == << >>
selectedKey == IF cursor < Len(rows) THEN rows[cursor + 1].Key ELSE NoKey

(* Variant: the cursor keeps its position rather than its row. *)
cursorForIndex(rs, key, fallback) == IF rs = << >> THEN 0 ELSE clamp(fallback, 0, Len(rs) - 1)

(* Where the row under the cursor ended up; a vanished one leaves the cursor *)
(* where it was.  Positions count from 0.                                    *)
cursorFor(rs, key, fallback) ==
  IF rs = << >> THEN 0
  ELSE IF key # NoKey /\ \E i \in DOMAIN rs : rs[i].Key = key
       THEN Min({i \in DOMAIN rs : rs[i].Key = key}) - 1
       ELSE clamp(fallback, 0, Len(rs) - 1)

(* rebuild and setRows, with the values the other variables are about to     *)
(* have; from says which row and position the cursor starts from.            *)
rebuildFrom(key, at) ==
  \E names \in SUBSET Nameable :
    /\ named' = names
    /\ rows' = visibleRows(snap', grouping', sort', show', active', filter', names)
    /\ cursor' = cursorFor(rows', key, at)

rebuild == rebuildFrom(selectedKey, cursor)

-----------------------------------------------------------------------------
(* Update's tick: a paused model keeps its snapshot and its clock. *)
TickPaused(t) == t >= now /\ paused /\ UNCHANGED vars
TickRefresh(t, records) ==
  /\ t >= now /\ ~paused /\ \A r \in records : r.FirstSeen <= t /\ r.LastSeen <= t
  /\ snap' \in listsOf(records) /\ now' = t
  /\ UNCHANGED <<settings, edit, paused, overlays, panel>>
  /\ rebuild

Tick(t, records) == TickPaused(t) \/ TickRefresh(t, records)

(* The keyboard belongs to the filter input, then to the help overlay, then  *)
(* to the interface picker, and only then to the table.                      *)
atTable == ~filtering /\ ~showHelp /\ ~showIfacePicker

Unzoom ==
  /\ atTable /\ zoomed /\ zoomed' = FALSE
  /\ UNCHANGED <<data, table, settings, edit, paused, overlays, focus>>

(* Up, Down, PageUp, PageDown, Home and End.  With the focus on the events   *)
(* panel they move its cursor, in module Panels.                             *)
moves == {-1, 1, -Len(rows), Len(rows)} \cup {-p : p \in 1 .. MaxPage} \cup 1 .. MaxPage

moveCursor(delta) ==
  /\ atTable /\ focus = "connections"
  /\ cursor' = IF rows = << >> THEN 0 ELSE clamp(cursor + delta, 0, Len(rows) - 1)
  /\ UNCHANGED <<data, rows, named, settings, edit, paused, overlays, panel>>

FocusNext ==
  /\ atTable /\ ~zoomed
  /\ focus' = IF focus = "connections" THEN "events" ELSE "connections"
  /\ UNCHANGED <<data, table, settings, edit, paused, overlays, zoomed>>

Zoom ==
  /\ atTable /\ zoomed' = TRUE
  /\ UNCHANGED <<data, table, settings, edit, paused, overlays, focus>>

(* cycleGrouping: a row is something else now, so the cursor starts over. *)
cycleGrouping ==
  /\ atTable /\ grouping' = Next3(grouping)
  /\ UNCHANGED <<data, sort, show, active, edit, paused, overlays, panel>>
  /\ rebuildFrom(NoKey, 0)

(* The sort keys: s cycles, r picks one of the two bandwidth sorts. *)
setSort(k) ==
  /\ atTable /\ sort' = k
  /\ UNCHANGED <<data, grouping, show, active, edit, paused, overlays, panel>>
  /\ rebuild

(* Variant: the rows wait for the next tick. *)
toggleLater(f) ==
  /\ atTable /\ show' = [show EXCEPT ![f] = ~@]
  /\ UNCHANGED <<data, table, grouping, sort, active, edit, paused, overlays, panel>>

(* toggleListening, toggleTCP, toggleUDP, toggleIPv4, toggleIPv6,            *)
(* togglePrivate.                                                            *)
toggle(f) ==
  /\ atTable /\ show' = [show EXCEPT ![f] = ~@]
  /\ UNCHANGED <<data, grouping, sort, active, edit, paused, overlays, panel>>
  /\ rebuild

Pause ==
  /\ atTable /\ paused' = ~paused
  /\ UNCHANGED <<data, table, settings, edit, overlays, panel>>

(* The help overlay opens from the table, and its own key or Esc closes it. *)
Help ==
  /\ ~filtering /\ (showHelp \/ ~showIfacePicker)
  /\ showHelp' = ~showHelp
  /\ UNCHANGED <<data, table, settings, edit, paused, showIfacePicker, ifaceCursor, panel>>

-----------------------------------------------------------------------------
(* The interface picker opens from the table, and its own key or Esc closes  *)
(* it.                                                                       *)
Interfaces ==
  /\ ~filtering /\ ~showHelp
  /\ showIfacePicker' = ~showIfacePicker
  /\ UNCHANGED <<data, table, settings, edit, paused, showHelp, ifaceCursor, panel>>

atPicker == ~filtering /\ ~showHelp /\ showIfacePicker

moveIfaceCursor(delta) ==
  /\ atPicker
  /\ ifaceCursor' = IF interfaces = << >> THEN 0
                    ELSE clamp(ifaceCursor + delta, 0, Len(interfaces) - 1)
  /\ UNCHANGED <<data, table, settings, edit, paused, showHelp, showIfacePicker, panel>>

toggleActiveInterface ==
  /\ atPicker /\ ifaceCursor < Len(interfaces)
  /\ LET name == interfaces[ifaceCursor + 1]
     IN active' = IF name \in active THEN active \ {name} ELSE active \cup {name}
  /\ UNCHANGED <<data, grouping, sort, show, edit, paused, overlays, panel>>
  /\ rebuild

-----------------------------------------------------------------------------
(* Variant: the filter is cleared before it is remembered. *)
openFilterCleared ==
  /\ atTable /\ filtering' = TRUE /\ filter' = "" /\ filterBefore' = filter'
  /\ UNCHANGED <<data, settings, inForce, paused, overlays, panel>>
  /\ rebuild

(* `/` opens the input empty, remembering the filter in force. *)
openFilter ==
  /\ atTable /\ filtering' = TRUE /\ filter' = "" /\ filterBefore' = filter
  /\ UNCHANGED <<data, settings, inForce, paused, overlays, panel>>
  /\ rebuild

(* A keystroke edits the text, and the table narrows at once. *)
typeFilter(q) ==
  /\ filtering /\ filter' = q
  /\ UNCHANGED <<data, settings, filterBefore, filtering, inForce, paused, overlays, panel>>
  /\ rebuild

commitFilter ==
  /\ filtering /\ filtering' = FALSE /\ inForce' = filter
  /\ UNCHANGED <<data, table, settings, filter, filterBefore, paused, overlays, panel>>

cancelFilter ==
  /\ filtering /\ filtering' = FALSE /\ filter' = filterBefore
  /\ UNCHANGED <<data, settings, filterBefore, inForce, paused, overlays, panel>>
  /\ rebuild

-----------------------------------------------------------------------------
handleKey ==
  \/ Unzoom \/ FocusNext \/ Zoom \/ cycleGrouping
  \/ \E d \in moves : moveCursor(d)
  \/ setSort(Next3(sort)) \/ setSort(toggleRate(sort))
  \/ \E f \in Flags : toggle(f)
  \/ Pause \/ Help \/ Interfaces
  \/ \E d \in {-1, 1} : moveIfaceCursor(d)
  \/ toggleActiveInterface
  \/ openFilter \/ commitFilter \/ cancelFilter
  \/ \E q \in Queries \cup {""} : typeFilter(q)

Next ==
  \/ \E t \in 1 .. MaxNow, records \in Snapshots : Tick(t, records)
  \/ handleKey

Spec == Init /\ [][Next]_vars

-----------------------------------------------------------------------------
(* The range of rows viewTable draws when it has room for limit of them. *)
visibleWindow(n, cur, limit) ==
  IF limit <= 0 \/ n <= limit THEN [start |-> 0, end |-> n]
  ELSE LET start == Min({IF cur >= limit THEN cur - limit + 1 ELSE 0, n - limit})
       IN [start |-> start, end |-> start + limit]

group(key) == {i \in DOMAIN snap : keyOf(grouping, snap[i]) = key}
shownKeys == {rows[i].Key : i \in DOMAIN rows}

(* A row is the whole of its group: rollup loses no record's bytes, counts   *)
(* none twice, keeps the latest LastSeen and the earliest FirstSeen, and     *)
(* gives a key one row, whatever was regrouped, sorted or narrowed since the *)
(* snapshot was taken.                                                       *)
RowsAreWholeGroups ==
  /\ Cardinality(shownKeys) = Len(rows)
  /\ \A i \in DOMAIN rows :
       LET r == rows[i]
           g == group(r.Key)
       IN /\ r.Connections = Cardinality(g)
          /\ r.total = MapThenSumSet(LAMBDA x : snap[x].total, g)
          /\ r.rate = MapThenSumSet(LAMBDA x : snap[x].rate, g)
          /\ r.LastSeen = Max({snap[x].LastSeen : x \in g})
          /\ r.FirstSeen = Min({snap[x].FirstSeen : x \in g})

(* What the header says hides a connection: a toggle that is off, an         *)
(* inactive interface, or the filter.  The protocol and listening toggles    *)
(* speak for no grouped row, and the interface and the hostname of a group   *)
(* are those of its first record.                                            *)
hidden(c) ==
  LET first == snap[Min(group(keyOf(grouping, c)))]
  IN \/ grouping = GroupNone /\ ~show["listening"] /\ c.State = "LISTEN"
     \/ grouping = GroupNone /\ ~show["tcp"] /\ c.Proto = "tcp"
     \/ grouping = GroupNone /\ ~show["udp"] /\ c.Proto = "udp"
     \/ ~show["ipv4"] /\ c.Remote \in IPv4
     \/ ~show["ipv6"] /\ c.Remote \in IPv6
     \/ ~show["private"] /\ c.Remote \in Private
     \/ first.Iface # "" /\ first.Iface \notin active
     \/ /\ filter # "" /\ filter \notin labelText[first.ProcessName]
        /\ filter \notin hostnameText(first, named)

(* The table agrees with the header on every frame: a connection of the      *)
(* snapshot is missing from the rows exactly when a setting now in force     *)
(* hides it.  Every handler that changes a setting has to rebuild for this,  *)
(* also while paused, when no tick will.                                     *)
TableMatchesHeader ==
  \A i \in DOMAIN snap : keyOf(grouping, snap[i]) \in shownKeys <=> ~hidden(snap[i])

(* The rows are in the order of the sort key the header names. *)
RowsInOrder ==
  \A i, j \in DOMAIN rows : i < j => ~before(rows[j], rows[i], sort)

(* rebuild keeps the cursor on the row it was on for as long as that row is  *)
(* in the table, however the rows are reordered or narrowed around it; only  *)
(* a change of grouping lets go of it.                                       *)
SelectionFollowsRow ==
  (grouping' = grouping /\ rows' # rows /\ selectedKey \in shownKeys')
    => selectedKey' = selectedKey

(* Outside the filter input the filter is the one last committed: an edit    *)
(* that was cancelled, over whatever ticks and keystrokes, leaves no trace.  *)
FilterIsTheCommitted == ~filtering => filter = inForce

(* The overlays never stack: the one that has the keyboard is the only one   *)
(* open, so closing it always returns to the table.                          *)
OneOverlay ==
  /\ ~(showHelp /\ showIfacePicker)
  /\ filtering => ~showHelp /\ ~showIfacePicker

(* While paused nothing thaws the table: neither a tick nor a handler that   *)
(* rebuilds changes the snapshot or the clock the rows are drawn against.    *)
PauseFreezes == [][paused => UNCHANGED data]_vars

(* The selected row is drawn, however few lines the table has. *)
CursorOnScreen ==
  \A limit \in 0 .. MaxPage :
    LET w == visibleWindow(Len(rows), cursor, limit)
    IN rows # << >> => w.start <= cursor /\ cursor < w.end /\ w.end <= Len(rows)

(* "grouped rows are never dimmed". *)
GroupedRowsNotDimmed ==
  grouping # GroupNone => \A i \in DOMAIN rows : ~closed(rows[i], now)

(* A table that nothing changed does not jump about: a tick that brings the  *)
(* records of the last one back, as a map walk in another order would, draws *)
(* the rows where they were, provided no two records differ only in what     *)
(* less (aggregator.go) does not look at, such as the local address.         *)
QuietTableHoldsStill ==
  (/\ ToSet(snap') = ToSet(snap) /\ UNCHANGED <<settings, filter, named>>
   /\ \A r, o \in ToSet(snap) :
        <<r.PID, r.Remote, r.LocalPort, r.Proto>> = <<o.PID, o.Remote, o.LocalPort, o.Proto>> => r = o)
    => rows' = rows

(* "less orders records deterministically": the same records under the same  *)
(* settings give the same rows.                                              *)
OrderIsDeterministic ==
  [][(ToSet(snap') = ToSet(snap) /\ UNCHANGED <<settings, filter, named>>) => rows' = rows]_vars

(* "Filter rows by substring of the process name, address or resolved        *)
(* hostname": with nothing else hidden, a filter that an address contains    *)
(* keeps that address's rows.                                                *)
AddressFindsRow ==
  \A i \in DOMAIN snap :
    (active = ToSet(interfaces) /\ (\A f \in AllFlags : show[f]) /\ filter # ""
       /\ filter \in addrText[snap[i].Remote])
      => keyOf(grouping, snap[i]) \in shownKeys
=============================================================================
