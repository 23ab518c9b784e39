-------------------------------- MODULE MCTui -------------------------------
(***************************************************************************)
(* tui.Model on small instances: the panels line by line (module Panels),  *)
(* the connections table (module Model), which shares the focus and the    *)
(* zoom with them, and the table's columns cell by cell (module Columns).  *)
(* A behaviour has events and keys, and a few places to drag to; or the    *)
(* mouse and resizes without events; or the cursor and the clock over      *)
(* changing snapshots; or every toggle and interface over one; or the      *)
(* filter input while hostnames come and go; or sizes the columns for one  *)
(* width.                                                                  *)
(***************************************************************************)
EXTENDS Panels

CONSTANTS
  MaxWidth,
  EventHeights,  \* bound: the heights in a behaviour with events
  EventRows,     \* bound: the rows drags go over in one
  IPv4, IPv6, Private, IdleThreshold,
  Snapshots, Queries, labelText, addrText, sniText, hostText, Nameable, interfaces, Flags, MaxPage, MaxNow

VARIABLES
  scene,
  all, width, cols, done,
  snap, now, rows, cursor, grouping, sort, show, active,
  filter, filterBefore, filtering, paused, showHelp, showIfacePicker, ifaceCursor, named, inForce

Fit == INSTANCE Columns
Board == INSTANCE Model

ASSUME Fit!ColumnsAssumption
ASSUME Board!RowsAssumption
ASSUME Board!ModelAssumption

columnVars == <<all, width, cols, done>>
(* The variables of Model that are its own. *)
boardVars == <<snap, now, rows, cursor, grouping, sort, show, active, filter, filterBefore, filtering,
               paused, showHelp, showIfacePicker, ifaceCursor, named, inForce>>
(* The variables of Panels that are its own. *)
splitVars == <<height, eventsPanelRows, divider, feed, split>>

(* The products of these heights' lines that float64 rounds down. *)
MCRoundsDown == {<<15, 13, 13>>, <<30, 13, 13>>, <<15, 22, 22>>, <<30, 22, 22>>}

-----------------------------------------------------------------------------
conn(pid, name, laddr, lport, remote, proto, state, host, iface, total, rate, lastSeen, first) ==
  [PID |-> pid, ProcessName |-> name, LocalAddr |-> laddr, LocalPort |-> lport,
   Remote |-> remote, Proto |-> proto, State |-> state, Hostname |-> host, Iface |-> iface,
   Vanished |-> FALSE, total |-> total, rate |-> rate, LastSeen |-> lastSeen, FirstSeen |-> first]

(* Two connections of one process to one remote, quiet or busy, for          *)
(* different hostnames or for one not found yet, and a listener of another   *)
(* process of the same name.                                                 *)
a(n) == conn(1, "curl", 1, 1, 1, "tcp", "ESTABLISHED", "sni1", "en0", n, 0, n, 1)
bTo(host, n, iface) == conn(1, "curl", 1, 2, 1, "udp", "", host, iface, 1, n, 1, 2)
b(n, iface) == bTo("sni2", n, iface)
c(n) == conn(2, "curl", 1, 1, 2, "tcp", "LISTEN", "", "", n, n, 1, 1)
MCSelection ==
  {{}, {a(2), b(1, "en0")}, {a(0), b(2, "en0"), c(1)}, {b(1, "en0"), c(2)}, {a(1), b(1, "en0"), c(1)}}

MCFilters == {{a(1), b(2, "en1"), c(1)}}
MCEdit == {{a(1), b(2, "en0"), c(1)}, {bTo("", 1, "en0"), c(2)}}

MCIfaces == <<"en0", "en1">>
MCLabelText == [n \in {"curl"} |-> {"q1"}]
MCAddrText == [r \in 0 .. 2 |-> IF r = 2 THEN {"q2"} ELSE {}]
MCSniText == [h \in {"sni1", "sni2"} |-> IF h = "sni1" THEN {"q2"} ELSE {}]
MCHostText == [r \in 0 .. 2 |-> IF r = 1 THEN {"q2"} ELSE {}]
MCSnapshots == MCSelection \cup MCFilters \cup MCEdit

allIfaces == active = ToSet(interfaces) /\ ifaceCursor = 0
noText == filter = "" /\ named = {}
onTable == focus = "connections" /\ ~zoomed

BoardInScene ==
  CASE scene = "select" ->
         /\ ToSet(snap) \in MCSelection /\ allIfaces /\ noText
         /\ \A f \in Flags \ {"listening"} : show[f]
    [] scene = "filters" -> ToSet(snap) \in MCFilters \cup {{}} /\ noText /\ onTable /\ ~paused
    [] scene = "edit" ->
         /\ ToSet(snap) \in MCEdit \cup {{}} /\ allIfaces /\ onTable
         /\ \A f \in Flags : show[f]

PanelsInScene ==
  CASE scene = "events" -> height \in EventHeights \cup {0} /\ dragRow \in EventRows \cup {0}
    [] scene = "split" -> events = << >>

MCInit ==
  /\ scene \in {"events", "split", "columns", "select", "filters", "edit"}
  /\ Init /\ Fit!Init /\ Board!Init
  /\ scene # "columns" => width = MaxWidth /\ all = Fit!tableColumns(Fit!ungroupedColumns)

MCNext ==
  /\ UNCHANGED scene
  /\ \/ /\ scene \in {"events", "split"} /\ Next /\ PanelsInScene'
        /\ UNCHANGED <<columnVars, boardVars>>
     \/ /\ scene \in {"select", "filters", "edit"} /\ Board!Next /\ BoardInScene'
        /\ UNCHANGED <<columnVars, splitVars>>
     \/ /\ scene = "columns" /\ Fit!fitColumns
        /\ UNCHANGED <<vars, boardVars>>

MCSpec == MCInit /\ [][MCNext]_<<scene, vars, columnVars, boardVars>>

-----------------------------------------------------------------------------
(* The sized table is as wide as the terminal to the cell (shareFlex), and no *)
(* column shows while a more important one that fits is gone (dropLowest).    *)
ColumnsFit == Fit!TypeOK /\ Fit!FitsExactly /\ Fit!KeepsTheMostThatFit

(* Each row is the whole of its group (rollup), whatever was regrouped,       *)
(* sorted or narrowed since the snapshot.                                     *)
RowsAreWholeGroups == Board!RowsAreWholeGroups

(* The table agrees with the header on every frame (rebuild in each handler   *)
(* that changes a setting), its rows are in the order of the sort key named   *)
(* there, and the filter named there is the one last committed: a cancelled   *)
(* edit leaves no trace (openFilter, cancelFilter).                           *)
TableMatchesHeader ==
  Board!TableMatchesHeader /\ Board!RowsInOrder /\ Board!FilterIsTheCommitted

(* The table holds still under the user: rebuild keeps the cursor on its row  *)
(* for as long as the row is in the table (cursorFor), and a tick that brings *)
(* the same records back draws the same rows (less).                          *)
TableHoldsStill ==
  [][Board!SelectionFollowsRow /\ Board!QuietTableHoldsStill]_<<boardVars, focus, zoomed>>
=============================================================================
