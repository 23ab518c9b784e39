------------------------------ MODULE Columns -------------------------------
(***************************************************************************)
(* tui.fitColumns: which of a grouping's columns are drawn in a given      *)
(* width, and how wide each is.  One step of the module is one round of    *)
(* the loop in fitColumns; a behaviour starts from the columns of any      *)
(* grouping and ends when they have been sized.                            *)
(***************************************************************************)
EXTENDS Integers, SequencesExt

CONSTANTS
  MaxWidth   \* bound: widths are 0 .. MaxWidth

ColumnsAssumption == MaxWidth \in Nat

colGap == 2
minLabelWidth == 10
defaultWidth == 100

(* The order in which columns are given up, first to last; essential ones    *)
(* never are.                                                                *)
priority == <<"HOSTNAME", "IFACE", "STATE", "PROTO", "AGE", "CONN", "PID">>
prioEssential == Len(priority) + 1
prio(title) == IF Contains(priority, title) THEN CHOOSE i \in DOMAIN priority : priority[i] = title
               ELSE prioEssential

fixed(title, width) == [title |-> title, width |-> width, flex |-> FALSE]
flexible(title) == [title |-> title, width |-> 0, flex |-> TRUE]

localColumn == flexible("LOCAL")
remoteColumn == flexible("REMOTE")
ifaceColumn == flexible("IFACE")
hostnameColumn == flexible("HOSTNAME")
pidColumn == fixed("PID", 6)
connColumn == fixed("CONN", 5)
ageColumn == fixed("AGE", 7)

groupByPIDColumns ==
  <<localColumn, remoteColumn, hostnameColumn, ifaceColumn, pidColumn, connColumn>>
groupByProcessNameColumns == <<remoteColumn, hostnameColumn, ifaceColumn, connColumn>>
ungroupedColumns ==
  <<localColumn, remoteColumn, hostnameColumn, ifaceColumn,
    fixed("PROTO", 5), pidColumn, fixed("STATE", 11)>>
rateTotalColumns ==
  <<fixed("rate in", 11), fixed("rate out", 11), fixed("total in", 9), fixed("total out", 9)>>

tableColumns(own) ==
  <<flexible("PROCESS")>> \o own \o <<ageColumn>> \o rateTotalColumns

Groupings == {ungroupedColumns, groupByPIDColumns, groupByProcessNameColumns}

VARIABLES
  all,    \* the grouping's columns
  width,  \* the width to fit
  cols,   \* the columns kept so far
  done    \* whether they have been sized

vars == <<all, width, cols, done>>

-----------------------------------------------------------------------------
titles(s) == {s[i].title : i \in DOMAIN s}
sumOf(s) == FoldLeft(LAMBDA acc, c : acc + c.width, 0, s)
tableWidth(s) == (Len(s) - 1) * colGap + sumOf(s)

isFlex(c) == c.flex
flexCount(s) == Len(SelectSeq(s, isFlex))

spare == width - tableWidth(cols)
tooNarrow == spare < minLabelWidth * flexCount(cols)
droppable == {i \in DOMAIN cols : prio(cols[i].title) < prioEssential}

(* Variant: the last droppable column goes, whatever its priority. *)
dropLast ==
  /\ ~done /\ tooNarrow /\ droppable # {}
  /\ cols' = RemoveAt(cols, Max(droppable))
  /\ UNCHANGED <<all, width, done>>

(* dropLowest: the droppable column of the lowest priority goes. *)
dropLowest ==
  /\ ~done /\ tooNarrow /\ droppable # {}
  /\ LET victim == CHOOSE i \in droppable :
                     \A j \in droppable : prio(cols[i].title) <= prio(cols[j].title)
     IN cols' = RemoveAt(cols, victim)
  /\ UNCHANGED <<all, width, done>>

(* shareFlex: the spare cells divided between the flexible columns, none     *)
(* below its minimum, the odd ones to the first.                             *)
shareFlex ==
  /\ ~done /\ (tooNarrow => droppable = {})
  /\ LET n == flexCount(cols)
         each == Max({spare \div n, minLabelWidth})
         extra == Max({spare - each * n, 0})
         first == Min({i \in DOMAIN cols : cols[i].flex})
     IN cols' = [i \in DOMAIN cols |->
                   IF ~cols[i].flex THEN cols[i]
                   ELSE [cols[i] EXCEPT !.width = IF i = first THEN each + extra ELSE each]]
  /\ done' = TRUE /\ UNCHANGED <<all, width>>

(* fitColumns works on a copy of the columns; no width means the default. *)
Init ==
  /\ \E own \in Groupings : all = tableColumns(own)
  /\ \E w \in 0 .. MaxWidth : width = IF w = 0 THEN defaultWidth ELSE w
  /\ cols = all /\ done = FALSE

fitColumns == dropLowest \/ shareFlex

Spec == Init /\ [][fitColumns]_vars

-----------------------------------------------------------------------------
TypeOK ==
  /\ \A i \in DOMAIN cols : cols[i].width \in Nat /\ cols[i].flex \in BOOLEAN
  /\ titles(cols) \subseteq titles(all)
  /\ width \in 1 .. Max({MaxWidth, defaultWidth}) /\ done \in BOOLEAN

(* The narrowest the columns of s can be drawn. *)
minimumWidth(s) == tableWidth(s) + minLabelWidth * flexCount(s)
essential == SelectSeq(all, LAMBDA c : prio(c.title) = prioEssential)

(* The sized table is exactly as wide as the terminal, to the cell, unless   *)
(* even the essential columns do not fit: then it is those at their minimum. *)
FitsExactly ==
  done => tableWidth(cols) = Max({width, minimumWidth(essential)})

(* No column shows while a more important one has been given up, and a       *)
(* column is given up only if keeping it, with all that matter more, would   *)
(* not fit: the columns drawn are the longest run of priorities that does.   *)
KeepsTheMostThatFit ==
  LET atLeast(p) == SelectSeq(all, LAMBDA c : prio(c.title) >= p)
      fitting == {p \in 1 .. prioEssential : minimumWidth(atLeast(p)) <= width}
      best == IF fitting = {} THEN prioEssential ELSE Min(fitting)
  IN done => titles(cols) = titles(atLeast(best))
=============================================================================
