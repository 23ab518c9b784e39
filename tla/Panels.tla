------------------------------- MODULE Panels -------------------------------
(***************************************************************************)
(* tui.Model, the two panels: how the terminal's lines are split between   *)
(* Connections and Events, the divider drag, focus and zoom, and the       *)
(* events panel's ring, cursor and window.  The connections table and the  *)
(* overlays, which only take the keyboard away for a while, are in module  *)
(* Model.  An event is its number; a tick appends the batch that merging   *)
(* and sorting the snapshot's five streams gives.                          *)
(***************************************************************************)
EXTENDS Integers, SequencesExt

CONSTANTS
  eventRingCapacity,
  Heights,      \* the terminal heights resizes choose from
  MouseRows,    \* the rows mouse events are reported at
  MaxBatch,     \* bound: events in one tick
  MaxEvents,    \* bound: events in all
  RoundsDown    \* the <<part, of, total>> whose float64 total * (part / of)
                \* falls just below the integer it is exactly

connChromeLines == 4
eventsChromeLines == 3
eventsHeightFraction == 4
minPanelDataRows == 3
defaultPageSize == 10

ASSUME PanelsAssumption ==
  /\ eventRingCapacity \in Nat \ {0} /\ MaxBatch \in Nat /\ MaxEvents \in Nat
  /\ Heights \subseteq Nat \ {0} /\ MouseRows \subseteq Nat
  /\ \A r \in RoundsDown : (r[1] * r[3]) % r[2] = 0

VARIABLES
  height, eventsPanelRows, draggingDivider, dragRow, focus, zoomed,
  events, eventsCursor, eventsWindowTop,
  held,     \* history: whether the mouse button is down
  slipped,  \* history: whether the drag has parted from the pointer
  split     \* history: the height and rows last chosen by default or by drag,
            \* and whether a resize since has met the panel's minimum

divider == <<draggingDivider, dragRow, held, slipped>>
feed == <<events, eventsCursor, eventsWindowTop>>
vars == <<height, eventsPanelRows, divider, focus, zoomed, feed, split>>

TypeOK ==
  /\ height \in Heights \cup {0} /\ eventsPanelRows \in Nat
  /\ {draggingDivider, held, slipped, zoomed} \subseteq BOOLEAN /\ dragRow \in MouseRows \cup {0}
  /\ focus \in {"connections", "events"}
  /\ events \in Seq(1 .. MaxEvents) /\ Len(events) <= eventRingCapacity
  /\ IF events = << >> THEN eventsCursor = 0 ELSE eventsCursor \in 0 .. Len(events) - 1
  /\ eventsWindowTop \in 0 .. eventRingCapacity
  /\ split \in [height: Heights \cup {0}, rows: Nat, floored: BOOLEAN]

chosen(h, rows) == [height |-> h, rows |-> rows, floored |-> FALSE]

Init ==
  /\ height = 0 /\ eventsPanelRows = 0 /\ draggingDivider = FALSE /\ dragRow = 0
  /\ focus = "connections" /\ zoomed = FALSE
  /\ events = << >> /\ eventsCursor = 0 /\ eventsWindowTop = 0
  /\ held = FALSE /\ slipped = FALSE /\ split = chosen(0, 0)

clamp(v, lo, hi) == Min({Max({v, lo}), hi})

-----------------------------------------------------------------------------
splitTotalLines(h) == Max({h - 1, 0})

(* Variant: the events panel keeps its rows however short the terminal. *)
layoutGreedy ==
  LET total == splitTotalLines(height)
      rest == Max({eventsPanelRows, minPanelDataRows})
  IN IF height = 0 THEN [conn |-> 0, events |-> 0]
     ELSE IF zoomed
     THEN IF focus = "events" THEN [conn |-> 0, events |-> Max({total - eventsChromeLines, 1})]
          ELSE [conn |-> Max({total - connChromeLines, 1}), events |-> 0]
     ELSE [conn |-> Max({total - connChromeLines - (rest + eventsChromeLines), minPanelDataRows}),
           events |-> rest]

(* The data rows of each panel.  A zoomed panel takes everything; otherwise  *)
(* neither falls below its minimum, and the events panel gives way first.    *)
layout ==
  LET total == splitTotalLines(height)
      want == Max({eventsPanelRows, minPanelDataRows})
      left == total - connChromeLines - (want + eventsChromeLines)
  IN IF height = 0 THEN [conn |-> 0, events |-> 0]
     ELSE IF zoomed
     THEN IF focus = "events" THEN [conn |-> 0, events |-> Max({total - eventsChromeLines, 1})]
          ELSE [conn |-> Max({total - connChromeLines, 1}), events |-> 0]
     ELSE IF left >= minPanelDataRows THEN [conn |-> left, events |-> want]
     ELSE [conn |-> minPanelDataRows,
           events |-> Max({total - connChromeLines - minPanelDataRows - eventsChromeLines,
                           minPanelDataRows})]

pageSize ==
  LET n == IF focus = "events" THEN layout.events ELSE layout.conn
  IN IF n > 0 THEN n ELSE defaultPageSize

(* Variant: the share is rounded up. *)
scaledUp(part, of, total) == (part * total + of - 1) \div of

(* int(float64(total) * (float64(part) / float64(of))) *)
scaled(part, of, total) ==
  (part * total) \div of - (IF <<part, of, total>> \in RoundsDown THEN 1 ELSE 0)

(* resizePanels: the events panel keeps its share of the lines. *)
resizePanels(h) ==
  LET prevTotal == splitTotalLines(height)
      keep == eventsPanelRows > 0 /\ prevTotal > 0
      lines == IF keep
               THEN scaled(eventsPanelRows + eventsChromeLines, prevTotal, splitTotalLines(h))
               ELSE splitTotalLines(h) \div eventsHeightFraction
  IN /\ height' = h
     /\ eventsPanelRows' = Max({lines - eventsChromeLines, minPanelDataRows})
     /\ split' = IF keep
                 THEN [split EXCEPT !.floored = @ \/ lines - eventsChromeLines < minPanelDataRows]
                 ELSE chosen(h, eventsPanelRows')
     /\ slipped' = (slipped \/ draggingDivider)
     /\ UNCHANGED <<draggingDivider, dragRow, held, focus, zoomed, feed>>

-----------------------------------------------------------------------------
(* The divider is the connections panel's bottom border. *)
dividerRow == IF zoomed THEN -1 ELSE connChromeLines + layout.conn - 1

(* Variant: the events panel may take the connections panel's last rows. *)
adjustEventsPanelRowsPast(delta) ==
  LET maxRows == Max({splitTotalLines(height) - connChromeLines - eventsChromeLines, minPanelDataRows})
  IN eventsPanelRows' = clamp(eventsPanelRows + delta, minPanelDataRows, maxRows)

adjustEventsPanelRows(delta) ==
  LET maxRows == Max({splitTotalLines(height) - connChromeLines - eventsChromeLines
                        - minPanelDataRows, minPanelDataRows})
  IN eventsPanelRows' = clamp(eventsPanelRows + delta, minPanelDataRows, maxRows)

(* handleMouse.  The terminal reports motion only while the button is down   *)
(* (WithMouseCellMotion).  A zoomed model ignores the mouse altogether.      *)
(* A press is the button's, or a notch of the wheel, which bubbletea reports *)
(* as a press too and follows with no release: both start a drag.            *)
Press(y, wheel) ==
  /\ IF wheel THEN UNCHANGED held ELSE ~held /\ held' = TRUE
  /\ IF ~zoomed /\ y = dividerRow
     THEN draggingDivider' = TRUE /\ dragRow' = y /\ slipped' = ~held'
     ELSE UNCHANGED <<draggingDivider, dragRow, slipped>>
  /\ UNCHANGED <<height, eventsPanelRows, focus, zoomed, feed, split>>

Motion(y) ==
  /\ held /\ ~zoomed /\ draggingDivider /\ dragRow' = y
  /\ adjustEventsPanelRows(dragRow - y)
  /\ split' = chosen(height, eventsPanelRows')
  /\ slipped' = (slipped \/ layout.events # eventsPanelRows
                     \/ eventsPanelRows' # eventsPanelRows + dragRow - y)
  /\ UNCHANGED <<height, draggingDivider, held, focus, zoomed, feed>>

(* Variant: the drag is not ended. *)
ReleaseKeepsDrag ==
  /\ held /\ held' = FALSE
  /\ slipped' = (slipped \/ (draggingDivider /\ zoomed))
  /\ UNCHANGED <<height, eventsPanelRows, draggingDivider, dragRow, focus, zoomed, feed, split>>

Release ==
  /\ held /\ held' = FALSE
  /\ draggingDivider' = (draggingDivider /\ zoomed)
  /\ slipped' = (slipped \/ draggingDivider')
  /\ UNCHANGED <<height, eventsPanelRows, dragRow, focus, zoomed, feed, split>>

-----------------------------------------------------------------------------
FocusNext ==
  /\ ~zoomed /\ focus' = IF focus = "connections" THEN "events" ELSE "connections"
  /\ UNCHANGED <<height, eventsPanelRows, divider, zoomed, feed, split>>

Zoom ==
  /\ zoomed' = TRUE
  /\ UNCHANGED <<height, eventsPanelRows, divider, focus, feed, split>>

Unzoom ==
  /\ zoomed /\ zoomed' = FALSE
  /\ UNCHANGED <<height, eventsPanelRows, divider, focus, feed, split>>

-----------------------------------------------------------------------------
(* Variant: a window that already ends just above the cursor is kept. *)
eventsWindowStartShort(prevStart, cur, n, limit) ==
  IF limit <= 0 \/ n <= limit THEN 0
  ELSE LET start == clamp(prevStart, 0, n - limit)
           up == IF cur < start THEN cur ELSE start
           down == IF cur > up + limit THEN cur - limit + 1 ELSE up
       IN clamp(down, 0, n - limit)

(* The window moves only as far as brings the cursor back into it. *)
eventsWindowStart(prevStart, cur, n, limit) ==
  IF limit <= 0 \/ n <= limit THEN 0
  ELSE LET start == clamp(prevStart, 0, n - limit)
           up == IF cur < start THEN cur ELSE start
           down == IF cur > up + limit - 1 THEN cur - limit + 1 ELSE up
       IN clamp(down, 0, n - limit)

(* The range of events drawn, from its first position to one past its last. *)
eventsVisibleWindow ==
  LET n == Len(events)
      limit == layout.events
      start == eventsWindowStart(eventsWindowTop, eventsCursor, n, limit)
  IN IF limit <= 0 \/ n <= limit THEN [start |-> 0, end |-> n]
     ELSE [start |-> start, end |-> start + limit]

(* Up, Down, PageUp, PageDown, Home and End with the focus on this panel. *)
moves == {-1, 1, -pageSize, pageSize, -Len(events), Len(events)}

moveEventsCursor(delta) ==
  LET n == Len(events) IN
  /\ focus = "events"
  /\ eventsCursor' = IF n = 0 THEN 0 ELSE clamp(eventsCursor + delta, 0, n - 1)
  /\ eventsWindowTop' = IF n = 0 THEN 0
                        ELSE eventsWindowStart(eventsWindowTop, eventsCursor', n, layout.events)
  /\ UNCHANGED <<height, eventsPanelRows, divider, focus, zoomed, events, split>>

(* Pushing a batch onto the ring: the oldest events give way. *)
push(s, batch) == LET all == s \o batch
                  IN SubSeq(all, Max({1, Len(all) - eventRingCapacity + 1}), Len(all))

(* The batch of a tick: the next n events. *)
seen == IF events = << >> THEN 0 ELSE Last(events)
batchOf(n) == [i \in 1 .. n |-> seen + i]

(* appendEvents, of a tick that refreshes: a cursor on the latest event      *)
(* stays on the latest.                                                      *)
appendEvents(n) ==
  LET all == push(events, batchOf(n))
      follow == events = << >> \/ eventsCursor = Len(events) - 1
  IN /\ seen + n <= MaxEvents
     /\ events' = all
     /\ eventsCursor' = IF follow /\ all # << >> THEN Len(all) - 1 ELSE eventsCursor
     /\ eventsWindowTop' = eventsWindowStart(eventsWindowTop, eventsCursor', Len(all), layout.events)
     /\ UNCHANGED <<height, eventsPanelRows, divider, focus, zoomed, split>>

Next ==
  \/ \E h \in Heights : resizePanels(h)
  \/ \E y \in MouseRows : (\E wheel \in BOOLEAN : Press(y, wheel)) \/ Motion(y)
  \/ Release \/ FocusNext \/ Zoom \/ Unzoom
  \/ \E d \in moves : moveEventsCursor(d)
  \/ \E n \in 0 .. MaxBatch : appendEvents(n)

Spec == Init /\ [][Next]_vars

-----------------------------------------------------------------------------
(* The frame fills the terminal to the line: in any terminal tall enough for *)
(* both minimums, the panels' data rows, their chrome and the footer add up  *)
(* to its height, so View clips nothing and the divider is where the mouse   *)
(* looks for it; and neither panel is squeezed below its minimum, by the     *)
(* default split, by a resize or by a drag.                                  *)
FrameFills ==
  height >= connChromeLines + eventsChromeLines + 2 * minPanelDataRows + 1 =>
    IF zoomed
    THEN layout.conn + layout.events
           + (IF focus = "events" THEN eventsChromeLines ELSE connChromeLines) + 1 = height
    ELSE /\ layout.conn + connChromeLines + layout.events + eventsChromeLines + 1 = height
         /\ layout.conn >= minPanelDataRows /\ layout.events >= minPanelDataRows

(* A drag moves the border it drags.  The split the user chose is the split  *)
(* that is drawn; and while the button is down the border is under the       *)
(* pointer, unless the drag has run into a panel's minimum, the terminal was *)
(* resized under it, the panel drawn was not the one kept, the release went  *)
(* unseen because the model was zoomed, or it was the wheel, with no button  *)
(* down, that started it.                                                    *)
DragFollowsPointer ==
  /\ (height = split.height /\ eventsPanelRows = split.rows /\ ~zoomed
        /\ height >= connChromeLines + eventsChromeLines + 2 * minPanelDataRows + 1)
       => layout.events = eventsPanelRows
  /\ (draggingDivider /\ ~slipped) => held /\ (height > 0 /\ ~zoomed => dividerRow = dragRow)

(* Resizing only ever costs the events panel rows: back at the height its    *)
(* split was chosen at, over any resizes in between, it has no more rows     *)
(* than were chosen, unless one of those terminals was so short that the     *)
(* panel was held at its minimum.  Each resize truncates the share anew.     *)
SplitNeverGrows ==
  (height = split.height /\ ~split.floored) => eventsPanelRows <= split.rows

(* The split is the user's: a drag moves the border under the pointer         *)
(* (handleMouse), and no resize gives the events panel rows it was not given  *)
(* (resizePanels).                                                            *)
SplitIsTheUsers == DragFollowsPointer /\ SplitNeverGrows

(* The selected event is on screen, whatever resizes, zooms, drags and ticks *)
(* came between the key that moved the window and the frame                  *)
(* (eventsVisibleWindow).                                                    *)
EventsCursorShown ==
  events # << >> => /\ eventsVisibleWindow.start <= eventsCursor
                    /\ eventsCursor < eventsVisibleWindow.end
                    /\ eventsVisibleWindow.end <= Len(events)

(* A viewer at the live edge is carried along with it, also by a batch that  *)
(* pushes old events off the ring.                                           *)
FollowsLiveEdge ==
  [][(events' # events /\ eventsCursor = Len(events) - 1)
       => eventsCursor' = Len(events') - 1]_vars

(* "without disturbing a window the user is deliberately holding in place":  *)
(* a tick leaves the selected event selected while the ring still holds it.  *)
HeldEventStays ==
  [][(events' # events /\ eventsCursor < Len(events) - 1
        /\ events[eventsCursor + 1] \in ToSet(events'))
       => events'[eventsCursor' + 1] = events[eventsCursor + 1]]_vars

(* "release ends it" (state.go:194-196): no drag is in progress with the     *)
(* button up.                                                                *)
ReleaseEndsDrag == draggingDivider => held

(* "a terminal resize does not leave the split's proportions stale": back at *)
(* the height the split was chosen at, it is the split that was chosen.      *)
SplitRestored == (height = split.height) => eventsPanelRows = split.rows
=============================================================================
