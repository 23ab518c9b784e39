---------------------------- MODULE PanelsProofs ----------------------------
(***************************************************************************)
(* Proofs about the two panels of the terminal interface, for terminals of *)
(* any height, any size of the event ring and any rounding of a resize's   *)
(* product: the frame fills the terminal, the split is the user's, and the *)
(* selected event is on screen.                                            *)
(***************************************************************************)
EXTENDS Panels, TLAPS

-----------------------------------------------------------------------------
(* Numbers. *)

(* The larger and the smaller of two. *)
LEMMA MaxOfTwo ==
  ASSUME NEW m \in Int, NEW n \in Int
  PROVE  Max({m, n}) = IF m >= n THEN m ELSE n
<1>1. \E x \in {m, n} : \A y \in {m, n} : x >= y
  OBVIOUS
<1>2. Max({m, n}) \in {m, n} /\ \A y \in {m, n} : Max({m, n}) >= y
  BY <1>1 DEF Max
<1> QED BY <1>2

LEMMA MinOfTwo ==
  ASSUME NEW m \in Int, NEW n \in Int
  PROVE  Min({m, n}) = IF m <= n THEN m ELSE n
<1>1. \E x \in {m, n} : \A y \in {m, n} : x <= y
  OBVIOUS
<1>2. Min({m, n}) \in {m, n} /\ \A y \in {m, n} : Min({m, n}) <= y
  BY <1>1 DEF Min
<1> QED BY <1>2

(* clamp, where the bounds are in order. *)
LEMMA Clamped ==
  ASSUME NEW v \in Int, NEW lo \in Int, NEW hi \in Int, lo <= hi
  PROVE  clamp(v, lo, hi) = IF v < lo THEN lo ELSE IF v > hi THEN hi ELSE v
<1>1. PICK m \in Int : m = Max({v, lo})
  BY MaxOfTwo
<1>2. m = IF v >= lo THEN v ELSE lo
  BY <1>1, MaxOfTwo
<1>3. clamp(v, lo, hi) = IF m <= hi THEN m ELSE hi
  BY <1>1, MinOfTwo DEF clamp
<1> QED BY <1>2, <1>3

(* The lines a terminal has for the panels. *)
LEMMA TotalLines ==
  ASSUME NEW h \in Nat
  PROVE  splitTotalLines(h) = (IF h = 0 THEN 0 ELSE h - 1) /\ splitTotalLines(h) \in Nat
<1>1. h - 1 \in Int /\ 0 \in Int
  OBVIOUS
<1>2. Max({h - 1, 0}) = IF h - 1 >= 0 THEN h - 1 ELSE 0
  BY <1>1, MaxOfTwo
<1> QED BY <1>2 DEF splitTotalLines

(* A product divided is no more than the product. *)
LEMMA ScaledShare ==
  ASSUME NEW part \in Nat, NEW of \in Nat \ {0}, NEW total \in Nat
  PROVE  scaled(part, of, total) \in Int /\ of * scaled(part, of, total) <= part * total
<1>1. PICK x \in Nat : x = part * total
  OBVIOUS
<1>2. PICK q \in Int : q = x \div of
  OBVIOUS
<1>3. of * q <= x
  <2>1. x % of \in Nat /\ x = of * (x \div of) + (x % of)
    OBVIOUS
  <2>2. of * q \in Int
    OBVIOUS
  <2> QED BY <1>2, <2>1, <2>2
<1>4. of * (q - 1) = of * q - of
  OBVIOUS
<1>5. scaled(part, of, total) = q \/ scaled(part, of, total) = q - 1
  BY <1>1, <1>2 DEF scaled
<1>6. of * q \in Int /\ of * (q - 1) <= x
  BY <1>3, <1>4
<1> QED BY <1>1, <1>3, <1>5, <1>6

-----------------------------------------------------------------------------
(* What layout gives each panel. *)

(* The rows of the connections panel when neither is zoomed. *)
ConnRows(h, rows) ==
  LET want == IF rows >= 3 THEN rows ELSE 3
      left == h - 1 - 4 - (want + 3)
  IN IF left >= 3 THEN left ELSE 3

(* and of the events panel. *)
EventRows(h, rows) ==
  LET want == IF rows >= 3 THEN rows ELSE 3
      left == h - 1 - 4 - (want + 3)
      rest == h - 1 - 4 - 3 - 3
  IN IF left >= 3 THEN want ELSE IF rest >= 3 THEN rest ELSE 3

LEMMA LayoutIs ==
  ASSUME height \in Nat \ {0}, eventsPanelRows \in Nat
  PROVE  layout = IF zoomed
                  THEN IF focus = "events"
                       THEN [conn |-> 0, events |-> IF height - 4 >= 1 THEN height - 4 ELSE 1]
                       ELSE [conn |-> IF height - 5 >= 1 THEN height - 5 ELSE 1, events |-> 0]
                  ELSE [conn |-> ConnRows(height, eventsPanelRows),
                        events |-> EventRows(height, eventsPanelRows)]
<1> DEFINE total == splitTotalLines(height)
           want == Max({eventsPanelRows, minPanelDataRows})
           rest == Max({total - connChromeLines - minPanelDataRows - eventsChromeLines,
                        minPanelDataRows})
<1>0. connChromeLines = 4 /\ eventsChromeLines = 3 /\ minPanelDataRows = 3
  BY DEF connChromeLines, eventsChromeLines, minPanelDataRows
<1>1. total = height - 1 /\ total \in Int /\ height \in Int
  BY TotalLines
<1>2. want = IF eventsPanelRows >= 3 THEN eventsPanelRows ELSE 3
  BY <1>0, MaxOfTwo
<1>3. rest = IF height - 1 - 4 - 3 - 3 >= 3 THEN height - 1 - 4 - 3 - 3 ELSE 3
  <2>1. total - connChromeLines - minPanelDataRows - eventsChromeLines = height - 1 - 4 - 3 - 3
    BY <1>0, <1>1
  <2>2. height - 1 - 4 - 3 - 3 \in Int /\ 3 \in Int
    BY <1>1
  <2> QED BY <1>0, <2>1, <2>2, MaxOfTwo
<1>4. Max({total - eventsChromeLines, 1}) = IF height - 4 >= 1 THEN height - 4 ELSE 1
  <2>1. total - eventsChromeLines = height - 4 /\ height - 4 \in Int
    BY <1>0, <1>1
  <2> QED BY <2>1, MaxOfTwo
<1>5. Max({total - connChromeLines, 1}) = IF height - 5 >= 1 THEN height - 5 ELSE 1
  <2>1. total - connChromeLines = height - 5 /\ height - 5 \in Int
    BY <1>0, <1>1
  <2> QED BY <2>1, MaxOfTwo
<1>6. height # 0
  OBVIOUS
<1>7. layout = IF zoomed
               THEN IF focus = "events" THEN [conn |-> 0, events |-> Max({total - eventsChromeLines, 1})]
                    ELSE [conn |-> Max({total - connChromeLines, 1}), events |-> 0]
               ELSE IF total - connChromeLines - (want + eventsChromeLines) >= minPanelDataRows
                    THEN [conn |-> total - connChromeLines - (want + eventsChromeLines), events |-> want]
                    ELSE [conn |-> minPanelDataRows, events |-> rest]
  BY <1>6, Zenon DEF layout
<1> HIDE DEF total, want, rest
<1>8. CASE zoomed
  BY <1>4, <1>5, <1>7, <1>8, Zenon
<1>9. CASE ~zoomed
  <2>1. total - connChromeLines - (want + eventsChromeLines) = height - 1 - 4 - (want + 3)
    BY <1>0, <1>1
  <2> QED BY <1>0, <1>2, <1>3, <1>7, <1>9, <2>1 DEF ConnRows, EventRows
<1> QED BY <1>8, <1>9

(* Before the first resize nothing is laid out. *)
LEMMA LayoutAtFirst == ASSUME height = 0 PROVE layout = [conn |-> 0, events |-> 0]
BY DEF layout

LEMMA LayoutType ==
  ASSUME height \in Nat, eventsPanelRows \in Nat
  PROVE  layout.conn \in Int /\ layout.events \in Int
<1>1. CASE height = 0
  BY <1>1, LayoutAtFirst
<1>2. CASE height # 0
  BY <1>2, LayoutIs DEF ConnRows, EventRows
<1> QED BY <1>1, <1>2

(* Where the divider is when neither panel is zoomed. *)
LEMMA DividerIs ==
  ASSUME height \in Nat \ {0}, eventsPanelRows \in Nat, ~zoomed
  PROVE  dividerRow = 3 + ConnRows(height, eventsPanelRows)
<1>1. layout.conn = ConnRows(height, eventsPanelRows)
  BY LayoutIs
<1>2. ConnRows(height, eventsPanelRows) \in Int
  BY DEF ConnRows
<1> QED BY <1>1, <1>2 DEF dividerRow, connChromeLines

(* The window over the events has the cursor in it. *)
LEMMA WindowShows ==
  ASSUME NEW prev \in Int, NEW n \in Nat, NEW cur \in 0 .. n - 1, NEW limit \in Int,
         limit > 0, n > limit
  PROVE  /\ eventsWindowStart(prev, cur, n, limit) \in 0 .. n - limit
         /\ eventsWindowStart(prev, cur, n, limit) <= cur
         /\ cur < eventsWindowStart(prev, cur, n, limit) + limit
<1> DEFINE start == clamp(prev, 0, n - limit)
           up == IF cur < start THEN cur ELSE start
           down == IF cur > up + limit - 1 THEN cur - limit + 1 ELSE up
<1>1. n - limit \in Int /\ 0 <= n - limit /\ 0 \in Int
  OBVIOUS
<1>2. start \in 0 .. n - limit
  BY <1>1, Clamped
<1>3. eventsWindowStart(prev, cur, n, limit) = clamp(down, 0, n - limit)
  BY DEF eventsWindowStart
<1> HIDE DEF start
<1>4. down \in 0 .. n - limit /\ down <= cur /\ cur < down + limit
  BY <1>2
<1> HIDE DEF down
<1>5. clamp(down, 0, n - limit) = down
  BY <1>1, <1>4, Clamped
<1> QED BY <1>3, <1>4, <1>5

-----------------------------------------------------------------------------
(* The invariant. *)

(* A split is chosen so that it fits the terminal it is chosen in. *)
SplitFits == split.height >= 14 => split.rows \in 3 .. split.height - 11

(* The border that is dragged is under the pointer; also while a panel is    *)
(* zoomed, when it is not drawn, since it is back when the zoom ends.        *)
DragHeld ==
  draggingDivider /\ ~slipped =>
    held /\ (height > 0 => 3 + ConnRows(height, eventsPanelRows) = dragRow)

(* Over any resizes, the events panel's share of the lines, its chrome       *)
(* included, is no larger than the share that was chosen; in a terminal      *)
(* without lines there is no share, and the rows are those chosen.           *)
ShareKept ==
  ~split.floored =>
    /\ (eventsPanelRows + 3) * splitTotalLines(split.height)
         <= (split.rows + 3) * splitTotalLines(height)
    /\ splitTotalLines(height) = 0 => eventsPanelRows = split.rows

PanelsInv == TypeOK /\ SplitFits /\ DragHeld /\ ShareKept

-----------------------------------------------------------------------------
(* TypeOK, by what the actions change together. *)
LinesTyped ==
  /\ height \in Heights \cup {0} /\ eventsPanelRows \in Nat
  /\ split \in [height: Heights \cup {0}, rows: Nat, floored: BOOLEAN]

FlagsTyped ==
  /\ {draggingDivider, held, slipped, zoomed} \subseteq BOOLEAN /\ dragRow \in MouseRows \cup {0}
  /\ focus \in {"connections", "events"}

FeedTyped ==
  /\ events \in Seq(1 .. MaxEvents) /\ Len(events) <= eventRingCapacity
  /\ IF events = << >> THEN eventsCursor = 0 ELSE eventsCursor \in 0 .. Len(events) - 1
  /\ eventsWindowTop \in 0 .. eventRingCapacity

LEMMA TypeParts == TypeOK <=> LinesTyped /\ FlagsTyped /\ FeedTyped
BY Zenon DEF TypeOK, LinesTyped, FlagsTyped, FeedTyped

(* A step keeps the invariant when it keeps its parts. *)
LEMMA InvFrom ==
  ASSUME LinesTyped', FlagsTyped', FeedTyped', SplitFits', DragHeld', ShareKept'
  PROVE  PanelsInv'
BY Zenon DEF PanelsInv, TypeOK, LinesTyped, FlagsTyped, FeedTyped

LEMMA Constants ==
  /\ eventRingCapacity \in Nat \ {0} /\ MaxBatch \in Nat /\ MaxEvents \in Nat
  /\ Heights \subseteq Nat \ {0} /\ MouseRows \subseteq Nat
BY PanelsAssumption, Zenon

LEMMA Numbers ==
  ASSUME TypeOK
  PROVE  /\ height \in Nat /\ eventsPanelRows \in Nat /\ dragRow \in Nat
         /\ split.height \in Nat /\ split.rows \in Nat
         /\ splitTotalLines(height) \in Nat /\ splitTotalLines(split.height) \in Nat
<1>1. /\ height \in Heights \cup {0} /\ split.height \in Heights \cup {0} /\ dragRow \in MouseRows \cup {0}
      /\ eventsPanelRows \in Nat /\ split.rows \in Nat
  BY Zenon DEF TypeOK
<1>2. \A x : x \in Heights \cup {0} \/ x \in MouseRows \cup {0} => x \in Nat
  <2>1. 0 \in Nat
    OBVIOUS
  <2> QED BY <2>1, Constants, Zenon
<1>3. height \in Nat /\ split.height \in Nat /\ dragRow \in Nat
  BY <1>1, <1>2, Zenon
<1> QED BY <1>1, <1>3, TotalLines, Zenon

LEMMA InitInv == ASSUME Init PROVE PanelsInv
<1>1. FlagsTyped
  BY Zenon DEF Init, FlagsTyped
<1>2. LinesTyped /\ FeedTyped
  BY Constants DEF Init, LinesTyped, FeedTyped, chosen
<1>3. SplitFits /\ DragHeld
  BY DEF Init, SplitFits, DragHeld, chosen
<1>4. height = 0 /\ eventsPanelRows = 0 /\ split.height = 0 /\ split.rows = 0
  BY DEF Init, chosen
<1>5. splitTotalLines(0) = 0
  BY TotalLines
<1>6. ShareKept
  BY <1>4, <1>5 DEF ShareKept
<1> QED BY <1>1, <1>2, <1>3, <1>6, TypeParts DEF PanelsInv

(* Steps that leave the split and the divider alone. *)
LEMMA SplitStays ==
  ASSUME PanelsInv, UNCHANGED <<height, eventsPanelRows, divider, split>>
  PROVE  LinesTyped' /\ SplitFits' /\ DragHeld' /\ ShareKept'
<1>1. UNCHANGED <<height, eventsPanelRows, draggingDivider, dragRow, held, slipped, split>>
  BY Zenon DEF divider
<1> QED BY <1>1, TypeParts, Zenon DEF PanelsInv, LinesTyped, SplitFits, DragHeld, ShareKept, splitTotalLines

(* The focus and the zoom. *)
LEMMA FocusInv == ASSUME PanelsInv, FocusNext \/ Zoom \/ Unzoom PROVE PanelsInv'
<1>1. UNCHANGED <<height, eventsPanelRows, divider, split>> /\ UNCHANGED <<events, eventsCursor, eventsWindowTop>>
  BY Zenon DEF FocusNext, Zoom, Unzoom, feed
<1>2. UNCHANGED <<draggingDivider, dragRow, held, slipped>>
  BY <1>1, Zenon DEF divider
<1>3. zoomed' \in BOOLEAN /\ focus' \in {"connections", "events"}
  BY TypeParts, Zenon DEF PanelsInv, FlagsTyped, FocusNext, Zoom, Unzoom
<1>4. FlagsTyped'
  BY <1>2, <1>3, TypeParts, Zenon DEF PanelsInv, FlagsTyped
<1>5. FeedTyped'
  BY <1>1, TypeParts, Zenon DEF PanelsInv, FeedTyped
<1> QED BY <1>1, <1>4, <1>5, SplitStays, InvFrom, Zenon

-----------------------------------------------------------------------------
(* Resizes. *)

LEMMA Times ==
  ASSUME NEW a \in Int, NEW b \in Int, NEW c \in Nat, a <= b
  PROVE  a * c <= b * c
OBVIOUS

LEMMA Cancel ==
  ASSUME NEW a \in Int, NEW b \in Int, NEW c \in Nat \ {0}, c * a <= c * b
  PROVE  a <= b
OBVIOUS

(* A share of a share. *)
LEMMA ShareOfShare ==
  ASSUME NEW lines \in Int, NEW part \in Nat, NEW of \in Nat \ {0}, NEW total \in Nat,
         NEW first \in Nat, NEW ofFirst \in Nat,
         part * ofFirst <= first * of, of * lines <= part * total
  PROVE  lines * ofFirst <= first * total
<1>1. (of * lines) * ofFirst <= (part * total) * ofFirst
  <2>1. of * lines \in Int /\ part * total \in Int
    OBVIOUS
  <2> QED BY <2>1, Times
<1>2. (part * ofFirst) * total <= (first * of) * total
  <2>1. part * ofFirst \in Int /\ first * of \in Int
    OBVIOUS
  <2> QED BY <2>1, Times
<1>3. (of * lines) * ofFirst = of * (lines * ofFirst) /\ (first * of) * total = of * (first * total)
  OBVIOUS
<1>4. (part * total) * ofFirst = (part * ofFirst) * total
  OBVIOUS
<1>5. lines * ofFirst \in Int /\ first * total \in Int /\ (part * ofFirst) * total \in Int
  OBVIOUS
<1>6. of * (lines * ofFirst) \in Int /\ of * (first * total) \in Int
  BY <1>5
<1>7. of * (lines * ofFirst) <= of * (first * total)
  BY <1>1, <1>2, <1>3, <1>4, <1>5, <1>6
<1> QED BY <1>5, <1>7, Cancel

(* The events panel keeps its share of the lines. *)
LEMMA ResizeKeeps ==
  ASSUME PanelsInv, NEW h \in Heights, resizePanels(h),
         eventsPanelRows > 0, splitTotalLines(height) > 0
  PROVE  eventsPanelRows' \in Nat /\ SplitFits' /\ ShareKept' /\ LinesTyped'
<1> DEFINE T == splitTotalLines(height)
           H == splitTotalLines(h)
           lines == scaled(eventsPanelRows + 3, T, H)
<1>0. /\ height' = h /\ eventsPanelRows' = Max({lines - 3, 3})
      /\ split' = [split EXCEPT !.floored = @ \/ lines - 3 < 3]
  BY DEF resizePanels, eventsChromeLines, minPanelDataRows
<1>1. h \in Nat
  BY Constants
<1>2. T \in Nat \ {0} /\ H \in Nat /\ eventsPanelRows + 3 \in Nat /\ TypeOK
  BY <1>1, Numbers, TotalLines DEF PanelsInv
<1>21. split.height \in Nat /\ split.rows \in Nat /\ splitTotalLines(split.height) \in Nat
  BY <1>2, Numbers
<1>3. lines \in Int /\ T * lines <= (eventsPanelRows + 3) * H
  BY <1>2, ScaledShare
<1> HIDE DEF lines
<1>4. eventsPanelRows' = IF lines - 3 >= 3 THEN lines - 3 ELSE 3
  <2>1. lines - 3 \in Int /\ 3 \in Int
    BY <1>3
  <2> QED BY <1>0, <2>1, MaxOfTwo, Zenon
<1>5. eventsPanelRows' \in Nat
  BY <1>3, <1>4
<1>6. split \in [height: Heights \cup {0}, rows: Nat, floored: BOOLEAN]
  BY <1>2, TypeParts, Zenon DEF LinesTyped
<1>7. /\ split'.height = split.height /\ split'.rows = split.rows
      /\ split'.floored = (split.floored \/ lines - 3 < 3)
      /\ split' \in [height: Heights \cup {0}, rows: Nat, floored: BOOLEAN]
  BY <1>0, <1>6, Zenon
<1>8. LinesTyped'
  BY <1>0, <1>5, <1>7, Zenon DEF LinesTyped
<1>9. SplitFits'
  BY <1>7, Zenon DEF PanelsInv, SplitFits
<1>10. ShareKept'
  <2> SUFFICES ASSUME ~split'.floored
               PROVE  /\ (eventsPanelRows' + 3) * splitTotalLines(split.height) <= (split.rows + 3) * H
                      /\ H = 0 => eventsPanelRows' = split.rows
    BY <1>0, <1>7 DEF ShareKept, splitTotalLines
  <2>1. ~split.floored /\ lines - 3 >= 3
    BY <1>3, <1>7
  <2>2. eventsPanelRows' + 3 = lines
    BY <1>3, <1>4, <2>1
  <2>3. (eventsPanelRows + 3) * splitTotalLines(split.height) <= (split.rows + 3) * T
    BY <2>1, Zenon DEF PanelsInv, ShareKept
  <2>4. split.rows + 3 \in Nat
    BY <1>21
  <2> HIDE DEF T, H
  <2>5. lines * splitTotalLines(split.height) <= (split.rows + 3) * H
    BY <1>2, <1>21, <1>3, <2>3, <2>4, ShareOfShare
  <2>6. H # 0
    <3>1. ASSUME H = 0 PROVE FALSE
      <4>1. (eventsPanelRows + 3) * H = 0
        BY <1>2, <3>1
      <4>2. T * lines >= T
        BY <1>2, <1>3, <2>1
      <4> QED BY <1>2, <1>3, <4>1, <4>2
    <3> QED BY <3>1
  <2> QED BY <2>2, <2>5, <2>6
<1> QED BY <1>5, <1>8, <1>9, <1>10

(* Without a split yet, or without lines to measure its share in, the        *)
(* events panel gets the default share.                                      *)
LEMMA ResizeChooses ==
  ASSUME PanelsInv, NEW h \in Heights, resizePanels(h),
         ~(eventsPanelRows > 0 /\ splitTotalLines(height) > 0)
  PROVE  eventsPanelRows' \in Nat /\ SplitFits' /\ ShareKept' /\ LinesTyped'
<1> DEFINE H == splitTotalLines(h)
           lines == H \div 4
<1>0. /\ height' = h /\ eventsPanelRows' = Max({lines - 3, 3})
      /\ split' = chosen(h, eventsPanelRows')
  BY DEF resizePanels, eventsChromeLines, minPanelDataRows, eventsHeightFraction
<1>1. h \in Nat \ {0}
  BY Constants
<1>2. H = h - 1 /\ H \in Nat
  BY <1>1, TotalLines
<1>3. lines \in Int /\ 4 * lines <= H
  BY <1>2
<1> HIDE DEF lines
<1>4. eventsPanelRows' = IF lines - 3 >= 3 THEN lines - 3 ELSE 3
  <2>1. lines - 3 \in Int /\ 3 \in Int
    BY <1>3
  <2> QED BY <1>0, <2>1, MaxOfTwo, Zenon
<1>5. eventsPanelRows' \in Nat
  BY <1>3, <1>4
<1>6. split'.height = h /\ split'.rows = eventsPanelRows' /\ split'.floored = FALSE
  BY <1>0 DEF chosen
<1>7. LinesTyped'
  BY <1>0, <1>5 DEF LinesTyped, chosen
<1>8. SplitFits'
  <2>1. h >= 14 => eventsPanelRows' \in 3 .. h - 11
    BY <1>1, <1>2, <1>3, <1>4
  <2> QED BY <1>6, <2>1, Zenon DEF SplitFits
<1>9. ShareKept'
  <2>1. (eventsPanelRows' + 3) * H <= (eventsPanelRows' + 3) * H
    BY <1>2, <1>5
  <2> QED BY <1>0, <1>6, <2>1, Zenon DEF ShareKept, splitTotalLines
<1> QED BY <1>5, <1>7, <1>8, <1>9

LEMMA ResizeInv == ASSUME PanelsInv, NEW h \in Heights, resizePanels(h) PROVE PanelsInv'
<1>1. LinesTyped' /\ SplitFits' /\ ShareKept'
  BY ResizeKeeps, ResizeChooses, Zenon
<1>2. /\ UNCHANGED <<draggingDivider, dragRow, held, focus, zoomed>>
      /\ UNCHANGED <<events, eventsCursor, eventsWindowTop>>
      /\ slipped' = (slipped \/ draggingDivider)
  BY Zenon DEF resizePanels, feed
<1>3. FlagsTyped'
  BY <1>2, TypeParts, Zenon DEF PanelsInv, FlagsTyped
<1>4. FeedTyped'
  BY <1>2, TypeParts, Zenon DEF PanelsInv, FeedTyped
<1>5. DragHeld'
  BY <1>2, Zenon DEF DragHeld
<1> QED BY <1>1, <1>3, <1>4, <1>5, InvFrom, Zenon

-----------------------------------------------------------------------------
(* The mouse. *)

LEMMA PressInv ==
  ASSUME PanelsInv, NEW y \in MouseRows, NEW wheel \in BOOLEAN, Press(y, wheel)
  PROVE  PanelsInv'
<1>1. /\ UNCHANGED <<height, eventsPanelRows, focus, zoomed, split>>
      /\ held' = TRUE \/ held' = held
      /\ UNCHANGED <<events, eventsCursor, eventsWindowTop>>
      /\ \/ ~zoomed /\ y = dividerRow /\ draggingDivider' = TRUE /\ dragRow' = y /\ slipped' = ~held'
         \/ UNCHANGED <<draggingDivider, dragRow, slipped>>
  BY Zenon DEF Press, feed
<1>2. LinesTyped' /\ FeedTyped' /\ SplitFits' /\ ShareKept'
  BY <1>1, TypeParts, Zenon DEF PanelsInv, LinesTyped, FeedTyped, SplitFits, ShareKept, splitTotalLines
<1>3. held' \in BOOLEAN /\ (~held') \in BOOLEAN
  BY <1>1, TypeParts, Zenon DEF PanelsInv, FlagsTyped
<1>4. FlagsTyped'
  BY <1>1, <1>3, TypeParts, Zenon DEF PanelsInv, FlagsTyped
<1>5. DragHeld'
  <2>1. CASE ~zoomed /\ y = dividerRow /\ dragRow' = y /\ slipped' = ~held'
    <3>1. height \in Nat /\ eventsPanelRows \in Nat
      BY Numbers DEF PanelsInv
    <3>2. height > 0 => 3 + ConnRows(height, eventsPanelRows) = dragRow'
      BY <2>1, <3>1, DividerIs
    <3>3. ~slipped' => held'
      BY <1>3, <2>1, Zenon
    <3> QED BY <1>1, <3>2, <3>3, Zenon DEF DragHeld
  <2>2. CASE UNCHANGED <<draggingDivider, dragRow, slipped>>
    <3>1. held => held'
      BY <1>1, Zenon
    <3>2. draggingDivider' = draggingDivider /\ dragRow' = dragRow /\ slipped' = slipped
          /\ height' = height /\ eventsPanelRows' = eventsPanelRows
      BY <1>1, <2>2, Zenon
    <3>3. draggingDivider' /\ ~slipped' => draggingDivider /\ ~slipped
      BY <3>2, Zenon
    <3> QED BY <3>1, <3>2, <3>3, Zenon DEF PanelsInv, DragHeld
  <2> QED BY <1>1, <2>1, <2>2, Zenon
<1> QED BY <1>2, <1>4, <1>5, InvFrom, Zenon

LEMMA ReleaseInv == ASSUME PanelsInv, Release PROVE PanelsInv'
<1>1. /\ UNCHANGED <<height, eventsPanelRows, dragRow, focus, zoomed, split>> /\ held' = FALSE
      /\ UNCHANGED <<events, eventsCursor, eventsWindowTop>>
      /\ draggingDivider' = (draggingDivider /\ zoomed) /\ slipped' = (slipped \/ draggingDivider')
  BY Zenon DEF Release, feed
<1>2. LinesTyped' /\ FeedTyped' /\ SplitFits' /\ ShareKept'
  BY <1>1, TypeParts, Zenon DEF PanelsInv, LinesTyped, FeedTyped, SplitFits, ShareKept, splitTotalLines
<1>3. FlagsTyped'
  BY <1>1, TypeParts, Zenon DEF PanelsInv, FlagsTyped
<1>4. DragHeld'
  BY <1>1, Zenon DEF DragHeld
<1> QED BY <1>2, <1>3, <1>4, InvFrom, Zenon

(* The rows a drag gives the events panel fit the terminal. *)
LEMMA DraggedRows ==
  ASSUME height \in Nat, eventsPanelRows \in Nat, NEW delta \in Int, adjustEventsPanelRows(delta)
  PROVE  /\ eventsPanelRows' \in Nat /\ eventsPanelRows' >= 3
         /\ eventsPanelRows' <= IF height >= 14 THEN height - 11 ELSE 3
<1> DEFINE T == splitTotalLines(height)
           most == Max({T - 4 - 3 - 3, 3})
<1>1. T \in Nat /\ T = IF height = 0 THEN 0 ELSE height - 1
  BY TotalLines
<1>2. most = IF height >= 14 THEN height - 11 ELSE 3
  <2>1. T - 4 - 3 - 3 \in Int /\ 3 \in Int
    BY <1>1
  <2>2. most = IF T - 4 - 3 - 3 >= 3 THEN T - 4 - 3 - 3 ELSE 3
    BY <2>1, MaxOfTwo, Zenon
  <2> HIDE DEF T, most
  <2> QED BY <1>1, <2>2
<1>3. eventsPanelRows' = clamp(eventsPanelRows + delta, 3, most)
  BY Zenon DEF adjustEventsPanelRows, connChromeLines, eventsChromeLines, minPanelDataRows
<1> HIDE DEF most
<1>4. most \in Int /\ 3 <= most
  BY <1>2
<1>5. eventsPanelRows + delta \in Int /\ 3 \in Int
  OBVIOUS
<1>6. eventsPanelRows' \in 3 .. most
  BY <1>3, <1>4, <1>5, Clamped
<1> QED BY <1>2, <1>6

(* The border moves as the pointer does: while the split drawn is the split  *)
(* kept and no minimum is met, one row gained by one panel is lost by the    *)
(* other.                                                                    *)
LEMMA BorderMoves ==
  ASSUME NEW h \in Nat, NEW rows \in Nat, NEW new \in Nat, NEW from \in Int, NEW to \in Int,
         EventRows(h, rows) = rows, new >= 3, new <= IF h >= 14 THEN h - 11 ELSE 3,
         new = rows + (from - to), 3 + ConnRows(h, rows) = from
  PROVE  3 + ConnRows(h, new) = to
BY DEF ConnRows, EventRows

LEMMA MotionInv == ASSUME PanelsInv, NEW y \in MouseRows, Motion(y) PROVE PanelsInv'
<1>1. /\ UNCHANGED <<height, draggingDivider, held, focus, zoomed>> /\ held /\ ~zoomed /\ dragRow' = y
      /\ UNCHANGED <<events, eventsCursor, eventsWindowTop>>
      /\ adjustEventsPanelRows(dragRow - y) /\ split' = chosen(height, eventsPanelRows')
      /\ slipped' = (slipped \/ layout.events # eventsPanelRows
                         \/ eventsPanelRows' # eventsPanelRows + dragRow - y)
  BY Zenon DEF Motion, feed
<1>2. TypeOK /\ height \in Nat /\ eventsPanelRows \in Nat /\ dragRow \in Nat /\ y \in Nat
      /\ splitTotalLines(height) \in Nat
  BY Numbers, Constants DEF PanelsInv
<1>3. /\ eventsPanelRows' \in Nat /\ eventsPanelRows' >= 3
      /\ eventsPanelRows' <= IF height >= 14 THEN height - 11 ELSE 3
  <2>1. dragRow - y \in Int
    BY <1>2
  <2> QED BY <1>1, <1>2, <2>1, DraggedRows
<1>4. split'.height = height /\ split'.rows = eventsPanelRows' /\ split'.floored = FALSE
  BY <1>1 DEF chosen
<1>5. LinesTyped'
  <2>1. height \in Heights \cup {0}
    BY <1>2, TypeParts, Zenon DEF LinesTyped
  <2> QED BY <1>1, <1>3, <2>1 DEF LinesTyped, chosen
<1>6. SplitFits'
  <2>1. height >= 14 => eventsPanelRows' \in 3 .. height - 11
    BY <1>2, <1>3
  <2> QED BY <1>4, <2>1, Zenon DEF SplitFits
<1>7. ShareKept'
  <2>1. (eventsPanelRows' + 3) * splitTotalLines(height) <= (eventsPanelRows' + 3) * splitTotalLines(height)
    BY <1>2, <1>3
  <2> QED BY <1>1, <1>4, <2>1, Zenon DEF ShareKept, splitTotalLines
<1>8. FlagsTyped'
  BY <1>1, TypeParts, Zenon DEF PanelsInv, FlagsTyped
<1>9. FeedTyped'
  BY <1>1, TypeParts, Zenon DEF PanelsInv, FeedTyped
<1>10. DragHeld'
  <2> SUFFICES ASSUME draggingDivider, ~slipped', height > 0
               PROVE  3 + ConnRows(height, eventsPanelRows') = y
    BY <1>1, Zenon DEF DragHeld
  <2>1. ~slipped /\ layout.events = eventsPanelRows /\ eventsPanelRows' = eventsPanelRows + dragRow - y
    BY <1>1, Zenon
  <2>2. 3 + ConnRows(height, eventsPanelRows) = dragRow
    BY <2>1, Zenon DEF PanelsInv, DragHeld
  <2>3. EventRows(height, eventsPanelRows) = eventsPanelRows
    BY <1>1, <1>2, <2>1, LayoutIs
  <2>4. eventsPanelRows' = eventsPanelRows + (dragRow - y) /\ dragRow \in Int /\ y \in Int
    BY <1>2, <2>1
  <2> QED BY <1>2, <1>3, <2>2, <2>3, <2>4, BorderMoves
<1> QED BY <1>5, <1>6, <1>7, <1>8, <1>9, <1>10, InvFrom, Zenon

-----------------------------------------------------------------------------
(* The events panel. *)

LEMMA WindowType ==
  ASSUME NEW prev \in Int, NEW n \in Nat, n <= eventRingCapacity, NEW limit \in Int, NEW cur \in Int,
         n = 0 \/ cur \in 0 .. n - 1
  PROVE  eventsWindowStart(prev, cur, n, limit) \in 0 .. eventRingCapacity
<1>0. eventRingCapacity \in Nat
  BY Constants
<1>1. CASE limit <= 0 \/ n <= limit
  <2>1. eventsWindowStart(prev, cur, n, limit) = 0
    BY <1>1 DEF eventsWindowStart
  <2> QED BY <1>0, <2>1
<1>2. CASE limit > 0 /\ n > limit
  <2>1. cur \in 0 .. n - 1
    BY <1>2
  <2>2. eventsWindowStart(prev, cur, n, limit) \in 0 .. n - limit
    BY <1>2, <2>1, WindowShows
  <2> QED BY <1>0, <1>2, <2>2
<1> QED BY <1>1, <1>2

(* The facts about the feed as numbers. *)
LEMMA FeedNumbers ==
  ASSUME TypeOK
  PROVE  /\ events \in Seq(1 .. MaxEvents) /\ Len(events) \in Nat /\ Len(events) <= eventRingCapacity
         /\ eventsCursor \in Nat /\ eventsWindowTop \in Int
         /\ events # << >> => Len(events) > 0 /\ eventsCursor \in 0 .. Len(events) - 1
         /\ layout.events \in Int /\ layout.conn \in Int
<1>1. FeedTyped
  BY TypeParts
<1>2. layout.events \in Int /\ layout.conn \in Int
  BY Numbers, LayoutType
<1>3. events \in Seq(1 .. MaxEvents) /\ Len(events) <= eventRingCapacity
  BY <1>1, Zenon DEF FeedTyped
<1>4. eventsCursor \in Nat /\ eventsWindowTop \in Int
  BY <1>1, Constants DEF FeedTyped
<1>5. events # << >> => Len(events) > 0 /\ eventsCursor \in 0 .. Len(events) - 1
  BY <1>1 DEF FeedTyped
<1> QED BY <1>2, <1>3, <1>4, <1>5

(* A step that changes only the feed. *)
LEMMA FeedStep ==
  ASSUME PanelsInv, UNCHANGED <<height, eventsPanelRows, divider, focus, zoomed, split>>, FeedTyped'
  PROVE  PanelsInv'
<1>1. UNCHANGED <<height, eventsPanelRows, divider, split>>
  OBVIOUS
<1>2. FlagsTyped'
  BY TypeParts, Zenon DEF PanelsInv, FlagsTyped, divider
<1> QED BY <1>1, <1>2, SplitStays, InvFrom, Zenon

LEMMA MoveInv == ASSUME PanelsInv, NEW d \in moves, moveEventsCursor(d) PROVE PanelsInv'
<1> DEFINE n == Len(events)
<1>1. /\ UNCHANGED <<height, eventsPanelRows, divider, focus, zoomed, split>> /\ events' = events
      /\ eventsCursor' = IF n = 0 THEN 0 ELSE clamp(eventsCursor + d, 0, n - 1)
      /\ eventsWindowTop' = IF n = 0 THEN 0
                            ELSE eventsWindowStart(eventsWindowTop, eventsCursor', n, layout.events)
  BY Zenon DEF moveEventsCursor
<1>2. TypeOK
  BY DEF PanelsInv
<1>3. /\ events \in Seq(1 .. MaxEvents) /\ n \in Nat /\ n <= eventRingCapacity
      /\ eventsCursor \in Nat /\ eventsWindowTop \in Int
      /\ layout.events \in Int /\ layout.conn \in Int
  BY <1>2, FeedNumbers, Zenon
<1>4. d \in Int
  BY <1>3 DEF moves, pageSize, defaultPageSize
<1>5. CASE n = 0
  <2>1. events = << >> /\ 0 \in 0 .. eventRingCapacity
    BY <1>3, <1>5, Constants
  <2> QED BY <1>1, <1>3, <1>5, <2>1, FeedStep, Zenon DEF FeedTyped
<1>6. CASE n > 0
  <2>1. eventsCursor' \in 0 .. n - 1
    <3>1. eventsCursor' = clamp(eventsCursor + d, 0, n - 1)
      BY <1>1, <1>6
    <3>2. eventsCursor + d \in Int /\ 0 \in Int /\ n - 1 \in Int /\ 0 <= n - 1
      BY <1>3, <1>4, <1>6
    <3> HIDE DEF n
    <3> QED BY <3>1, <3>2, Clamped
  <2>2. eventsWindowTop' \in 0 .. eventRingCapacity
    <3>1. eventsCursor' \in Int
      BY <2>1
    <3>2. eventsWindowTop' = eventsWindowStart(eventsWindowTop, eventsCursor', n, layout.events)
      BY <1>1, <1>6
    <3> QED BY <1>3, <2>1, <3>1, <3>2, WindowType
  <2>3. events # << >>
    BY <1>6
  <2> QED BY <1>1, <1>3, <2>1, <2>2, <2>3, FeedStep, Zenon DEF FeedTyped
<1> QED BY <1>3, <1>5, <1>6

(* The end of a sequence, and its last element. *)
LEMMA SuffixType ==
  ASSUME NEW S, NEW s \in Seq(S), NEW a \in Nat \ {0}
  PROVE  SubSeq(s, a, Len(s)) \in Seq(S)
OBVIOUS

LEMMA LastType ==
  ASSUME NEW S, NEW s \in Seq(S), s # << >>
  PROVE  s[Len(s)] \in S
OBVIOUS

(* The ring after a batch. *)
LEMMA Pushed ==
  ASSUME NEW s \in Seq(1 .. MaxEvents), NEW batch \in Seq(1 .. MaxEvents), Len(s) <= eventRingCapacity
  PROVE  /\ push(s, batch) \in Seq(1 .. MaxEvents)
         /\ Len(push(s, batch)) \in Nat
         /\ Len(push(s, batch)) <= eventRingCapacity /\ Len(push(s, batch)) >= Len(s)
<1> DEFINE all == s \o batch
           first == Max({1, Len(all) - eventRingCapacity + 1})
<1>1. all \in Seq(1 .. MaxEvents) /\ Len(all) \in Nat /\ Len(all) >= Len(s) /\ Len(s) \in Nat
  OBVIOUS
<1>2. push(s, batch) = SubSeq(all, first, Len(all))
  BY Zenon DEF push
<1>3. eventRingCapacity \in Nat \ {0}
  BY Constants
<1> HIDE DEF all
<1>4. first = IF Len(all) - eventRingCapacity + 1 > 1 THEN Len(all) - eventRingCapacity + 1 ELSE 1
  <2>1. Len(all) - eventRingCapacity + 1 \in Int /\ 1 \in Int
    BY <1>1, <1>3
  <2>2. first = IF 1 >= Len(all) - eventRingCapacity + 1 THEN 1 ELSE Len(all) - eventRingCapacity + 1
    BY <2>1, MaxOfTwo, Zenon
  <2> HIDE DEF first
  <2> QED BY <2>1, <2>2
<1> HIDE DEF first
<1>5. first \in Nat \ {0}
  BY <1>1, <1>3, <1>4
<1>6. SubSeq(all, first, Len(all)) \in Seq(1 .. MaxEvents)
  BY <1>1, <1>5, SuffixType, Zenon
<1>7. Len(SubSeq(all, first, Len(all))) = IF first <= Len(all) THEN Len(all) - first + 1 ELSE 0
  BY <1>1, <1>5
<1>8. Len(SubSeq(all, first, Len(all))) <= eventRingCapacity /\ Len(SubSeq(all, first, Len(all))) >= Len(s)
  BY <1>1, <1>3, <1>4, <1>5, <1>7
<1> QED BY <1>2, <1>6, <1>8

LEMMA AppendInv == ASSUME PanelsInv, NEW n \in 0 .. MaxBatch, appendEvents(n) PROVE PanelsInv'
<1> DEFINE ring == push(events, batchOf(n))
<1>1. /\ UNCHANGED <<height, eventsPanelRows, divider, focus, zoomed, split>> /\ events' = ring
      /\ seen + n <= MaxEvents
      /\ eventsCursor' = IF (events = << >> \/ eventsCursor = Len(events) - 1) /\ ring # << >>
                         THEN Len(ring) - 1 ELSE eventsCursor
      /\ eventsWindowTop' = eventsWindowStart(eventsWindowTop, eventsCursor', Len(ring), layout.events)
  BY Zenon DEF appendEvents
<1>2. TypeOK /\ FeedTyped
  BY TypeParts DEF PanelsInv
<1>3. /\ events \in Seq(1 .. MaxEvents) /\ Len(events) \in Nat /\ Len(events) <= eventRingCapacity
      /\ eventsCursor \in Nat /\ eventsWindowTop \in Int /\ layout.events \in Int
      /\ events # << >> => Len(events) > 0 /\ eventsCursor \in 0 .. Len(events) - 1
  BY <1>2, FeedNumbers, Zenon
<1>4. seen \in 0 .. MaxEvents
  <2>1. CASE events = << >>
    BY <2>1, Constants DEF seen
  <2>2. CASE events # << >>
    <3>1. events[Len(events)] \in 1 .. MaxEvents
      BY <1>3, <2>2, LastType, Zenon
    <3> QED BY <2>2, <3>1 DEF seen, Last
  <2> QED BY <2>1, <2>2
<1>5. batchOf(n) \in Seq(1 .. MaxEvents)
  <2>1. n \in Nat /\ \A i \in 1 .. n : seen + i \in 1 .. MaxEvents
    BY <1>1, <1>4, Constants
  <2> QED BY <2>1 DEF batchOf
<1>6. /\ ring \in Seq(1 .. MaxEvents) /\ Len(ring) \in Nat
      /\ Len(ring) <= eventRingCapacity /\ Len(ring) >= Len(events)
  BY <1>3, <1>5, Pushed
<1> HIDE DEF ring
<1>7. IF ring = << >> THEN eventsCursor' = 0 ELSE eventsCursor' \in 0 .. Len(ring) - 1
  <2>1. CASE ring = << >>
    <3>1. Len(events) = 0
      BY <1>3, <1>6, <2>1
    <3>2. events = << >>
      BY <1>3, <3>1
    <3>3. eventsCursor = 0
      BY <1>2, <3>2, Zenon DEF FeedTyped
    <3> QED BY <1>1, <2>1, <3>3
  <2>2. CASE ring # << >>
    <3>1. Len(ring) > 0
      BY <1>6, <2>2
    <3> QED BY <1>1, <1>3, <1>6, <2>2, <3>1
  <2> QED BY <2>1, <2>2
<1>8. eventsWindowTop' \in 0 .. eventRingCapacity
  <2>1. eventsCursor' \in Int /\ (Len(ring) = 0 \/ eventsCursor' \in 0 .. Len(ring) - 1)
    BY <1>6, <1>7
  <2> QED BY <1>1, <1>3, <1>6, <2>1, WindowType
<1>9. FeedTyped'
  BY <1>1, <1>6, <1>7, <1>8, Zenon DEF FeedTyped
<1> QED BY <1>1, <1>9, FeedStep, Zenon

-----------------------------------------------------------------------------
(* The invariant of the panels. *)
THEOREM PanelsInvariance == Spec => []PanelsInv
<1>1. Init => PanelsInv
  BY InitInv
<1>2. PanelsInv /\ [Next]_vars => PanelsInv'
  <2> SUFFICES ASSUME PanelsInv, [Next]_vars PROVE PanelsInv'
    OBVIOUS
  <2>1. CASE UNCHANGED vars
    <3>1. /\ UNCHANGED <<height, eventsPanelRows, divider, focus, zoomed, split>>
          /\ UNCHANGED <<events, eventsCursor, eventsWindowTop>>
      BY <2>1, Zenon DEF vars, feed
    <3>2. FeedTyped'
      BY <3>1, TypeParts, Zenon DEF PanelsInv, FeedTyped
    <3> QED BY <3>1, <3>2, FeedStep, Zenon
  <2> QED BY <2>1, ResizeInv, PressInv, MotionInv, ReleaseInv, FocusInv, MoveInv, AppendInv, Zenon DEF Next
<1> QED BY <1>1, <1>2, PTL DEF Spec

(* In any terminal tall enough for both minimums the panels, their chrome    *)
(* and the footer fill it to the line and neither is below its minimum,      *)
(* whatever split was chosen, dragged or scaled before (layout).             *)
THEOREM FrameIsFull == Spec => []FrameFills
<1>1. PanelsInv => FrameFills
  <2> SUFFICES ASSUME PanelsInv, height >= 14
               PROVE  IF zoomed
                      THEN layout.conn + layout.events + (IF focus = "events" THEN 3 ELSE 4) + 1 = height
                      ELSE /\ layout.conn + 4 + layout.events + 3 + 1 = height
                           /\ layout.conn >= 3 /\ layout.events >= 3
    BY DEF FrameFills, connChromeLines, eventsChromeLines, minPanelDataRows
  <2>1. height \in Nat /\ height # 0 /\ eventsPanelRows \in Nat
    BY Numbers DEF PanelsInv
  <2>2. CASE zoomed
    BY <2>1, <2>2, LayoutIs
  <2>3. CASE ~zoomed
    <3>1. layout.conn = ConnRows(height, eventsPanelRows) /\ layout.events = EventRows(height, eventsPanelRows)
      BY <2>1, <2>3, LayoutIs
    <3>2. /\ ConnRows(height, eventsPanelRows) + 4 + EventRows(height, eventsPanelRows) + 3 + 1 = height
          /\ ConnRows(height, eventsPanelRows) >= 3 /\ EventRows(height, eventsPanelRows) >= 3
      BY <2>1 DEF ConnRows, EventRows
    <3> QED BY <2>3, <3>1, <3>2
  <2> QED BY <2>2, <2>3
<1> QED BY <1>1, PanelsInvariance, PTL

(* The border that is dragged is under the pointer (handleMouse), whatever   *)
(* the wheel did meanwhile, the split chosen is the split drawn, and no      *)
(* sequence of resizes, however its products are rounded, gives the events   *)
(* panel more rows than were chosen (resizePanels).                          *)
THEOREM SplitStaysTheUsers == Spec => []SplitIsTheUsers
<1>1. PanelsInv => DragFollowsPointer
  <2> SUFFICES ASSUME PanelsInv PROVE DragFollowsPointer
    OBVIOUS
  <2>1. /\ height \in Nat /\ eventsPanelRows \in Nat /\ dragRow \in Nat
    BY Numbers DEF PanelsInv
  <2>2. ASSUME height = split.height, eventsPanelRows = split.rows, ~zoomed, height >= 14
        PROVE  layout.events = eventsPanelRows
    <3>1. eventsPanelRows \in 3 .. height - 11
      BY <2>2, Zenon DEF PanelsInv, SplitFits
    <3>2. layout.events = EventRows(height, eventsPanelRows)
      BY <2>1, <2>2, LayoutIs
    <3> QED BY <2>1, <2>2, <3>1, <3>2 DEF EventRows
  <2>3. ASSUME draggingDivider, ~slipped PROVE held /\ (height > 0 /\ ~zoomed => dividerRow = dragRow)
    <3>1. held /\ (height > 0 => 3 + ConnRows(height, eventsPanelRows) = dragRow)
      BY <2>3, Zenon DEF PanelsInv, DragHeld
    <3>2. ASSUME height > 0, ~zoomed PROVE dividerRow = 3 + ConnRows(height, eventsPanelRows)
      BY <2>1, <3>2, DividerIs
    <3> QED BY <3>1, <3>2, Zenon
  <2>4. connChromeLines + eventsChromeLines + 2 * minPanelDataRows + 1 = 14
    BY DEF connChromeLines, eventsChromeLines, minPanelDataRows
  <2> QED BY <2>2, <2>3, <2>4, Zenon DEF DragFollowsPointer
<1>2. PanelsInv => SplitNeverGrows
  <2> SUFFICES ASSUME PanelsInv, height = split.height, ~split.floored
               PROVE  eventsPanelRows <= split.rows
    BY DEF SplitNeverGrows
  <2>1. TypeOK /\ eventsPanelRows \in Nat /\ split.rows \in Nat /\ splitTotalLines(height) \in Nat
    BY Numbers DEF PanelsInv
  <2>2. CASE splitTotalLines(height) = 0
    BY <2>1, <2>2 DEF PanelsInv, ShareKept
  <2>3. CASE splitTotalLines(height) # 0
    <3>1. PICK T \in Nat \ {0} : T = splitTotalLines(height)
      BY <2>1, <2>3
    <3>2. (eventsPanelRows + 3) * T <= (split.rows + 3) * T
      BY <3>1, Zenon DEF PanelsInv, ShareKept
    <3>3. T * (eventsPanelRows + 3) <= T * (split.rows + 3)
      BY <2>1, <3>2
    <3>4. eventsPanelRows + 3 \in Int /\ split.rows + 3 \in Int
      BY <2>1
    <3>5. eventsPanelRows + 3 <= split.rows + 3
      BY <3>3, <3>4, Cancel
    <3> QED BY <2>1, <3>5
  <2> QED BY <2>2, <2>3
<1>3. PanelsInv => SplitIsTheUsers
  BY <1>1, <1>2 DEF SplitIsTheUsers
<1> QED BY <1>3, PanelsInvariance, PTL

(* The selected event is in the window that is drawn, whatever came between  *)
(* the key that moved the window and the frame (eventsVisibleWindow).        *)
THEOREM CursorIsShown == Spec => []EventsCursorShown
<1>1. PanelsInv => EventsCursorShown
  <2> SUFFICES ASSUME PanelsInv, events # << >>
               PROVE  /\ eventsVisibleWindow.start <= eventsCursor
                      /\ eventsCursor < eventsVisibleWindow.end
                      /\ eventsVisibleWindow.end <= Len(events)
    BY DEF EventsCursorShown
  <2>1. PICK n \in Nat : n = Len(events)
    BY FeedNumbers DEF PanelsInv
  <2>2. PICK limit \in Int : limit = layout.events
    BY FeedNumbers DEF PanelsInv
  <2>3. eventsCursor \in 0 .. n - 1 /\ eventsWindowTop \in Int
    BY <2>1, FeedNumbers DEF PanelsInv
  <2> DEFINE start == eventsWindowStart(eventsWindowTop, eventsCursor, n, limit)
  <2>4. eventsVisibleWindow = IF limit <= 0 \/ n <= limit THEN [start |-> 0, end |-> n]
                              ELSE [start |-> start, end |-> start + limit]
    BY <2>1, <2>2, Zenon DEF eventsVisibleWindow
  <2>5. CASE limit <= 0 \/ n <= limit
    BY <2>1, <2>3, <2>4, <2>5
  <2>6. CASE limit > 0 /\ n > limit
    <3>1. start \in 0 .. n - limit /\ start <= eventsCursor /\ eventsCursor < start + limit
      BY <2>3, <2>6, WindowShows
    <3>2. eventsVisibleWindow.start = start /\ eventsVisibleWindow.end = start + limit
      BY <2>4, <2>6
    <3> HIDE DEF start
    <3> QED BY <2>1, <3>1, <3>2
  <2> QED BY <2>5, <2>6
<1> QED BY <1>1, PanelsInvariance, PTL
=============================================================================
