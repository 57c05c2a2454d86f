---------------------------- MODULE HistoryList ----------------------------
(***************************************************************************)
(* The horizontal list that shows the history of a game                    *)
(* (HorizontalListView.java, filled by the adapter of ScoreActivity.java). *)
(* It keeps views only for the rows near its window and lays them out      *)
(* afresh whenever a layout was requested: by a change of the history, by  *)
(* a finger, or by a fling that is not over.  Everything runs on the UI    *)
(* thread, but a layout comes at the next frame: the history may have      *)
(* changed, the finger moved and the fling gone on since the last one.     *)
(*                                                                         *)
(* Distances are in units of the model.  A row is as wide as its texts, so *)
(* the history is the sequence of the widths of its events.  The title of  *)
(* the other team that a recycled row keeps is not in the model.           *)
(***************************************************************************)
EXTENDS SeqFolds, SequencesExt

CONSTANTS
    Window,     \* getWidth(): the width of the list on the screen
    Widths,     \* the widths getView may give a row
    Drags,      \* the distances a finger may have moved between two events
    MaxCount,   \* bound: events in the history
    MaxPlace    \* bound: how far the finger or a fling may take the list

ASSUME HistoryListAssumption ==
    /\ Window \in Nat \ {0}
    /\ Widths \subseteq 1 .. Window     \* measured AT_MOST getWidth()
    /\ Widths # {}
    /\ Drags \subseteq Int
    /\ MaxCount \in Nat \ {0}
    /\ MaxPlace \in Nat

VARIABLES
    events,         \* babyEvents: the width of the row of each event
    rows,           \* the children: the item each shows, its left edge, width
    leftIndex,      \* mLeftViewIndex: the item before the first child
    rightIndex,     \* mRightViewIndex: the item after the last child
    displayOffset,  \* mDisplayOffset
    removed,        \* mRemovedViewQueue: the left edges the queued views keep
    currentX,       \* mCurrentX: the place the children are laid out for
    nextX,          \* mNextX: the place the next layout goes to
    maxX,           \* mMaxX
    dataChanged,    \* mDataChanged
    scroller,       \* mScroller: running, the place it is at and goes to
    requested,      \* a layout is requested and has not happened
    cut             \* history: maxX was computed with no child left

vars == <<events, rows, leftIndex, rightIndex, displayOffset, removed, currentX,
          nextX, maxX, dataChanged, scroller, requested, cut>>

children == <<rows, leftIndex, rightIndex, displayOffset, removed, currentX, maxX, cut>>

Unbounded == 2147483647     \* Integer.MAX_VALUE
Stopped == [running |-> FALSE, at |-> 0, to |-> 0]

RightOf(row) == row.left + row.width
AtLeast0(x) == IF x < 0 THEN 0 ELSE x

-----------------------------------------------------------------------------

(* The screen has been created: setAdapter reset the list, and the START   *)
(* of the first game has changed the history since.                        *)
Init ==
    /\ events \in {<<w>> : w \in Widths}
    /\ rows = <<>>
    /\ leftIndex = -1
    /\ rightIndex = 0
    /\ displayOffset = 0
    /\ removed = <<>>
    /\ currentX = 0
    /\ nextX = 0
    /\ maxX = Unbounded
    /\ dataChanged = TRUE
    /\ scroller = Stopped
    /\ requested = TRUE
    /\ cut = FALSE

(* notifyDataSetChanged after an event was added, the last one was taken   *)
(* back, or a new game cleared the history and added its START.            *)
HistoryChanges ==
    /\ \/ \E w \in Widths : events' \in {Append(events, w), <<w>>}
       \/ events' = Front(events)
    /\ Len(events') \in 1 .. MaxCount
    /\ dataChanged' = TRUE
    /\ requested' = TRUE
    /\ UNCHANGED <<children, nextX, scroller>>

(* onDown: the finger stops the fling.                                     *)
Down ==
    /\ scroller.running
    /\ scroller' = Stopped
    /\ UNCHANGED <<events, children, nextX, dataChanged, requested>>

(* onScroll: the finger, which stopped the list when it came down, moved.  *)
(* Several moves may come before a layout.                                 *)
Drag ==
    /\ ~scroller.running
    /\ \E d \in Drags :
          /\ nextX + d \in -Window .. MaxPlace
          /\ nextX' = nextX + d
    /\ requested' = TRUE
    /\ UNCHANGED <<events, children, dataChanged, scroller>>

(* onFling: the scroller will end somewhere in 0 .. mMaxX.                 *)
Fling ==
    /\ ~scroller.running
    /\ \E to \in 0 .. MaxPlace :
          /\ to <= maxX
          /\ scroller' = [running |-> TRUE, at |-> nextX, to |-> to]
    /\ requested' = TRUE
    /\ UNCHANGED <<events, children, nextX, dataChanged>>

-----------------------------------------------------------------------------
(* The list as the loops of onLayout change it: edge is the edge the fill  *)
(* loops have reached.                                                     *)
Views == [rows : Seq([item : Int, left : Int, width : Int]), left : Int, right : Int,
          offset : Int, queue : Seq(Int), max : Int, edge : Int]

(* removeNonVisibleItems: the rows that leave the window on the left, then *)
(* the ones that leave it on the right, are queued for recycling.  A loop  *)
(* is its round repeated often enough: a round does nothing once the       *)
(* condition of the loop fails.                                            *)
DropFirst(v, dx) ==
    IF v.rows = <<>> \/ RightOf(Head(v.rows)) + dx > 0 THEN v
    ELSE [v EXCEPT !.offset = @ + Head(v.rows).width,
                   !.queue = Append(@, Head(v.rows).left),
                   !.rows = Tail(@),
                   !.left = @ + 1]
DropLeft(v, dx) == Repeat([u \in Views |-> DropFirst(u, dx)], v, Len(v.rows))

DropLast(v, dx) ==
    IF v.rows = <<>> \/ Last(v.rows).left + dx < Window THEN v
    ELSE [v EXCEPT !.queue = Append(@, Last(v.rows).left),
                   !.rows = Front(@),
                   !.right = @ - 1]
DropRight(v, dx) == Repeat([u \in Views |-> DropLast(u, dx)], v, Len(v.rows))

(* getView and addAndMeasureChild: a recycled view keeps the place it had, *)
(* a new one stands at 0, until positionItems.                             *)
Child(queue, item) ==
    [item |-> item, width |-> events[item + 1],
     left |-> IF queue = <<>> THEN 0 ELSE Head(queue)]
Poll(queue) == IF queue = <<>> THEN queue ELSE Tail(queue)

(* fillListRight: x is mCurrentX.                                          *)
AddRight(v, dx, x) ==
    IF v.edge + dx >= Window \/ v.right >= Len(events) THEN v
    ELSE LET child == Child(v.queue, v.right)
             end == v.edge + child.width
             max == IF v.right = Len(events) - 1 THEN x + end - Window ELSE v.max
         IN  [v EXCEPT !.rows = Append(@, child),
                       !.queue = Poll(@),
                       !.max = AtLeast0(max),
                       !.right = @ + 1,
                       !.edge = end]
FillRight(v, dx, x) ==
    Repeat([u \in Views |-> AddRight(u, dx, x)], v, Len(events))

(* fillListLeft.                                                           *)
AddLeft(v, dx) ==
    IF v.edge + dx <= 0 \/ v.left < 0 THEN v
    ELSE LET child == Child(v.queue, v.left)
         IN  [v EXCEPT !.rows = <<child>> \o @,
                       !.queue = Poll(@),
                       !.left = @ - 1,
                       !.offset = @ - child.width,
                       !.edge = @ - child.width]
FillLeft(v, dx) == Repeat([u \in Views |-> AddLeft(u, dx)], v, Len(events))

(* fillList: each loop starts at the edge of the children there are then,  *)
(* and at 0 when there is none.                                            *)
AtRightEdge(v) ==
    [v EXCEPT !.edge = IF v.rows = <<>> THEN 0 ELSE RightOf(Last(v.rows))]
AtLeftEdge(v) ==
    [v EXCEPT !.edge = IF v.rows = <<>> THEN 0 ELSE Head(v.rows).left]
FillList(v, dx, x) == FillLeft(AtLeftEdge(FillRight(AtRightEdge(v), dx, x)), dx)

(* positionItems: the children side by side from the offset on.            *)
WidthOf(views, n) == Total([k \in 1 .. n |-> views[k].width])
Place(v, dx) ==
    LET first == v.offset + dx
    IN  IF v.rows = <<>> THEN v
        ELSE [v EXCEPT !.offset = first,
                       !.rows = [k \in DOMAIN v.rows |->
                                    [v.rows[k] EXCEPT !.left = first + WidthOf(v.rows, k - 1)]]]

(* The list as the last layout left it.                                    *)
Kept ==
    [rows |-> rows, left |-> leftIndex, right |-> rightIndex,
     offset |-> displayOffset, queue |-> removed, max |-> maxX, edge |-> 0]

\* Mutant: the end outlives the change.
ResetKeepsEnd ==
    [rows |-> <<>>, left |-> -1, right |-> 0,
     offset |-> 0, queue |-> removed, max |-> maxX, edge |-> 0]

\* Mutant: the offset does.
ResetKeepsOffset ==
    [rows |-> <<>>, left |-> -1, right |-> 0,
     offset |-> displayOffset, queue |-> removed, max |-> Unbounded, edge |-> 0]

(* initView and removeAllViewsInLayout: no child, and the end unknown.     *)
Reset ==
    [rows |-> <<>>, left |-> -1, right |-> 0,
     offset |-> 0, queue |-> removed, max |-> Unbounded, edge |-> 0]

(* computeScrollOffset: a running scroller has come some way to its end.   *)
Scrolled(s) ==
    {[s EXCEPT !.at = x, !.running = x # s.to] :
        x \in (s.at .. s.to) \cup (s.to .. s.at)}

(* The place to go to, clamped to the ends that are known.                 *)
Clamped(x, max) == IF x <= 0 THEN 0 ELSE IF x >= max THEN max ELSE x

(* onLayout.                                                               *)
Layout ==
    /\ requested
    /\ LET v == IF dataChanged THEN Reset ELSE Kept
           x == IF dataChanged THEN 0 ELSE currentX
       IN  \E s \in IF scroller.running /\ ~dataChanged
                      THEN Scrolled(scroller) ELSE {Stopped} :
             LET asked == IF dataChanged THEN currentX
                          ELSE IF scroller.running THEN s.at ELSE nextX
                 next == Clamped(asked, v.max)
                 dx == x - next
                 seen == DropRight(DropLeft(v, dx), dx)
                 p == Place(FillList(seen, dx, x), dx)
             IN  /\ rows' = p.rows
                 /\ leftIndex' = p.left
                 /\ rightIndex' = p.right
                 /\ displayOffset' = p.offset
                 /\ removed' = p.queue
                 /\ maxX' = p.max
                 /\ currentX' = next
                 /\ nextX' = next
                 /\ scroller' = IF asked <= 0 \/ asked >= v.max THEN Stopped ELSE s
                 /\ requested' = scroller'.running
                 /\ cut' = IF p.right = Len(events) /\ seen.right < Len(events)
                             THEN v.rows # <<>> /\ seen.rows = <<>>
                             ELSE cut /\ ~dataChanged
    /\ dataChanged' = FALSE
    /\ UNCHANGED events

Next == HistoryChanges \/ Down \/ Drag \/ Fling \/ Layout

Spec == Init /\ [][Next]_vars

-----------------------------------------------------------------------------
(* Properties.                                                             *)

(* Where a row of the history stands when the list is not scrolled.        *)
Edge(item) == Total(SubSeq(events, 1, item))
End == AtLeast0(Edge(Len(events)) - Window)

(* The children are the consecutive items the indexes say (a tap takes its *)
(* item from the place of the child), each is where the scroll position    *)
(* puts it, and every row that reaches into the window is there: however   *)
(* far a fling or a finger went since the last layout, through recycled    *)
(* views and edges measured from 0.                                        *)
HistoryShown ==
    ~dataChanged =>
        /\ rightIndex = leftIndex + Len(rows) + 1
        /\ \A k \in DOMAIN rows :
              /\ rows[k].item = leftIndex + k
              /\ rows[k].left = Edge(rows[k].item) - currentX
        /\ \A item \in 0 .. Len(events) - 1 :
              (Edge(item) < currentX + Window /\ Edge(item + 1) > currentX) =>
                  item \in leftIndex + 1 .. rightIndex - 1

(* The list scrolls exactly to the end of the history once its last event  *)
(* has been laid out, and that is so whenever that event is in view.  The  *)
(* exception is the layout that went past every row it had: it measures    *)
(* the end from 0, and the last events stay out of reach until the history *)
(* changes or the list has gone back far enough to drop the last row.      *)
EndInReach ==
    ~dataChanged /\ ~cut =>
        /\ maxX \in {Unbounded, End}
        /\ rightIndex = Len(events) => maxX = End

=============================================================================
