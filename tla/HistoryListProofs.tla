------------------------- MODULE HistoryListProofs -------------------------
(***************************************************************************)
(* Proofs about the list of the history, for every window, every widths of *)
(* the rows, every move of the finger and every length of the history.     *)
(*                                                                         *)
(* A layout is followed loop by loop, each with its invariant: the views   *)
(* are lined up with the items all along, the edge of a fill loop differs  *)
(* from where the items are by a constant (the edge it began with may be   *)
(* 0, or what a recycled view kept), and positionItems puts everything     *)
(* where the offset, which each loop kept true, says.                      *)
(***************************************************************************)
EXTENDS HistoryList, SeqFoldsProofs

Row == [item : Int, left : Int, width : Int]

\* There is a history, as it is whenever a layout comes.
History == events \in Seq(Widths) /\ events # <<>>

LEMMA Constants ==
  /\ Window \in Nat /\ Window >= 1
  /\ \A w \in Widths : w \in Nat /\ w >= 1 /\ w <= Window
  /\ \A d \in Drags : d \in Int
BY HistoryListAssumption

-----------------------------------------------------------------------------
(* Where the items are.                                                    *)

LEMMA EventWidth ==
  ASSUME History, NEW i \in Int, i >= 0, i < Len(events)
  PROVE  events[i + 1] \in Nat /\ events[i + 1] >= 1
<1>1. events[i + 1] \in Widths
  BY DEF History
<1> QED
  BY <1>1, Constants

LEMMA EdgeStart == Edge(0) = 0
<1>1. SubSeq(events, 1, 0) = <<>>
  OBVIOUS
<1> QED
  BY <1>1, TotalEmpty DEF Edge

LEMMA EventsInt ==
  ASSUME History
  PROVE  events \in Seq(Int) /\ Len(events) \in Nat /\ Len(events) >= 1
<1>1. Widths \subseteq Int
  BY Constants
<1>2. Seq(Widths) \subseteq Seq(Int)
  BY <1>1, SeqMonotonic
<1> QED
  BY <1>2 DEF History

LEMMA EdgeMore ==
  ASSUME History, NEW i \in Int, i >= 0, i < Len(events)
  PROVE  Edge(i) \in Int /\ Edge(i + 1) = Edge(i) + events[i + 1]
<1> DEFINE s == SubSeq(events, 1, i)
           t == SubSeq(events, 1, i + 1)
<1>0. events \in Seq(Int) /\ i + 1 \in 1 .. Len(events)
  BY EventsInt
<1>1. /\ s \in Seq(Int) /\ t \in Seq(Int) /\ Len(s) = i /\ Len(t) = i + 1
      /\ Agree(s, t, Len(s)) /\ t[Len(t)] = events[i + 1]
  BY <1>0 DEF Agree
<1>2. Edge(i) = Total(s) /\ Edge(i + 1) = Total(t)
  BY DEF Edge
<1> HIDE DEF s, t
<1>3. Total(s) \in Int
  BY <1>1, TotalType
<1>4. Total(t) = Total(s) + t[Len(t)]
  BY <1>1, TotalMore
<1> QED
  BY <1>1, <1>2, <1>3, <1>4

\* The edges of the items that are there, each to the right of the one before.
LEMMA EdgeNat ==
  ASSUME History
  PROVE  \A i \in 0 .. Len(events) : Edge(i) \in Nat
<1> DEFINE T == {i \in Nat : i <= Len(events) => Edge(i) \in Nat}
<1>1. 0 \in T
  BY EdgeStart
<1>2. ASSUME NEW i \in T PROVE i + 1 \in T
  <2> SUFFICES ASSUME i + 1 <= Len(events) PROVE Edge(i + 1) \in Nat
    OBVIOUS
  <2>1. i \in Nat /\ i < Len(events) /\ Edge(i) \in Nat
    BY EventsInt
  <2>2. Edge(i + 1) = Edge(i) + events[i + 1] /\ events[i + 1] \in Nat
    BY <2>1, EdgeMore, EventWidth
  <2> QED
    BY <2>1, <2>2
<1> HIDE DEF T
<1>3. T = Nat
  <2>1. T \in SUBSET Nat
    BY DEF T
  <2> QED
    BY <1>1, <1>2, <2>1, NatInduct
<1> QED
  BY <1>3, EventsInt DEF T

LEMMA EdgesGrow ==
  ASSUME History, NEW i \in 0 .. Len(events)
  PROVE  \A j \in 0 .. Len(events) : i <= j => Edge(i) <= Edge(j) /\ (i < j => Edge(i) < Edge(j))
<1> DEFINE T == {j \in Nat : i <= j /\ j <= Len(events) =>
                                Edge(i) <= Edge(j) /\ (i < j => Edge(i) < Edge(j))}
<1>0. i \in Nat /\ Len(events) \in Nat /\ Edge(i) \in Nat
  BY EventsInt, EdgeNat
<1>1. 0 \in T
  BY <1>0
<1>2. ASSUME NEW j \in T PROVE j + 1 \in T
  <2> SUFFICES ASSUME i <= j + 1, j + 1 <= Len(events)
               PROVE  Edge(i) <= Edge(j + 1) /\ (i < j + 1 => Edge(i) < Edge(j + 1))
    OBVIOUS
  <2>1. j \in Nat
    OBVIOUS
  <2>2. CASE i = j + 1
    BY <1>0, <2>1, <2>2
  <2>3. CASE i <= j
    <3>1. Edge(i) <= Edge(j) /\ j < Len(events) /\ j \in 0 .. Len(events)
      BY <1>0, <2>1, <2>3
    <3>2. Edge(j) \in Nat
      BY <3>1, EdgeNat
    <3>3. Edge(j + 1) = Edge(j) + events[j + 1] /\ events[j + 1] \in Nat /\ events[j + 1] >= 1
      BY <2>1, <3>1, EdgeMore, EventWidth
    <3> QED
      BY <1>0, <3>1, <3>2, <3>3
  <2> QED
    BY <1>0, <2>1, <2>2, <2>3
<1> HIDE DEF T
<1>3. T = Nat
  <2>1. T \in SUBSET Nat
    BY DEF T
  <2> QED
    BY <1>1, <1>2, <2>1, NatInduct
<1> QED
  BY <1>3, <1>0 DEF T

\* The end of the history is behind the place a list at its end is scrolled to.
LEMMA EndShowsTheLast ==
  ASSUME History
  PROVE  End \in Nat /\ End < Edge(Len(events))
<1>1. Edge(Len(events)) \in Nat
  BY EdgeNat, EventsInt
<1>2. Edge(0) < Edge(Len(events))
  BY EdgesGrow, EventsInt
<1> QED
  BY <1>1, <1>2, EdgeStart, Constants DEF End, AtLeast0

-----------------------------------------------------------------------------
(* What the loops keep.                                                    *)

\* The children are consecutive items, with their widths.
Lined(v) ==
  /\ v \in Views
  /\ v.left >= -1 /\ v.right <= Len(events)
  /\ v.right = v.left + Len(v.rows) + 1
  /\ \A k \in 1 .. Len(v.rows) : /\ v.rows[k].item = v.left + k
                                 /\ v.rows[k].width = events[v.left + k + 1]

\* They stand where the items are when the list is scrolled to x.
Placed(v, x) ==
  /\ v.offset = Edge(v.left + 1) - x
  /\ \A k \in 1 .. Len(v.rows) : v.rows[k].left = Edge(v.left + k) - x

LEMMA ViewFields ==
  ASSUME NEW v \in Views
  PROVE  /\ v.rows \in Seq(Row) /\ v.left \in Int /\ v.right \in Int /\ v.offset \in Int
         /\ v.queue \in Seq(Int) /\ v.max \in Int /\ v.edge \in Int
         /\ Len(v.rows) \in Nat
         /\ \A k \in 1 .. Len(v.rows) : v.rows[k] \in Row
<1>1. /\ v.rows \in Seq(Row) /\ v.left \in Int /\ v.right \in Int /\ v.offset \in Int
      /\ v.queue \in Seq(Int) /\ v.max \in Int /\ v.edge \in Int
  BY DEF Views, Row
<1> QED
  BY <1>1

LEMMA RowFields ==
  ASSUME NEW r \in Row
  PROVE  r.item \in Int /\ r.left \in Int /\ r.width \in Int
BY DEF Row

LEMMA EdgeStep ==
  ASSUME History, NEW i \in Int, NEW j \in Int, j = i + 1, i >= 0, j <= Len(events)
  PROVE  /\ Edge(i) \in Nat /\ Edge(j) \in Nat /\ events[j] \in Nat
         /\ Edge(j) = Edge(i) + events[j]
<1>1. i \in 0 .. Len(events) /\ j \in 0 .. Len(events)
  BY EventsInt
<1> QED
  BY <1>1, EdgeNat, EdgeMore, EventWidth, EventsInt

LEMMA FirstRow ==
  ASSUME History, NEW v, Lined(v), v.rows # <<>>, NEW x \in Int, Placed(v, x)
  PROVE  /\ Head(v.rows).left = Edge(v.left + 1) - x
         /\ Head(v.rows).width = events[v.left + 2]
         /\ RightOf(Head(v.rows)) = Edge(v.left + 2) - x
         /\ Edge(v.left + 2) = Edge(v.left + 1) + events[v.left + 2]
         /\ Edge(v.left + 1) \in Int /\ Edge(v.left + 2) \in Int
         /\ Head(v.rows).left \in Int /\ Head(v.rows).width \in Int
         /\ events[v.left + 2] \in Int
<1>1. /\ v.left \in Int /\ v.right \in Int /\ v.rows \in Seq(Row) /\ Len(v.rows) \in Nat
      /\ Len(events) \in Nat
  BY ViewFields, EventsInt DEF Lined
<1>2. 1 \in 1 .. Len(v.rows) /\ Head(v.rows) = v.rows[1] /\ Len(v.rows) >= 1
  BY <1>1
<1>3. v.left >= -1 /\ v.left + 2 <= Len(events) /\ v.left + 1 \in Int /\ v.left + 2 \in Int
  BY <1>1, <1>2 DEF Lined
<1>4. v.rows[1].width = events[v.left + 1 + 1] /\ v.rows[1].left = Edge(v.left + 1) - x
  BY <1>2 DEF Lined, Placed
<1>5. v.left + 1 + 1 = v.left + 2
  BY <1>1
<1>6. /\ Edge(v.left + 1) \in Nat /\ Edge(v.left + 2) \in Nat /\ events[v.left + 2] \in Nat
      /\ Edge(v.left + 2) = Edge(v.left + 1) + events[v.left + 2]
  BY <1>1, <1>3, <1>5, EdgeStep
<1>7. Head(v.rows).width = events[v.left + 2] /\ Head(v.rows).left = Edge(v.left + 1) - x
  BY <1>2, <1>4, <1>5
<1> QED
  BY <1>6, <1>7 DEF RightOf

LEMMA LastRow ==
  ASSUME History, NEW v, Lined(v), v.rows # <<>>, NEW x \in Int, Placed(v, x)
  PROVE  /\ Last(v.rows).left = Edge(v.right - 1) - x
         /\ RightOf(Last(v.rows)) = Edge(v.right) - x
         /\ Edge(v.right - 1) \in Int /\ Edge(v.right) \in Int
         /\ v.right \in 1 .. Len(events)
         /\ Last(v.rows).left \in Int /\ Last(v.rows).width \in Int
<1> DEFINE n == Len(v.rows)
<1>1. /\ v.left \in Int /\ v.right \in Int /\ v.rows \in Seq(Row) /\ n \in Nat
      /\ Len(events) \in Nat
  BY ViewFields, EventsInt DEF Lined
<1>2. n \in 1 .. Len(v.rows) /\ Last(v.rows) = v.rows[n] /\ n >= 1
  BY <1>1 DEF Last
<1>3. /\ v.left >= -1 /\ v.right <= Len(events) /\ v.right = v.left + n + 1
  BY DEF Lined
<1>4. v.rows[n].width = events[v.left + n + 1] /\ v.rows[n].left = Edge(v.left + n) - x
  BY <1>2 DEF Lined, Placed
<1> HIDE DEF n
<1>5. v.left + n = v.right - 1 /\ v.left + n + 1 = v.right
  BY <1>1, <1>3
<1>6. /\ Edge(v.right - 1) \in Nat /\ Edge(v.right) \in Nat /\ events[v.right] \in Nat
      /\ Edge(v.right) = Edge(v.right - 1) + events[v.right]
  <2>1. v.right - 1 \in Int /\ v.right = (v.right - 1) + 1 /\ v.right - 1 >= 0
    BY <1>1, <1>2, <1>3
  <2> QED
    BY <1>1, <1>3, <2>1, EdgeStep
<1>7. Last(v.rows).width = events[v.right] /\ Last(v.rows).left = Edge(v.right - 1) - x
  BY <1>2, <1>4, <1>5
<1>8. v.right \in 1 .. Len(events)
  BY <1>1, <1>2, <1>3
<1> DEFINE row == Last(v.rows)
<1> HIDE DEF row
<1>9. RightOf(row) = row.left + row.width
  BY DEF RightOf
<1>10. RightOf(row) = Edge(v.right) - x /\ row.left \in Int /\ row.width \in Int
  <2>1. row.width = events[v.right] /\ row.left = Edge(v.right - 1) - x
    BY <1>7 DEF row
  <2> QED
    BY <1>6, <1>9, <2>1
<1> QED
  BY <1>6, <1>7, <1>8, <1>10 DEF row

\* One child less on the left, on the right.
LEMMA DropFirstIs ==
  ASSUME History, NEW v, Lined(v), NEW x \in Int, Placed(v, x), NEW dx \in Int,
         NEW w, w = DropFirst(v, dx)
  PROVE  \/ w = v
         \/ /\ Lined(w) /\ Placed(w, x) /\ v.rows # <<>>
            /\ Edge(w.left + 1) - x + dx <= 0
            /\ w.left = v.left + 1 /\ Len(w.rows) = Len(v.rows) - 1
            /\ w.right = v.right /\ w.max = v.max /\ w.edge = v.edge
<1>0. v \in Views
  BY DEF Lined
<1>a. CASE v.rows = <<>> \/ RightOf(Head(v.rows)) + dx > 0
  BY <1>a DEF DropFirst
<1>c. CASE v.rows # <<>> /\ ~(RightOf(Head(v.rows)) + dx > 0)
  <2>1. w = [v EXCEPT !.offset = v.offset + Head(v.rows).width,
                      !.queue = Append(v.queue, Head(v.rows).left),
                      !.rows = Tail(v.rows),
                      !.left = v.left + 1]
    BY <1>c DEF DropFirst
  <2>2. /\ Head(v.rows).left \in Int /\ Head(v.rows).width \in Int
        /\ Head(v.rows).width = events[v.left + 2]
        /\ Edge(v.left + 2) = Edge(v.left + 1) + events[v.left + 2]
        /\ RightOf(Head(v.rows)) = Edge(v.left + 2) - x
        /\ Edge(v.left + 1) \in Int /\ Edge(v.left + 2) \in Int
    BY <1>c, FirstRow
  <2>3. /\ v.rows \in Seq(Row) /\ v.left \in Int /\ v.right \in Int /\ v.offset \in Int
        /\ v.queue \in Seq(Int) /\ v.max \in Int /\ v.edge \in Int
        /\ Len(v.rows) \in Nat /\ Len(events) \in Nat
    BY <1>0, ViewFields, EventsInt
  <2>4. /\ Tail(v.rows) \in Seq(Row) /\ Len(Tail(v.rows)) = Len(v.rows) - 1
        /\ \A k \in 1 .. Len(Tail(v.rows)) : k + 1 \in 1 .. Len(v.rows) /\ Tail(v.rows)[k] = v.rows[k + 1]
    BY <1>c, <2>3
  <2>5. /\ Append(v.queue, Head(v.rows).left) \in Seq(Int)
        /\ v.left + 1 \in Int /\ v.offset + Head(v.rows).width \in Int
    <3> DEFINE e == Head(v.rows).left
               d == Head(v.rows).width
    <3>1. e \in Int /\ d \in Int
      BY <2>2
    <3> HIDE DEF e, d
    <3>2. Append(v.queue, e) \in Seq(Int) /\ v.left + 1 \in Int /\ v.offset + d \in Int
      BY <2>3, <3>1
    <3> QED
      BY <3>2 DEF e, d
  <2>6. /\ w \in Views /\ w.rows = Tail(v.rows) /\ w.left = v.left + 1 /\ w.right = v.right
        /\ w.offset = v.offset + Head(v.rows).width /\ w.max = v.max /\ w.edge = v.edge
    BY <1>0, <2>1, <2>3, <2>4, <2>5 DEF Views, Row
  <2>a. /\ w.left = v.left + 1 /\ w.right = v.right /\ Len(w.rows) = Len(v.rows) - 1
        /\ Len(v.rows) \in Nat /\ v.left \in Int /\ v.right \in Int /\ Len(events) \in Nat
    BY <2>3, <2>4, <2>6
  <2>b. \A k \in 1 .. Len(w.rows) : k \in Nat /\ k + 1 \in 1 .. Len(v.rows) /\ w.rows[k] = v.rows[k + 1]
    BY <2>3, <2>4, <2>6
  <2>7. Lined(w)
    <3>1. w.left >= -1 /\ w.right <= Len(events) /\ w.right = w.left + Len(w.rows) + 1
      <4>1. v.left >= -1 /\ v.right <= Len(events) /\ v.right = v.left + Len(v.rows) + 1
        BY DEF Lined
      <4> QED
        BY <2>a, <4>1
    <3>2. ASSUME NEW k \in 1 .. Len(w.rows)
          PROVE  w.rows[k].item = w.left + k /\ w.rows[k].width = events[w.left + k + 1]
      <4>1. w.rows[k] = v.rows[k + 1] /\ k + 1 \in 1 .. Len(v.rows) /\ k \in Nat
        BY <2>b, Zenon
      <4>2. v.rows[k + 1].item = v.left + (k + 1) /\ v.rows[k + 1].width = events[v.left + (k + 1) + 1]
        BY <4>1 DEF Lined
      <4>3. v.left + (k + 1) = w.left + k
        <5> DEFINE a == v.left
                   b == w.left
        <5>1. a \in Int /\ b = a + 1
          BY <2>a
        <5>2. k \in Nat
          BY <4>1
        <5> HIDE DEF a, b
        <5>3. a + (k + 1) = b + k
          BY <5>1, <5>2
        <5> QED
          BY <5>3 DEF a, b
      <4> QED
        BY <4>1, <4>2, <4>3
    <3> QED
      BY <2>6, <3>1, <3>2 DEF Lined
  <2>8. Placed(w, x)
    <3>1. w.offset = Edge(w.left + 1) - x
      <4>1. w.left + 1 = v.left + 2
        BY <2>3, <2>6
      <4>2. v.offset = Edge(v.left + 1) - x
        BY DEF Placed
      <4> QED
        BY <2>2, <2>6, <4>1, <4>2
    <3>2. ASSUME NEW k \in 1 .. Len(w.rows)
          PROVE  w.rows[k].left = Edge(w.left + k) - x
      <4>1. w.rows[k] = v.rows[k + 1] /\ k + 1 \in 1 .. Len(v.rows) /\ k \in Nat
        BY <2>b
      <4>2. v.rows[k + 1].left = Edge(v.left + (k + 1)) - x
        BY <4>1 DEF Placed
      <4>3. v.left + (k + 1) = w.left + k
        <5> DEFINE a == v.left
                   b == w.left
        <5>1. a \in Int /\ b = a + 1
          BY <2>a
        <5>2. k \in Nat
          BY <4>1
        <5> HIDE DEF a, b
        <5>3. a + (k + 1) = b + k
          BY <5>1, <5>2
        <5> QED
          BY <5>3 DEF a, b
      <4> QED
        BY <4>1, <4>2, <4>3
    <3> QED
      BY <3>1, <3>2 DEF Placed
  <2>9. w.left + 1 = v.left + 2
    BY <2>3, <2>6
  <2> QED
    BY <1>c, <2>2, <2>4, <2>6, <2>7, <2>8, <2>9
<1> QED
  BY <1>a, <1>c

LEMMA DropLastIs ==
  ASSUME History, NEW v, Lined(v), NEW x \in Int, Placed(v, x), NEW dx \in Int,
         NEW w, w = DropLast(v, dx)
  PROVE  \/ w = v
         \/ /\ Lined(w) /\ Placed(w, x) /\ v.rows # <<>>
            /\ Edge(w.right) - x + dx >= Window
            /\ w.right = v.right - 1 /\ Len(w.rows) = Len(v.rows) - 1
            /\ w.left = v.left /\ w.max = v.max /\ w.edge = v.edge
<1>0. v \in Views
  BY DEF Lined
<1>a. CASE v.rows = <<>> \/ Last(v.rows).left + dx < Window
  BY <1>a DEF DropLast
<1>c. CASE v.rows # <<>> /\ ~(Last(v.rows).left + dx < Window)
  <2>1. w = [v EXCEPT !.queue = Append(v.queue, Last(v.rows).left),
                      !.rows = Front(v.rows),
                      !.right = v.right - 1]
    BY <1>c DEF DropLast
  <2>2. /\ Last(v.rows).left \in Int /\ Last(v.rows).left = Edge(v.right - 1) - x
        /\ Edge(v.right - 1) \in Int
    BY <1>c, LastRow
  <2>3. /\ v.rows \in Seq(Row) /\ v.left \in Int /\ v.right \in Int /\ v.offset \in Int
        /\ v.queue \in Seq(Int) /\ v.max \in Int /\ v.edge \in Int
        /\ Len(v.rows) \in Nat /\ Len(events) \in Nat
    BY <1>0, ViewFields, EventsInt
  <2>4. /\ Front(v.rows) \in Seq(Row) /\ Len(Front(v.rows)) = Len(v.rows) - 1
        /\ \A k \in 1 .. Len(Front(v.rows)) : k \in 1 .. Len(v.rows) /\ Front(v.rows)[k] = v.rows[k]
    BY <1>c, <2>3 DEF Front
  <2>5. Append(v.queue, Last(v.rows).left) \in Seq(Int) /\ v.right - 1 \in Int
    BY <2>2, <2>3
  <2>6. /\ w \in Views /\ w.rows = Front(v.rows) /\ w.left = v.left /\ w.right = v.right - 1
        /\ w.offset = v.offset /\ w.max = v.max /\ w.edge = v.edge
    BY <1>0, <2>1, <2>3, <2>4, <2>5 DEF Views, Row
  <2>a. /\ w.left = v.left /\ w.right = v.right - 1 /\ Len(w.rows) = Len(v.rows) - 1
        /\ Len(v.rows) \in Nat /\ v.left \in Int /\ v.right \in Int /\ Len(events) \in Nat
    BY <2>3, <2>4, <2>6
  <2>7. Lined(w)
    <3>1. w.left >= -1 /\ w.right <= Len(events) /\ w.right = w.left + Len(w.rows) + 1
      <4>1. v.left >= -1 /\ v.right <= Len(events) /\ v.right = v.left + Len(v.rows) + 1
        BY DEF Lined
      <4> QED
        BY <2>a, <4>1
    <3>2. ASSUME NEW k \in 1 .. Len(w.rows)
          PROVE  w.rows[k].item = w.left + k /\ w.rows[k].width = events[w.left + k + 1]
      <4>1. w.rows[k] = v.rows[k] /\ k \in 1 .. Len(v.rows)
        BY <2>4, <2>6
      <4> QED
        BY <2>6, <4>1 DEF Lined
    <3> QED
      BY <2>6, <3>1, <3>2 DEF Lined
  <2>8. Placed(w, x)
    <3>2. ASSUME NEW k \in 1 .. Len(w.rows)
          PROVE  w.rows[k].left = Edge(w.left + k) - x
      <4>1. w.rows[k] = v.rows[k] /\ k \in 1 .. Len(v.rows)
        BY <2>4, <2>6
      <4> QED
        BY <2>6, <4>1 DEF Placed
    <3> QED
      BY <2>6, <3>2 DEF Placed
  <2> QED
    BY <1>c, <2>2, <2>4, <2>6, <2>7, <2>8, Constants
<1> QED
  BY <1>a, <1>c

\* The rows that have left the window are gone.
LEMMA DropLeftIs ==
  ASSUME History, NEW v, Lined(v), NEW x \in Int, Placed(v, x), NEW dx \in Int,
         NEW w, w = DropLeft(v, dx)
  PROVE  /\ Lined(w) /\ Placed(w, x) /\ w.right = v.right /\ w.max = v.max
         /\ w.left >= v.left
         /\ w.left > v.left => Edge(w.left + 1) - x + dx <= 0
<1> DEFINE I == {u \in Views : /\ Lined(u) /\ Placed(u, x) /\ u.right = v.right /\ u.max = v.max
                               /\ u.left >= v.left
                               /\ u.left > v.left => Edge(u.left + 1) - x + dx <= 0}
           round == [u \in Views |-> DropFirst(u, dx)]
<1>0. v \in Views
  BY DEF Lined
<1>a. v.left \in Int
  BY <1>0, ViewFields
<1>b. Len(v.rows) \in Nat
  BY <1>0, ViewFields
<1>1. v \in I
  BY <1>0, <1>a
<1>2. ASSUME NEW u \in I PROVE round[u] \in I
  <2>1. /\ u \in Views /\ Lined(u) /\ Placed(u, x) /\ u.right = v.right /\ u.max = v.max
        /\ u.left >= v.left /\ u.left \in Int
    BY ViewFields
  <2> DEFINE t == DropFirst(u, dx)
  <2>2. round[u] = t
    BY <2>1
  <2> HIDE DEF t
  <2>3. CASE t = u
    BY <2>2, <2>3
  <2>4. CASE /\ Lined(t) /\ Placed(t, x) /\ Edge(t.left + 1) - x + dx <= 0
             /\ t.left = u.left + 1 /\ t.right = u.right /\ t.max = u.max
    <3>1. t \in Views /\ t.left >= v.left
      BY <1>a, <2>1, <2>4 DEF Lined
    <3> QED
      BY <2>1, <2>2, <2>4, <3>1
  <2> QED
    <3>1. t = DropFirst(u, dx)
      BY DEF t
    <3>2. \/ t = u
          \/ /\ Lined(t) /\ Placed(t, x) /\ Edge(t.left + 1) - x + dx <= 0
             /\ t.left = u.left + 1 /\ t.right = u.right /\ t.max = u.max
      BY <2>1, <3>1, DropFirstIs
    <3> QED
      BY <2>3, <2>4, <3>2
<1>3. w = Repeat(round, v, Len(v.rows))
  BY DEF DropLeft
<1> HIDE DEF I, round
<1> DEFINE n == Len(v.rows)
<1>n. n \in Nat /\ w = Repeat(round, v, n)
  BY <1>b, <1>3
<1> HIDE DEF n
<1>k. Repeat(round, v, n) \in I
  BY <1>n, <1>1, <1>2, RepeatKeeps
<1>4. w \in I
  BY <1>n, <1>k
<1> QED
  BY <1>4 DEF I

LEMMA DropRightIs ==
  ASSUME History, NEW v, Lined(v), NEW x \in Int, Placed(v, x), NEW dx \in Int,
         NEW w, w = DropRight(v, dx)
  PROVE  /\ Lined(w) /\ Placed(w, x) /\ w.left = v.left /\ w.max = v.max
         /\ w.right <= v.right
         /\ w.right < v.right => Edge(w.right) - x + dx >= Window
<1> DEFINE I == {u \in Views : /\ Lined(u) /\ Placed(u, x) /\ u.left = v.left /\ u.max = v.max
                               /\ u.right <= v.right
                               /\ u.right < v.right => Edge(u.right) - x + dx >= Window}
           round == [u \in Views |-> DropLast(u, dx)]
<1>0. v \in Views
  BY DEF Lined
<1>a. v.right \in Int
  BY <1>0, ViewFields
<1>b. Len(v.rows) \in Nat
  BY <1>0, ViewFields
<1>1. v \in I
  BY <1>0, <1>a
<1>2. ASSUME NEW u \in I PROVE round[u] \in I
  <2>1. /\ u \in Views /\ Lined(u) /\ Placed(u, x) /\ u.left = v.left /\ u.max = v.max
        /\ u.right <= v.right /\ u.right \in Int
    BY ViewFields
  <2> DEFINE t == DropLast(u, dx)
  <2>2. round[u] = t
    BY <2>1
  <2> HIDE DEF t
  <2>3. CASE t = u
    BY <2>2, <2>3
  <2>4. CASE /\ Lined(t) /\ Placed(t, x) /\ Edge(t.right) - x + dx >= Window
             /\ t.right = u.right - 1 /\ t.left = u.left /\ t.max = u.max
    <3>1. t \in Views /\ t.right <= v.right
      BY <1>a, <2>1, <2>4 DEF Lined
    <3> QED
      BY <2>1, <2>2, <2>4, <3>1
  <2> QED
    <3>1. t = DropLast(u, dx)
      BY DEF t
    <3>2. \/ t = u
          \/ /\ Lined(t) /\ Placed(t, x) /\ Edge(t.right) - x + dx >= Window
             /\ t.right = u.right - 1 /\ t.left = u.left /\ t.max = u.max
      BY <2>1, <3>1, DropLastIs
    <3> QED
      BY <2>3, <2>4, <3>2
<1>3. w = Repeat(round, v, Len(v.rows))
  BY DEF DropRight
<1> HIDE DEF I, round
<1> DEFINE n == Len(v.rows)
<1>n. n \in Nat /\ w = Repeat(round, v, n)
  BY <1>b, <1>3
<1> HIDE DEF n
<1>k. Repeat(round, v, n) \in I
  BY <1>n, <1>1, <1>2, RepeatKeeps
<1>4. w \in I
  BY <1>n, <1>k
<1> QED
  BY <1>4 DEF I

-----------------------------------------------------------------------------
(* The fill loops.  Their edge differs by c from where the items are.      *)

LEMMA ChildRow ==
  ASSUME History, NEW q \in Seq(Int), NEW item \in Int, item >= 0, item < Len(events)
  PROVE  /\ Child(q, item) \in Row /\ Poll(q) \in Seq(Int)
         /\ Child(q, item).item = item /\ Child(q, item).width = events[item + 1]
         /\ events[item + 1] \in Nat
<1>1. events[item + 1] \in Nat
  BY EventWidth
<1>2. q # <<>> => Head(q) \in Int /\ Tail(q) \in Seq(Int)
  OBVIOUS
<1> QED
  BY <1>1, <1>2 DEF Child, Poll, Row

LEMMA Bounds ==
  ASSUME History, NEW v, Lined(v)
  PROVE  /\ v \in Views /\ v.left \in Int /\ v.right \in Int /\ Len(v.rows) \in Nat
         /\ v.left >= -1 /\ v.left + 1 <= v.right /\ v.right <= Len(events)
         /\ v.right = v.left + Len(v.rows) + 1
         /\ (v.rows = <<>>) <=> (v.right = v.left + 1)
         /\ v.right \in 0 .. Len(events) /\ v.left + 1 \in 0 .. Len(events)
         /\ Edge(v.right) \in Nat /\ Edge(v.left + 1) \in Nat
         /\ Len(events) \in Nat /\ Len(events) >= 1
<1>1. v \in Views /\ v.left >= -1 /\ v.right <= Len(events) /\ v.right = v.left + Len(v.rows) + 1
  BY DEF Lined
<1>2. v.rows \in Seq(Row) /\ v.left \in Int /\ v.right \in Int /\ Len(v.rows) \in Nat
  BY <1>1, ViewFields
<1>3. (v.rows = <<>>) <=> (Len(v.rows) = 0)
  BY <1>2
<1>4. Len(events) \in Nat /\ Len(events) >= 1
  BY EventsInt
<1>5. /\ v.left + 1 <= v.right /\ v.right \in 0 .. Len(events) /\ v.left + 1 \in 0 .. Len(events)
      /\ (v.right = v.left + 1) <=> (Len(v.rows) = 0)
  BY <1>1, <1>2, <1>4
<1>6. Edge(v.right) \in Nat /\ Edge(v.left + 1) \in Nat
  BY <1>5, EdgeNat
<1> QED
  BY <1>1, <1>2, <1>3, <1>4, <1>5, <1>6

LEMMA AddRightIs ==
  ASSUME History, NEW v, Lined(v), NEW c \in Int, v.edge = Edge(v.right) + c, v.max \in Nat,
         NEW dx \in Int, NEW x \in Int, NEW w, w = AddRight(v, dx, x)
  PROVE  \/ w = v /\ (v.edge + dx >= Window \/ v.right = Len(events))
         \/ /\ Lined(w) /\ w.edge = Edge(w.right) + c /\ v.edge + dx < Window
            /\ v.right < Len(events) /\ w.right = v.right + 1 /\ w.left = v.left
            /\ w.offset = v.offset /\ w.max \in Nat
            /\ w.max = IF w.right = Len(events) THEN AtLeast0(x + w.edge - Window) ELSE v.max
            /\ v.rows # <<>> => w.rows[1] = v.rows[1]
<1>v. v \in Views
  BY DEF Lined
<1>0. /\ v.left \in Int /\ v.right \in Int /\ Len(v.rows) \in Nat
      /\ v.right <= Len(events) /\ v.right >= 0
      /\ v.right = v.left + Len(v.rows) + 1 /\ v.left >= -1 /\ Len(events) \in Nat
  BY Bounds
<1>e. Edge(v.right) \in Nat
  BY Bounds
<1>1. /\ v.rows \in Seq(Row) /\ v.offset \in Int
      /\ v.queue \in Seq(Int) /\ v.max \in Int /\ v.edge \in Int
  BY <1>v, ViewFields
<1>a. CASE v.edge + dx >= Window \/ v.right >= Len(events)
  BY <1>0, <1>a DEF AddRight
<1>c. CASE ~(v.edge + dx >= Window \/ v.right >= Len(events))
  <2> DEFINE child == Child(v.queue, v.right)
             end == v.edge + child.width
             max == IF v.right = Len(events) - 1 THEN x + end - Window ELSE v.max
             more == Append(v.rows, child)
             rest == Poll(v.queue)
             most == AtLeast0(max)
  <2>1. w = [v EXCEPT !.rows = more, !.queue = rest, !.max = most, !.right = v.right + 1,
                      !.edge = end]
    BY <1>c DEF AddRight
  <2>2. v.right < Len(events) /\ v.edge + dx < Window
    BY <1>0, <1>1, <1>c, Constants
  <2>3. /\ child \in Row /\ rest \in Seq(Int)
        /\ child.item = v.right /\ child.width = events[v.right + 1] /\ events[v.right + 1] \in Nat
    BY <1>0, <1>1, <2>2, ChildRow
  <2>4. end \in Int /\ end = Edge(v.right + 1) + c
    <3> DEFINE i == v.right
               j == v.right + 1
    <3>a. /\ i \in Int /\ j \in Int /\ j = i + 1 /\ i >= 0 /\ j <= Len(events)
      BY <1>0, <2>2
    <3> HIDE DEF i, j
    <3>b. Edge(j) = Edge(i) + events[j] /\ Edge(j) \in Nat
      BY <1>0, <3>a, EdgeStep
    <3>1. Edge(v.right + 1) = Edge(v.right) + events[v.right + 1] /\ Edge(v.right + 1) \in Nat
      BY <3>b DEF i, j
    <3> HIDE DEF child
    <3>2. v.edge = Edge(v.right) + c /\ v.edge \in Int /\ child.width = events[v.right + 1]
      BY <1>1, <2>3
    <3> QED
      BY <1>e, <2>3, <3>1, <3>2
  <2> HIDE DEF child
  <2>5. /\ more \in Seq(Row) /\ Len(more) = Len(v.rows) + 1 /\ more[Len(v.rows) + 1] = child
        /\ \A k \in 1 .. Len(v.rows) : more[k] = v.rows[k]
    BY <1>1, <2>3
  <2> HIDE DEF end
  <2>6. /\ most \in Nat
        /\ most = IF v.right + 1 = Len(events) THEN AtLeast0(x + end - Window) ELSE v.max
    <3>1. v.right = Len(events) - 1 <=> v.right + 1 = Len(events)
      BY <1>0
    <3>2. CASE v.right + 1 = Len(events)
      BY <2>4, <3>1, <3>2, Constants DEF AtLeast0
    <3>3. CASE v.right + 1 # Len(events)
      BY <3>1, <3>3 DEF AtLeast0
    <3> QED
      BY <3>2, <3>3
  <2> HIDE DEF max, more, rest, most
  <2>7. v.right + 1 \in Int /\ most \in Int
    BY <1>0, <2>6
  <2>8. /\ w \in Views /\ w.rows = more /\ w.left = v.left /\ w.right = v.right + 1
        /\ w.offset = v.offset /\ w.max = most /\ w.edge = end
    BY <1>v, <1>0, <1>1, <2>1, <2>3, <2>4, <2>5, <2>7 DEF Views, Row
  <2>9. Lined(w)
    <3>1. w.left >= -1 /\ w.right <= Len(events) /\ w.right = w.left + Len(w.rows) + 1
      <4>1. w.left = v.left /\ w.right = v.right + 1 /\ Len(w.rows) = Len(v.rows) + 1
        BY <2>5, <2>8
      <4> DEFINE n == Len(v.rows)
                 l == v.left
                 r == v.right
      <4>2. l \in Int /\ l >= -1 /\ r \in Int /\ r < Len(events) /\ n \in Nat /\ r = l + n + 1
        BY <1>0, <2>2
      <4>3. w.left = l /\ w.right = r + 1 /\ Len(w.rows) = n + 1
        BY <4>1
      <4> HIDE DEF n, l, r
      <4> QED
        BY <1>0, <4>2, <4>3
    <3>2. ASSUME NEW k \in 1 .. Len(w.rows)
          PROVE  w.rows[k].item = w.left + k /\ w.rows[k].width = events[w.left + k + 1]
      <4>1. w.rows = more /\ w.left = v.left /\ Len(w.rows) = Len(v.rows) + 1 /\ k \in Nat
        BY <1>0, <2>5, <2>8
      <4>a. k \in 1 .. Len(v.rows) \/ k = Len(v.rows) + 1
        BY <1>0, <4>1
      <4>2. CASE k \in 1 .. Len(v.rows)
        <5>1. w.rows[k] = v.rows[k]
          BY <2>5, <4>1, <4>2
        <5>2. v.rows[k].item = v.left + k /\ v.rows[k].width = events[v.left + k + 1]
          BY <4>2 DEF Lined
        <5> QED
          BY <4>1, <5>1, <5>2
      <4>3. CASE k = Len(v.rows) + 1
        <5>1. w.rows[k] = child /\ v.left + k = v.right
          BY <1>0, <2>5, <4>1, <4>3
        <5> QED
          BY <2>3, <4>1, <5>1
      <4> QED
        BY <4>a, <4>2, <4>3
    <3> QED
      BY <2>8, <3>1, <3>2 DEF Lined
  <2>10. v.rows # <<>> => w.rows[1] = v.rows[1]
    <3>1. v.rows # <<>> => 1 \in 1 .. Len(v.rows)
      BY <1>1
    <3> QED
      BY <2>5, <2>8, <3>1
  <2> QED
    BY <2>2, <2>4, <2>6, <2>8, <2>9, <2>10
<1> QED
  BY <1>a, <1>c

LEMMA AddLeftIs ==
  ASSUME History, NEW v, Lined(v), NEW c \in Int, v.edge = Edge(v.left + 1) + c,
         NEW dx \in Int, NEW w, w = AddLeft(v, dx)
  PROVE  \/ w = v /\ (v.edge + dx <= 0 \/ v.left = -1)
         \/ /\ Lined(w) /\ w.edge = Edge(w.left + 1) + c /\ v.edge + dx > 0
            /\ v.left >= 0 /\ w.left = v.left - 1 /\ w.right = v.right /\ w.max = v.max
            /\ w.offset - Edge(w.left + 1) = v.offset - Edge(v.left + 1)
<1>v. v \in Views
  BY DEF Lined
<1>0. /\ v.left \in Int /\ v.right \in Int /\ Len(v.rows) \in Nat
      /\ v.right <= Len(events) /\ v.left + 1 <= v.right
      /\ v.right = v.left + Len(v.rows) + 1 /\ v.left >= -1 /\ Len(events) \in Nat
  BY Bounds
<1>e. Edge(v.left + 1) \in Nat
  BY Bounds
<1>1. /\ v.rows \in Seq(Row) /\ v.queue \in Seq(Int)
  BY <1>v, ViewFields
<1>i. v.offset \in Int /\ v.max \in Int /\ v.edge \in Int
  BY <1>v, ViewFields
<1>a. CASE v.edge + dx <= 0 \/ v.left < 0
  BY <1>0, <1>a DEF AddLeft
<1>c. CASE ~(v.edge + dx <= 0 \/ v.left < 0)
  <2> DEFINE child == Child(v.queue, v.left)
             more == <<child>> \o v.rows
             rest == Poll(v.queue)
             wide == child.width
  <2>1. w = [v EXCEPT !.rows = more, !.queue = rest, !.left = v.left - 1,
                      !.offset = v.offset - wide, !.edge = v.edge - wide]
    BY <1>c DEF AddLeft
  <2>2. v.left >= 0 /\ v.left < Len(events) /\ v.edge + dx > 0
    BY <1>0, <1>i, <1>c
  <2>3. /\ child \in Row /\ rest \in Seq(Int)
        /\ child.item = v.left /\ wide = events[v.left + 1] /\ events[v.left + 1] \in Nat
    BY <1>0, <1>1, <2>2, ChildRow
  <2>4. Edge(v.left) \in Nat /\ Edge(v.left + 1) = Edge(v.left) + wide /\ wide \in Nat
    <3>1. v.left + 1 \in Int /\ v.left + 1 <= Len(events)
      BY <1>0, <2>2
    <3> QED
      BY <1>0, <2>2, <2>3, <3>1, EdgeStep
  <2> HIDE DEF wide, child
  <2>5. /\ more \in Seq(Row) /\ Len(more) = Len(v.rows) + 1 /\ more[1] = child
        /\ \A k \in 2 .. Len(v.rows) + 1 : more[k] = v.rows[k - 1]
    BY <1>1, <2>3
  <2> HIDE DEF more, rest
  <2>7. v.left - 1 \in Int /\ v.offset - wide \in Int /\ v.edge - wide \in Int
    <3>1. v.left \in Int /\ v.offset \in Int /\ v.edge \in Int /\ wide \in Int
      BY <1>0, <1>i, <2>4
    <3> QED
      BY <3>1
  <2>8. /\ w \in Views /\ w.rows = more /\ w.left = v.left - 1 /\ w.right = v.right
        /\ w.offset = v.offset - wide /\ w.max = v.max /\ w.edge = v.edge - wide
    BY <1>v, <1>0, <1>1, <1>i, <2>1, <2>3, <2>5, <2>7 DEF Views, Row
  <2>a. w.left + 1 = v.left
    BY <1>0, <2>8
  <2>9. Lined(w)
    <3>1. w.left >= -1 /\ w.right <= Len(events) /\ w.right = w.left + Len(w.rows) + 1
      <4>1. w.left = v.left - 1 /\ w.right = v.right /\ Len(w.rows) = Len(v.rows) + 1
        BY <2>5, <2>8
      <4> DEFINE n == Len(v.rows)
                 l == v.left
                 r == v.right
      <4>2. /\ l \in Int /\ l >= 0 /\ r \in Int /\ r <= Len(events) /\ n \in Nat
            /\ r = l + n + 1
        BY <1>0, <2>2
      <4>3. w.left = l - 1 /\ w.right = r /\ Len(w.rows) = n + 1
        BY <4>1
      <4> HIDE DEF n, l, r
      <4> QED
        BY <1>0, <4>2, <4>3
    <3>2. ASSUME NEW k \in 1 .. Len(w.rows)
          PROVE  w.rows[k].item = w.left + k /\ w.rows[k].width = events[w.left + k + 1]
      <4>1. w.rows = more /\ w.left = v.left - 1 /\ Len(w.rows) = Len(v.rows) + 1 /\ k \in Nat
        BY <1>0, <2>5, <2>8
      <4>a. k = 1 \/ k \in 2 .. Len(v.rows) + 1
        BY <1>0, <4>1
      <4>2. CASE k = 1
        <5>1. w.rows[k] = child /\ w.left + k = v.left
          BY <1>0, <2>5, <4>1, <4>2
        <5> QED
          BY <2>3, <5>1 DEF wide
      <4>3. CASE k \in 2 .. Len(v.rows) + 1
        <5>1. w.rows[k] = v.rows[k - 1] /\ k - 1 \in 1 .. Len(v.rows)
          BY <1>0, <2>5, <4>1, <4>3
        <5>2. v.rows[k - 1].item = v.left + (k - 1) /\ v.rows[k - 1].width = events[v.left + (k - 1) + 1]
          BY <5>1 DEF Lined
        <5>3. v.left + (k - 1) = w.left + k
          BY <1>0, <4>1
        <5> QED
          BY <5>1, <5>2, <5>3
      <4> QED
        BY <4>a, <4>2, <4>3
    <3> QED
      BY <2>8, <3>1, <3>2 DEF Lined
  <2>10. w.edge = Edge(w.left + 1) + c /\ w.offset - Edge(w.left + 1) = v.offset - Edge(v.left + 1)
    <3>1. w.edge = v.edge - wide /\ w.offset = v.offset - wide /\ Edge(w.left + 1) = Edge(v.left)
      BY <2>8, <2>a
    <3> QED
      BY <1>i, <2>4, <3>1
  <2> QED
    BY <2>2, <2>8, <2>9, <2>10
<1> QED
  BY <1>a, <1>c

\* The window is filled on the right, as far as the edge tells, or the history ends.
LEMMA FillRightIs ==
  ASSUME History, NEW v, Lined(v), NEW c \in Int, v.edge = Edge(v.right) + c, v.max \in Nat,
         NEW dx \in Int, NEW x \in Int, NEW w, w = FillRight(v, dx, x)
  PROVE  /\ Lined(w) /\ w.left = v.left /\ w.right >= v.right /\ w.offset = v.offset
         /\ w.right < Len(events) => Edge(w.right) + c + dx >= Window
         /\ w.right > v.right => v.edge + dx < Window
         /\ w.max \in Nat
         /\ w.max = IF v.right < w.right /\ w.right = Len(events)
                      THEN AtLeast0(x + (Edge(w.right) + c) - Window) ELSE v.max
         /\ v.rows # <<>> => w.rows[1] = v.rows[1]
<1> DEFINE Right(u) ==
             /\ Lined(u) /\ u.left = v.left /\ u.right >= v.right /\ u.offset = v.offset
             /\ u.edge = Edge(u.right) + c
             /\ u.right > v.right => v.edge + dx < Window
             /\ u.max \in Nat
             /\ u.max = IF v.right < u.right /\ u.right = Len(events)
                          THEN AtLeast0(x + (Edge(u.right) + c) - Window) ELSE v.max
             /\ v.rows # <<>> => u.rows[1] = v.rows[1]
           I == {u \in Views : Right(u)}
           round == [u \in Views |-> AddRight(u, dx, x)]
           m == [u \in I |-> Len(events) - u.right]
<1>0. /\ v \in Views /\ v.right \in Int /\ v.right >= 0 /\ v.right <= Len(events)
      /\ Len(events) \in Nat /\ v.left \in Int
  BY Bounds
<1>1. v \in I
  <2>1. Right(v)
    BY <1>0
  <2> QED
    BY <1>0, <2>1
<1>2. ASSUME NEW u \in I
      PROVE  /\ round[u] = AddRight(u, dx, x) /\ round[u] \in I
             /\ \/ round[u] = u /\ (u.edge + dx >= Window \/ u.right = Len(events))
                \/ round[u].right = u.right + 1
  <2> DEFINE t == AddRight(u, dx, x)
  <2>1. u \in Views /\ Right(u)
    OBVIOUS
  <2>2. round[u] = t
    BY <2>1
  <2>3. t = AddRight(u, dx, x)
    OBVIOUS
  <2> HIDE DEF t
  <2>4. \/ t = u /\ (u.edge + dx >= Window \/ u.right = Len(events))
        \/ /\ Lined(t) /\ t.edge = Edge(t.right) + c /\ u.edge + dx < Window
           /\ u.right < Len(events) /\ t.right = u.right + 1 /\ t.left = u.left
           /\ t.offset = u.offset /\ t.max \in Nat
           /\ t.max = IF t.right = Len(events) THEN AtLeast0(x + t.edge - Window) ELSE u.max
           /\ u.rows # <<>> => t.rows[1] = u.rows[1]
    BY <2>1, <2>3, AddRightIs
  <2>5. CASE t = u /\ (u.edge + dx >= Window \/ u.right = Len(events))
    BY <2>2, <2>3, <2>5
  <2>6. CASE /\ Lined(t) /\ t.edge = Edge(t.right) + c /\ u.edge + dx < Window
             /\ u.right < Len(events) /\ t.right = u.right + 1 /\ t.left = u.left
             /\ t.offset = u.offset /\ t.max \in Nat
             /\ t.max = IF t.right = Len(events) THEN AtLeast0(x + t.edge - Window) ELSE u.max
             /\ u.rows # <<>> => t.rows[1] = u.rows[1]
    <3>1. t \in Views
      BY <2>6 DEF Lined
    <3>2. u.right \in Int /\ u.left \in Int /\ u.right >= v.right
      BY <2>1, Bounds
    <3>3. t.right > v.right /\ t.right >= v.right
      BY <1>0, <2>6, <3>2
    <3>4. v.edge + dx < Window
      <4>1. CASE u.right > v.right
        BY <2>1, <4>1
      <4>2. CASE u.right = v.right
        <5>1. u.edge = v.edge
          BY <2>1, <4>2
        <5> QED
          BY <2>6, <5>1
      <4> QED
        BY <1>0, <3>2, <4>1, <4>2
    <3>5. t.max = IF v.right < t.right /\ t.right = Len(events)
                    THEN AtLeast0(x + (Edge(t.right) + c) - Window) ELSE v.max
      <4>1. CASE t.right = Len(events)
        BY <2>6, <3>3, <4>1
      <4>2. CASE t.right # Len(events)
        <5>1. u.max = v.max
          <6>1. u.right # Len(events)
            BY <1>0, <2>6, <3>2
          <6> QED
            BY <2>1, <6>1
        <5> QED
          BY <2>6, <4>2, <5>1
      <4> QED
        BY <4>1, <4>2
    <3>6. v.rows # <<>> => t.rows[1] = v.rows[1]
      <4>1. v.rows # <<>> => u.rows # <<>>
        <5>1. (v.rows = <<>>) <=> (v.right = v.left + 1)
          BY Bounds
        <5>2. (u.rows = <<>>) <=> (u.right = u.left + 1)
          BY <2>1, Bounds
        <5>3. v.left + 1 <= v.right /\ u.left = v.left /\ u.right >= v.right
          BY <2>1, Bounds
        <5>4. u.right = u.left + 1 => v.right = v.left + 1
          BY <1>0, <3>2, <5>3
        <5> QED
          BY <5>1, <5>2, <5>4
      <4> QED
        BY <2>1, <2>6, <4>1
    <3>7. Right(t)
      BY <2>1, <2>6, <3>3, <3>4, <3>5, <3>6
    <3> QED
      BY <2>2, <2>3, <2>6, <3>1, <3>7
  <2> QED
    BY <2>4, <2>5, <2>6
<1>3. ASSUME NEW u \in I
      PROVE  m[u] \in Nat /\ m[u] = Len(events) - u.right /\ u.right \in Int
  <2>1. Lined(u)
    OBVIOUS
  <2>2. u.right \in Int /\ u.right <= Len(events)
    BY <2>1, Bounds
  <2>3. m[u] = Len(events) - u.right
    OBVIOUS
  <2> HIDE DEF m
  <2> QED
    BY <1>0, <2>2, <2>3
<1>4. m \in [I -> Nat]
  <2>1. m = [u \in I |-> m[u]]
    OBVIOUS
  <2> HIDE DEF m, I
  <2> QED
    BY <1>3, <2>1
<1>5. w = Repeat(round, v, Len(events))
  BY DEF FillRight
<1> HIDE DEF I, round, m
<1>6. ASSUME NEW u \in I
      PROVE  round[u] \in I /\ (round[u] = u \/ m[round[u]] < m[u])
  <2>1. round[u] \in I
    BY <1>2
  <2>2. /\ m[u] = Len(events) - u.right /\ u.right \in Int
        /\ m[round[u]] = Len(events) - round[u].right
    BY <1>3, <2>1
  <2>3. round[u] = u \/ round[u].right = u.right + 1
    BY <1>2
  <2>4. ASSUME round[u].right = u.right + 1 PROVE m[round[u]] < m[u]
    <3> DEFINE r == u.right
               N == Len(events)
               a == m[u]
               b == m[round[u]]
    <3>1. a = N - r /\ b = N - (r + 1) /\ r \in Int
      BY <2>2, <2>4
    <3>2. N \in Int
      BY <1>0
    <3> HIDE DEF r, N, a, b
    <3>3. b < a
      BY <3>1, <3>2
    <3> QED
      BY <3>3 DEF a, b
  <2> QED
    BY <2>1, <2>3, <2>4
<1>7. m[v] <= Len(events)
  BY <1>0, <1>1, <1>3
<1>n. Len(events) \in Nat
  BY <1>0
<1>8. w \in I /\ round[w] = w
  <2> DEFINE N == Len(events)
  <2>1. N \in Nat /\ m[v] <= N /\ w = Repeat(round, v, N)
    BY <1>n, <1>5, <1>7
  <2> HIDE DEF N, Right
  <2>2. Repeat(round, v, N) \in I /\ round[Repeat(round, v, N)] = Repeat(round, v, N)
    <3>1. N \in Nat /\ m[v] <= N
      BY <2>1
    <3> QED
      BY <3>1, <1>1, <1>4, <1>6, RepeatSettles
  <2> QED
    BY <2>1, <2>2
<1>9. w.edge + dx >= Window \/ w.right = Len(events)
  <2>1. \/ w.edge + dx >= Window \/ w.right = Len(events)
        \/ round[w].right = w.right + 1
    BY <1>2, <1>8
  <2>2. w.right \in Int
    BY <1>3, <1>8
  <2> QED
    BY <1>8, <2>1, <2>2
<1>10. w \in Views /\ Right(w)
  BY <1>8 DEF I
<1> QED
  <2>1. w.right < Len(events) => Edge(w.right) + c + dx >= Window
    <3>1. w.right \in Int
      BY <1>3, <1>8
    <3> QED
      BY <1>0, <1>9, <1>10, <3>1
  <2> QED
    BY <1>10, <2>1

LEMMA FillLeftIs ==
  ASSUME History, NEW v, Lined(v), NEW c \in Int, v.edge = Edge(v.left + 1) + c,
         NEW dx \in Int, NEW w, w = FillLeft(v, dx)
  PROVE  /\ Lined(w) /\ w.left <= v.left /\ w.right = v.right /\ w.max = v.max
         /\ w.left >= 0 => Edge(w.left + 1) + c + dx <= 0
         /\ w.offset - Edge(w.left + 1) = v.offset - Edge(v.left + 1)
<1> DEFINE Left(u) ==
             /\ Lined(u) /\ u.left <= v.left /\ u.right = v.right /\ u.max = v.max
             /\ u.edge = Edge(u.left + 1) + c
             /\ u.offset - Edge(u.left + 1) = v.offset - Edge(v.left + 1)
           I == {u \in Views : Left(u)}
           round == [u \in Views |-> AddLeft(u, dx)]
           m == [u \in I |-> u.left + 1]
<1>0. /\ v \in Views /\ v.left \in Int /\ v.left >= -1 /\ v.left + 1 <= Len(events)
      /\ Len(events) \in Nat
  BY Bounds
<1>1. v \in I
  <2>1. Left(v)
    BY <1>0
  <2> QED
    BY <1>0, <2>1
<1>2. ASSUME NEW u \in I
      PROVE  /\ round[u] = AddLeft(u, dx) /\ round[u] \in I
             /\ \/ round[u] = u /\ (u.edge + dx <= 0 \/ u.left = -1)
                \/ round[u].left = u.left - 1
  <2> DEFINE t == AddLeft(u, dx)
  <2>1. u \in Views /\ Left(u)
    OBVIOUS
  <2>2. round[u] = t
    BY <2>1
  <2>3. t = AddLeft(u, dx)
    OBVIOUS
  <2> HIDE DEF t
  <2>4. \/ t = u /\ (u.edge + dx <= 0 \/ u.left = -1)
        \/ /\ Lined(t) /\ t.edge = Edge(t.left + 1) + c /\ u.edge + dx > 0
           /\ u.left >= 0 /\ t.left = u.left - 1 /\ t.right = u.right /\ t.max = u.max
           /\ t.offset - Edge(t.left + 1) = u.offset - Edge(u.left + 1)
    BY <2>1, <2>3, AddLeftIs
  <2>5. CASE t = u /\ (u.edge + dx <= 0 \/ u.left = -1)
    BY <2>2, <2>3, <2>5
  <2>6. CASE /\ Lined(t) /\ t.edge = Edge(t.left + 1) + c /\ u.edge + dx > 0
             /\ u.left >= 0 /\ t.left = u.left - 1 /\ t.right = u.right /\ t.max = u.max
             /\ t.offset - Edge(t.left + 1) = u.offset - Edge(u.left + 1)
    <3>1. t \in Views
      BY <2>6 DEF Lined
    <3>2. u.left \in Int /\ u.left <= v.left
      BY <2>1, Bounds
    <3>3. t.left <= v.left
      BY <1>0, <2>6, <3>2
    <3>7. Left(t)
      BY <2>1, <2>6, <3>3
    <3> QED
      BY <2>2, <2>3, <2>6, <3>1, <3>7
  <2> QED
    BY <2>4, <2>5, <2>6
<1>3. ASSUME NEW u \in I
      PROVE  m[u] \in Nat /\ m[u] = u.left + 1 /\ u.left \in Int
  <2>1. Lined(u)
    OBVIOUS
  <2>2. u.left \in Int /\ u.left >= -1
    BY <2>1, Bounds
  <2>3. m[u] = u.left + 1
    OBVIOUS
  <2> HIDE DEF m
  <2> QED
    BY <2>2, <2>3
<1>4. m \in [I -> Nat]
  <2>1. m = [u \in I |-> m[u]]
    OBVIOUS
  <2> HIDE DEF m, I
  <2> QED
    BY <1>3, <2>1
<1>5. w = Repeat(round, v, Len(events))
  BY DEF FillLeft
<1> HIDE DEF I, round, m
<1>6. ASSUME NEW u \in I
      PROVE  round[u] \in I /\ (round[u] = u \/ m[round[u]] < m[u])
  BY <1>2, <1>3
<1>7. m[v] <= Len(events)
  BY <1>0, <1>1, <1>3
<1>n. Len(events) \in Nat
  BY <1>0
<1>8. w \in I /\ round[w] = w
  <2> DEFINE N == Len(events)
  <2>1. N \in Nat /\ m[v] <= N /\ w = Repeat(round, v, N)
    BY <1>n, <1>5, <1>7
  <2> HIDE DEF N, Left
  <2>2. Repeat(round, v, N) \in I /\ round[Repeat(round, v, N)] = Repeat(round, v, N)
    <3>1. N \in Nat /\ m[v] <= N
      BY <2>1
    <3> QED
      BY <3>1, <1>1, <1>4, <1>6, RepeatSettles
  <2> QED
    BY <2>1, <2>2
<1>9. w.edge + dx <= 0 \/ w.left = -1
  <2>1. \/ w.edge + dx <= 0 \/ w.left = -1
        \/ round[w].left = w.left - 1
    BY <1>2, <1>8
  <2>2. w.left \in Int
    BY <1>3, <1>8
  <2> QED
    BY <1>8, <2>1, <2>2
<1>10. w \in Views /\ Left(w)
  BY <1>8 DEF I
<1> QED
  BY <1>9, <1>10

-----------------------------------------------------------------------------
(* positionItems.                                                          *)

\* The first n rows are as wide as their items.
LEMMA WidthOfRows ==
  ASSUME History, NEW v, Lined(v)
  PROVE  \A n \in Nat : n <= Len(v.rows) =>
            WidthOf(v.rows, n) = Edge(v.left + 1 + n) - Edge(v.left + 1)
<1> DEFINE l == v.left + 1
           rs == v.rows
           size == Len(rs)
           T == {n \in Nat : n <= size => WidthOf(rs, n) = Edge(l + n) - Edge(l)}
<1>0. /\ l \in Int /\ l >= 0 /\ size \in Nat /\ l + size <= Len(events) /\ Len(events) \in Nat
      /\ Edge(l) \in Nat
  <2>1. /\ v.left \in Int /\ v.left >= -1 /\ Len(v.rows) \in Nat /\ Len(events) \in Nat
        /\ v.right = v.left + Len(v.rows) + 1 /\ v.right <= Len(events)
    BY Bounds
  <2>2. Edge(v.left + 1) \in Nat
    BY Bounds
  <2> QED
    BY <2>1, <2>2
<1>1. \A k \in 1 .. size : rs[k].width \in Int /\ rs[k].width = events[l + k]
  <2> SUFFICES ASSUME NEW k \in 1 .. size
               PROVE  rs[k].width \in Int /\ rs[k].width = events[l + k]
    OBVIOUS
  <2>1. rs[k].width = events[v.left + k + 1]
    BY DEF Lined
  <2>2. v.left \in Int /\ k \in Nat
    BY <1>0, Bounds
  <2>3. v.left + k + 1 = l + k
    BY <2>2
  <2>4. v \in Views
    BY DEF Lined
  <2>5. rs[k] \in Row
    BY <2>4, ViewFields
  <2> QED
    BY <2>1, <2>3, <2>5, RowFields
<1> HIDE DEF l, rs, size
<1>2. 0 \in T
  <2>1. [k \in 1 .. 0 |-> rs[k].width] = <<>>
    OBVIOUS
  <2>2. WidthOf(rs, 0) = 0
    BY <2>1, TotalEmpty DEF WidthOf
  <2>3. l + 0 = l
    BY <1>0
  <2> QED
    BY <1>0, <2>2, <2>3
<1>3. ASSUME NEW n \in T PROVE n + 1 \in T
  <2> SUFFICES ASSUME n + 1 <= size PROVE WidthOf(rs, n + 1) = Edge(l + (n + 1)) - Edge(l)
    OBVIOUS
  <2>1. n \in Nat /\ n + 1 \in 1 .. size
    BY <1>0
  <2>2. WidthOf(rs, n) = Edge(l + n) - Edge(l)
    BY <1>0, <2>1
  <2> DEFINE s == [k \in 1 .. n |-> rs[k].width]
             t == [k \in 1 .. (n + 1) |-> rs[k].width]
  <2>3. s \in Seq(Int) /\ t \in Seq(Int) /\ Len(s) = n /\ Len(t) = n + 1
    <3> DEFINE Wide(k) == rs[k].width
    <3>1. \A k \in 1 .. (n + 1) : Wide(k) \in Int
      BY <1>0, <1>1, <2>1
    <3>2. s = [k \in 1 .. n |-> Wide(k)] /\ t = [k \in 1 .. (n + 1) |-> Wide(k)]
      OBVIOUS
    <3> HIDE DEF Wide, s, t
    <3> QED
      BY <2>1, <3>1, <3>2
  <2>4. Agree(s, t, n) /\ t[n + 1] = rs[n + 1].width
    BY <2>1 DEF Agree
  <2>5. Total(t) = Total(s) + t[n + 1]
    <3> HIDE DEF s, t
    <3>1. Len(t) = Len(s) + 1 /\ Agree(s, t, Len(s))
      BY <2>3, <2>4
    <3>2. Total(t) = Total(s) + t[Len(t)]
      BY <2>3, <3>1, TotalMore
    <3> QED
      BY <2>3, <3>2
  <2>6. WidthOf(rs, n) = Total(s) /\ WidthOf(rs, n + 1) = Total(t)
    BY DEF WidthOf
  <2>7. rs[n + 1].width = events[l + (n + 1)]
    BY <1>1, <2>1
  <2>8. /\ Edge(l + n) \in Nat /\ Edge(l + (n + 1)) = Edge(l + n) + events[l + (n + 1)]
        /\ events[l + (n + 1)] \in Nat
    <3>1. /\ l + n \in Int /\ l + (n + 1) \in Int /\ l + (n + 1) = (l + n) + 1
          /\ l + n >= 0 /\ l + (n + 1) <= Len(events)
      BY <1>0, <2>1
    <3> QED
      BY <3>1, EdgeStep
  <2>9. WidthOf(rs, n + 1) = (Edge(l + n) - Edge(l)) + events[l + (n + 1)]
    BY <2>2, <2>4, <2>5, <2>6, <2>7
  <2> HIDE DEF s, t
  <2> QED
    BY <1>0, <2>8, <2>9
<1> HIDE DEF T
<1>4. T = Nat
  <2>1. T \in SUBSET Nat
    BY DEF T
  <2> QED
    BY <1>2, <1>3, <2>1, NatInduct
<1> QED
  BY <1>4 DEF T, l, rs, size

LEMMA PlaceIs ==
  ASSUME History, NEW v, Lined(v), v.rows # <<>>, NEW x \in Int, NEW dx \in Int,
         v.offset = Edge(v.left + 1) - x, NEW next \in Int, next = x - dx,
         NEW w, w = Place(v, dx)
  PROVE  /\ Lined(w) /\ Placed(w, next)
         /\ w.left = v.left /\ w.right = v.right /\ w.max = v.max /\ w.rows # <<>>
<1> DEFINE first == v.offset + dx
           Moved(k) == [v.rows[k] EXCEPT !.left = first + WidthOf(v.rows, k - 1)]
           size == Len(v.rows)
           moved == [k \in DOMAIN v.rows |-> Moved(k)]
<1>v. v \in Views
  BY DEF Lined
<1>0. /\ v.rows \in Seq(Row) /\ DOMAIN v.rows = 1 .. size /\ size \in Nat
  BY <1>v, ViewFields
<1>1. v.left \in Int /\ v.left >= -1 /\ v.right = v.left + size + 1 /\ v.right <= Len(events)
      /\ Len(events) \in Nat
  BY Bounds
<1>2. first \in Int /\ first = Edge(v.left + 1) - next /\ Edge(v.left + 1) \in Nat
  <2>1. Edge(v.left + 1) \in Nat
    BY Bounds
  <2> QED
    BY <2>1
<1>3. w = [v EXCEPT !.offset = first, !.rows = moved]
  BY DEF Place
<1> HIDE DEF first
<1>4. ASSUME NEW k \in 1 .. size
      PROVE  /\ Moved(k) \in Row /\ Moved(k).item = v.left + k
             /\ Moved(k).width = events[v.left + k + 1]
             /\ Moved(k).left = Edge(v.left + k) - next
  <2>1. v.rows[k].item = v.left + k /\ v.rows[k].width = events[v.left + k + 1]
    BY DEF Lined
  <2>2. v.rows[k] \in Row
    BY <1>0
  <2>3. k - 1 \in Nat /\ k - 1 <= size
    BY <1>0
  <2>4. WidthOf(v.rows, k - 1) = Edge(v.left + 1 + (k - 1)) - Edge(v.left + 1)
    BY <2>3, WidthOfRows
  <2>5. v.left + 1 + (k - 1) = v.left + k /\ v.left + k \in 0 .. Len(events)
    <3> DEFINE l == v.left
               n == size
               N == Len(events)
    <3>1. l \in Int /\ l >= -1 /\ n \in Nat /\ k \in 1 .. n /\ N \in Nat /\ l + n + 1 <= N
      BY <1>0, <1>1
    <3> HIDE DEF l, n, N
    <3>2. l + 1 + (k - 1) = l + k /\ l + k \in 0 .. N
      BY <3>1
    <3> QED
      BY <3>2 DEF l, N
  <2>6. Edge(v.left + k) \in Nat
    BY <2>5, EdgeNat
  <2> DEFINE place == first + WidthOf(v.rows, k - 1)
  <2>7. place \in Int /\ place = Edge(v.left + k) - next
    BY <1>2, <2>4, <2>5, <2>6
  <2>8. Moved(k) = [v.rows[k] EXCEPT !.left = place]
    OBVIOUS
  <2> HIDE DEF place, Moved
  <2>9. /\ Moved(k) \in Row /\ Moved(k).item = v.rows[k].item
        /\ Moved(k).width = v.rows[k].width /\ Moved(k).left = place
    BY <2>2, <2>7, <2>8 DEF Row
  <2> QED
    BY <2>1, <2>7, <2>9
<1>5. \A k \in 1 .. size : moved[k] = Moved(k)
  BY <1>0
<1>6. moved \in Seq(Row) /\ Len(moved) = size
  <2>1. moved = [k \in 1 .. size |-> Moved(k)]
    BY <1>0
  <2>2. \A k \in 1 .. size : Moved(k) \in Row
    BY <1>4
  <2> HIDE DEF Moved
  <2> QED
    BY <1>0, <2>1, <2>2
<1> HIDE DEF moved, Moved
<1>7. /\ w \in Views /\ w.rows = moved /\ w.left = v.left /\ w.right = v.right
      /\ w.offset = first /\ w.max = v.max
  BY <1>v, <1>2, <1>3, <1>6 DEF Views, Row
<1>8. Lined(w)
  <2>1. w.left >= -1 /\ w.right <= Len(events) /\ w.right = w.left + Len(w.rows) + 1
    BY <1>1, <1>6, <1>7
  <2>2. ASSUME NEW k \in 1 .. Len(w.rows)
        PROVE  w.rows[k].item = w.left + k /\ w.rows[k].width = events[w.left + k + 1]
    BY <1>4, <1>5, <1>6, <1>7
  <2> QED
    BY <1>7, <2>1, <2>2 DEF Lined
<1>9. Placed(w, next)
  <2>1. w.offset = Edge(w.left + 1) - next
    BY <1>2, <1>7
  <2>2. ASSUME NEW k \in 1 .. Len(w.rows)
        PROVE  w.rows[k].left = Edge(w.left + k) - next
    BY <1>4, <1>5, <1>6, <1>7
  <2> QED
    BY <2>1, <2>2 DEF Placed
<1>10. w.rows # <<>>
  <2>1. size # 0
    BY <1>0
  <2> QED
    BY <1>6, <1>7, <2>1
<1> QED
  BY <1>7, <1>8, <1>9, <1>10

-----------------------------------------------------------------------------
(* fillList: the edges it begins with.                                     *)

LEMMA EdgeSet ==
  ASSUME NEW v, Lined(v), NEW e \in Int, NEW w, w = [v EXCEPT !.edge = e]
  PROVE  /\ Lined(w) /\ w.edge = e
         /\ w.rows = v.rows /\ w.left = v.left /\ w.right = v.right /\ w.offset = v.offset
         /\ w.max = v.max
<1>1. v \in Views
  BY DEF Lined
<1>2. /\ w \in Views /\ w.edge = e /\ w.rows = v.rows /\ w.left = v.left /\ w.right = v.right
      /\ w.offset = v.offset /\ w.max = v.max
  BY <1>1 DEF Views
<1> QED
  BY <1>2 DEF Lined

\* Where there are rows, they say where the next one stands; where there are none,
\* the next one is taken to stand at 0.
Lead(v, x) == IF v.rows = <<>> THEN 0 - Edge(v.right) ELSE 0 - x

LEMMA RightEdgeIs ==
  ASSUME History, NEW v, Lined(v), NEW x \in Int, Placed(v, x), NEW w, w = AtRightEdge(v)
  PROVE  /\ Lined(w) /\ w.edge = Edge(w.right) + Lead(v, x) /\ Lead(v, x) \in Int
         /\ w.rows = v.rows /\ w.left = v.left /\ w.right = v.right /\ w.offset = v.offset
         /\ w.max = v.max
<1> DEFINE e == IF v.rows = <<>> THEN 0 ELSE RightOf(Last(v.rows))
<1>1. Edge(v.right) \in Nat
  BY Bounds
<1>2. e \in Int /\ e = Edge(v.right) + Lead(v, x) /\ Lead(v, x) \in Int
  <2>1. CASE v.rows = <<>>
    BY <1>1, <2>1 DEF Lead
  <2>2. CASE v.rows # <<>>
    <3>1. RightOf(Last(v.rows)) = Edge(v.right) - x
      BY <2>2, LastRow
    <3> QED
      BY <1>1, <2>2, <3>1 DEF Lead
  <2> QED
    BY <2>1, <2>2
<1>3. w = [v EXCEPT !.edge = e]
  BY DEF AtRightEdge
<1> HIDE DEF e
<1>4. /\ Lined(w) /\ w.edge = e
      /\ w.rows = v.rows /\ w.left = v.left /\ w.right = v.right /\ w.offset = v.offset
      /\ w.max = v.max
  BY <1>2, <1>3, EdgeSet
<1> QED
  BY <1>2, <1>4

LEMMA LeftEdgeIs ==
  ASSUME History, NEW v, Lined(v), NEW w, w = AtLeftEdge(v)
  PROVE  /\ Lined(w) /\ w.edge \in Int
         /\ w.edge = IF v.rows = <<>> THEN 0 ELSE v.rows[1].left
         /\ w.rows = v.rows /\ w.left = v.left /\ w.right = v.right /\ w.offset = v.offset
         /\ w.max = v.max
<1> DEFINE e == IF v.rows = <<>> THEN 0 ELSE Head(v.rows).left
<1>1. v.rows \in Seq(Row)
  <2>1. v \in Views
    BY DEF Lined
  <2> QED
    BY <2>1, ViewFields
<1>2. v.rows # <<>> => Head(v.rows) = v.rows[1] /\ v.rows[1] \in Row
  BY <1>1
<1>3. e \in Int /\ e = IF v.rows = <<>> THEN 0 ELSE v.rows[1].left
  BY <1>2, RowFields
<1>4. w = [v EXCEPT !.edge = e]
  BY DEF AtLeftEdge
<1> HIDE DEF e
<1>5. /\ Lined(w) /\ w.edge = e
      /\ w.rows = v.rows /\ w.left = v.left /\ w.right = v.right /\ w.offset = v.offset
      /\ w.max = v.max
  <2>1. e \in Int
    BY <1>3
  <2> QED
    BY <2>1, <1>4, EdgeSet
<1> QED
  BY <1>3, <1>5

LEMMA FillListIs ==
  ASSUME History, NEW v, Lined(v), NEW x \in Int, Placed(v, x), v.max \in Nat,
         NEW dx \in Int, NEW w, w = FillList(v, dx, x), NEW c, c = Lead(v, x)
  PROVE  /\ Lined(w) /\ w.left <= v.left /\ w.right >= v.right /\ c \in Int
         /\ w.offset = Edge(w.left + 1) - x
         /\ w.right < Len(events) => Edge(w.right) + c + dx >= Window
         /\ w.right > v.right => Edge(v.right) + c + dx < Window
         /\ w.max \in Nat
         /\ w.max = IF v.right < w.right /\ w.right = Len(events)
                      THEN AtLeast0(x + (Edge(w.right) + c) - Window) ELSE v.max
         /\ v.rows # <<>> \/ w.right = v.right =>
               (w.left >= 0 => Edge(w.left + 1) + c + dx <= 0)
<1> DEFINE b == AtRightEdge(v)
           f == FillRight(b, dx, x)
           g == AtLeftEdge(f)
<1>1. w = FillLeft(g, dx)
  BY DEF FillList
<1>2. /\ Lined(b) /\ b.edge = Edge(b.right) + c /\ c \in Int
      /\ b.rows = v.rows /\ b.left = v.left /\ b.right = v.right /\ b.offset = v.offset
      /\ b.max = v.max
  <2> HIDE DEF f, g
  <2> QED
    BY RightEdgeIs
<1>3. f = FillRight(b, dx, x) /\ g = AtLeftEdge(f)
  OBVIOUS
<1> HIDE DEF b, f, g
<1>4. /\ Lined(f) /\ f.left = b.left /\ f.right >= b.right /\ f.offset = b.offset
      /\ f.right < Len(events) => Edge(f.right) + c + dx >= Window
      /\ f.right > b.right => b.edge + dx < Window
      /\ f.max \in Nat
      /\ f.max = IF b.right < f.right /\ f.right = Len(events)
                   THEN AtLeast0(x + (Edge(f.right) + c) - Window) ELSE b.max
      /\ b.rows # <<>> => f.rows[1] = b.rows[1]
  BY <1>2, <1>3, FillRightIs
<1>5. /\ Lined(g) /\ g.edge \in Int
      /\ g.edge = IF f.rows = <<>> THEN 0 ELSE f.rows[1].left
      /\ g.left = f.left /\ g.right = f.right /\ g.offset = f.offset /\ g.max = f.max
  BY <1>3, <1>4, LeftEdgeIs
<1>6. /\ v.left \in Int /\ v.right \in Int /\ Edge(v.left + 1) \in Nat /\ Edge(v.right) \in Nat
      /\ f.right \in Int
  BY <1>4, Bounds
<1> DEFINE d == g.edge - Edge(g.left + 1)
<1>7. Edge(g.left + 1) = Edge(v.left + 1)
  BY <1>2, <1>4, <1>5
<1>8. d \in Int /\ g.edge = Edge(g.left + 1) + d
  BY <1>5, <1>6, <1>7
<1>9. d = g.edge - Edge(v.left + 1)
  BY <1>7
<1> HIDE DEF d
<1>10. /\ Lined(w) /\ w.left <= g.left /\ w.right = g.right /\ w.max = g.max
       /\ w.left >= 0 => Edge(w.left + 1) + d + dx <= 0
       /\ w.offset - Edge(w.left + 1) = g.offset - Edge(g.left + 1)
  BY <1>1, <1>5, <1>8, FillLeftIs
<1>11. w.offset = Edge(w.left + 1) - x
  <2>1. g.offset = Edge(v.left + 1) - x
    BY <1>2, <1>4, <1>5 DEF Placed
  <2>2. w.offset - Edge(w.left + 1) = 0 - x
    BY <1>6, <1>7, <1>10, <2>1
  <2>3. Edge(w.left + 1) \in Nat /\ w.offset \in Int
    <3>1. w \in Views
      BY <1>10 DEF Lined
    <3> QED
      BY <1>10, <3>1, Bounds, ViewFields
  <2> QED
    BY <2>2, <2>3
<1>12. ASSUME v.rows # <<>> \/ w.right = v.right PROVE d = c
  <2>1. CASE v.rows # <<>>
    <3>1. f.rows # <<>>
      <4>1. (v.rows = <<>>) <=> (v.right = v.left + 1)
        BY Bounds
      <4>2. (f.rows = <<>>) <=> (f.right = f.left + 1)
        BY <1>4, Bounds
      <4>3. f.left = v.left /\ f.right >= v.right /\ v.left + 1 <= v.right
        BY <1>2, <1>4, Bounds
      <4> QED
        BY <1>6, <2>1, <4>1, <4>2, <4>3
    <3>2. g.edge = v.rows[1].left
      BY <1>2, <1>4, <1>5, <2>1, <3>1
    <3>3. v.rows[1].left = Edge(v.left + 1) - x
      <4>1. v \in Views
        BY DEF Lined
      <4>2. v.rows \in Seq(Row)
        BY <4>1, ViewFields
      <4>3. 1 \in 1 .. Len(v.rows)
        BY <2>1, <4>2
      <4> QED
        BY <4>3 DEF Placed
    <3>4. c = 0 - x
      BY <2>1 DEF Lead
    <3> QED
      BY <1>6, <1>9, <3>2, <3>3, <3>4
  <2>2. CASE v.rows = <<>>
    <3>1. w.right = v.right /\ v.right = v.left + 1
      BY <1>12, <2>2, Bounds
    <3>2. f.rows = <<>>
      <4>1. f.right = f.left + 1
        BY <1>2, <1>4, <1>5, <1>10, <3>1
      <4> QED
        BY <1>4, <4>1, Bounds
    <3>3. g.edge = 0 /\ c = 0 - Edge(v.left + 1)
      BY <1>5, <2>2, <3>1, <3>2 DEF Lead
    <3> QED
      BY <1>6, <1>9, <3>3
  <2> QED
    BY <2>1, <2>2
<1>13. w.right > v.right => Edge(v.right) + c + dx < Window
  BY <1>2, <1>4, <1>5, <1>10
<1> QED
  BY <1>2, <1>4, <1>5, <1>10, <1>11, <1>12, <1>13

-----------------------------------------------------------------------------
(* A whole layout.                                                         *)

\* What a layout for x leaves: rows, all that reach into the window among them, and
\* an end that is not too far once the last event is among them.
Laid(v, x) ==
  /\ Lined(v) /\ Placed(v, x) /\ v.rows # <<>> /\ v.max \in Nat
  /\ v.left >= 0 => Edge(v.left + 1) <= x
  /\ v.right < Len(events) => Edge(v.right) >= x + Window
  /\ v.right = Len(events) => v.max <= End

\* What a change of the history leaves to the layout after it.
Empty(v, x) ==
  /\ Lined(v) /\ Placed(v, x) /\ v.rows = <<>> /\ v.max \in Nat
  /\ v.left = -1 /\ x = 0

LEMMA SeenIs ==
  ASSUME History, NEW v, Lined(v), NEW x \in Int, Placed(v, x), NEW dx \in Int,
         NEW w, w = DropRight(DropLeft(v, dx), dx)
  PROVE  /\ Lined(w) /\ Placed(w, x) /\ w.left >= v.left /\ w.right <= v.right
         /\ w.max = v.max
         /\ w.left > v.left => Edge(w.left + 1) - x + dx <= 0
         /\ w.right < v.right => Edge(w.right) - x + dx >= Window
<1> DEFINE a == DropLeft(v, dx)
<1>1. /\ Lined(a) /\ Placed(a, x) /\ a.right = v.right /\ a.max = v.max
      /\ a.left >= v.left
      /\ a.left > v.left => Edge(a.left + 1) - x + dx <= 0
  BY DropLeftIs
<1>2. w = DropRight(a, dx)
  OBVIOUS
<1> HIDE DEF a
<1>3. /\ Lined(w) /\ Placed(w, x) /\ w.left = a.left /\ w.max = a.max
      /\ w.right <= a.right
      /\ w.right < a.right => Edge(w.right) - x + dx >= Window
  BY <1>1, <1>2, DropRightIs
<1> QED
  BY <1>1, <1>3

\* The facts about a layout, up to the numbers: v before it, s without the rows that
\* left the window, w with those that came.
Stages(v, s, w, x, dx, c) ==
  /\ Lined(v) /\ Lined(s) /\ Lined(w) /\ c = Lead(s, x)
  /\ s.left >= v.left /\ s.right <= v.right /\ s.max = v.max
  /\ s.left > v.left => Edge(s.left + 1) - x + dx <= 0
  /\ s.right < v.right => Edge(s.right) - x + dx >= Window
  /\ w.left <= s.left /\ w.right >= s.right
  /\ w.right < Len(events) => Edge(w.right) + c + dx >= Window
  /\ w.right > s.right => Edge(s.right) + c + dx < Window
  /\ w.max = IF s.right < w.right /\ w.right = Len(events)
               THEN AtLeast0(x + (Edge(w.right) + c) - Window) ELSE v.max
  /\ s.rows # <<>> \/ w.right = s.right =>
        (w.left >= 0 => Edge(w.left + 1) + c + dx <= 0)

\* What is to be shown of w.
Covers(w, x) ==
  /\ w.rows # <<>>
  /\ w.left >= 0 => Edge(w.left + 1) <= x
  /\ w.right < Len(events) => Edge(w.right) >= x + Window
  /\ w.right = Len(events) => w.max <= End

Ends(v, s, w) ==
  /\ w.right < Len(events) => w.max = v.max
  /\ w.right = Len(events) /\ s.right = Len(events) => v.right = Len(events) /\ w.max = v.max
  /\ w.right = Len(events) /\ s.right < Len(events) =>
        w.max = End \/ (v.rows # <<>> /\ s.rows = <<>>)

LEMMA LastNeverLeaves ==
  ASSUME History, NEW v, NEW x \in Int, Laid(v, x), NEW next \in Int, next <= v.max,
         v.right = Len(events)
  PROVE  Edge(Len(events)) > next
<1>1. v.max \in Nat /\ v.max <= End
  BY DEF Laid
<1>2. Edge(Len(events)) \in Nat
  BY EdgeNat, EventsInt
<1> QED
  BY <1>1, <1>2, EndShowsTheLast

\* Rows stay, or there was no row yet: the edges are where the items are.
LEMMA RowsStay ==
  ASSUME History, NEW v, NEW s, NEW w, NEW x \in Nat, NEW next \in Nat, NEW dx \in Int,
         dx = x - next, NEW c \in Int, Stages(v, s, w, x, dx, c), next <= v.max, v.max \in Nat,
         (Laid(v, x) /\ s.rows # <<>>) \/ Empty(v, x)
  PROVE  Covers(w, next) /\ Ends(v, s, w)
<1> DEFINE N == Len(events)
<1>0. /\ v.left \in Int /\ v.right \in Int /\ s.left \in Int /\ s.right \in Int
      /\ w.left \in Int /\ w.right \in Int /\ N \in Nat /\ N >= 1
      /\ w.right <= N /\ s.right <= N /\ v.right <= N
      /\ s.left >= -1 /\ w.left >= -1 /\ w.left + 1 <= w.right
      /\ s.left + 1 <= s.right /\ v.left + 1 <= v.right
  BY Bounds DEF Stages
<1>e. Edge(w.right) \in Nat /\ Edge(w.left + 1) \in Nat /\ Edge(s.right) \in Nat /\ Edge(N) \in Nat
  <2>1. Lined(s) /\ Lined(w)
    BY DEF Stages
  <2>2. Edge(w.right) \in Nat /\ Edge(w.left + 1) \in Nat
    BY <2>1, Bounds
  <2>3. Edge(s.right) \in Nat
    BY <2>1, Bounds
  <2>4. Edge(N) \in Nat
    BY EdgeNat, EventsInt
  <2> QED
    BY <2>2, <2>3, <2>4
<1>r. /\ (w.rows = <<>>) <=> (w.right = w.left + 1)
      /\ (s.rows = <<>>) <=> (s.right = s.left + 1)
      /\ (v.rows = <<>>) <=> (v.right = v.left + 1)
  BY Bounds DEF Stages
<1>1. Empty(v, x) => v.left = -1 /\ v.right = 0 /\ s.left = -1 /\ s.right = 0 /\ s.rows = <<>>
                     /\ x = 0 /\ Edge(s.right) = 0
  <2> SUFFICES ASSUME Empty(v, x)
               PROVE  /\ v.left = -1 /\ v.right = 0 /\ s.left = -1 /\ s.right = 0
                      /\ s.rows = <<>> /\ x = 0 /\ Edge(s.right) = 0
    OBVIOUS
  <2>1. v.left = -1 /\ x = 0 /\ v.rows = <<>>
    BY DEF Empty
  <2>2. s.left >= v.left /\ s.right <= v.right
    BY DEF Stages
  <2>3. v.right = 0 /\ s.right = 0 /\ s.left = -1
    BY <1>0, <1>r, <2>1, <2>2
  <2> QED
    BY <1>r, <2>1, <2>3, EdgeStart
<1>2. c = 0 - x
  <2>1. CASE s.rows # <<>>
    BY <2>1 DEF Stages, Lead
  <2>2. CASE Empty(v, x)
    BY <1>1, <2>2 DEF Stages, Lead
  <2> QED
    BY <2>1, <2>2
<1>3. w.right < N => Edge(w.right) >= next + Window
  <2>1. w.right < N => Edge(w.right) + c + dx >= Window
    BY DEF Stages
  <2> QED
    BY <1>2, <1>e, <2>1, Constants
<1>4. w.rows # <<>>
  <2>1. w.left <= s.left /\ w.right >= s.right
    BY DEF Stages
  <2>2. CASE s.rows # <<>>
    <3>1. s.right # s.left + 1
      BY <1>r, <2>2
    <3>2. w.right # w.left + 1
      <4> DEFINE a == s.left
                 b == s.right
                 d == w.left
                 e == w.right
      <4>1. a \in Int /\ b \in Int /\ d \in Int /\ e \in Int /\ d <= a /\ e >= b /\ b # a + 1
        BY <1>0, <2>1, <3>1
      <4>2. a + 1 <= b
        BY <1>0
      <4> HIDE DEF a, b, d, e
      <4>3. e # d + 1
        BY <4>1, <4>2
      <4> QED
        BY <4>3 DEF d, e
    <3> QED
      BY <1>r, <3>2
  <2>3. CASE Empty(v, x)
    <3>1. w.left = -1 /\ w.right >= 0 /\ Edge(0) = 0
      BY <1>0, <1>1, <2>1, <2>3, EdgeStart
    <3>2. w.right # 0
      BY <1>0, <1>3, <3>1, Constants
    <3> QED
      BY <1>0, <1>r, <3>1, <3>2
  <2> QED
    BY <2>2, <2>3
<1>5. w.left >= 0 => Edge(w.left + 1) <= next
  <2>1. CASE s.rows # <<>>
    <3>1. w.left >= 0 => Edge(w.left + 1) + c + dx <= 0
      BY <2>1 DEF Stages
    <3> QED
      BY <1>2, <1>e, <3>1
  <2>2. CASE Empty(v, x)
    <3>1. w.left <= s.left
      BY DEF Stages
    <3> QED
      BY <1>0, <1>1, <2>2, <3>1
  <2> QED
    BY <2>1, <2>2
<1>6. w.right < N => w.max = v.max
  BY <1>0 DEF Stages
<1>7. w.right = N /\ s.right = N => v.right = N /\ w.max = v.max
  <2>1. s.right <= v.right
    BY DEF Stages
  <2>2. s.right = N => v.right = N
    BY <1>0, <2>1
  <2>3. w.right = N /\ s.right = N => w.max = v.max
    BY <1>0 DEF Stages
  <2> QED
    BY <2>2, <2>3
<1>8. w.right = N /\ s.right < N => w.max = End
  <2>1. w.right = N /\ s.right < N => w.max = AtLeast0(x + (Edge(w.right) + c) - Window)
    BY DEF Stages
  <2>2. x + (Edge(N) + c) - Window = Edge(N) - Window
    BY <1>2, <1>e, Constants
  <2> QED
    BY <2>1, <2>2 DEF End
<1>9. w.right = N => w.max <= End
  <2>1. CASE w.right = N /\ s.right = N
    <3>1. Laid(v, x)
      BY <1>0, <1>1, <2>1
    <3> QED
      BY <1>7, <2>1, <3>1 DEF Laid
  <2>2. CASE w.right = N /\ s.right < N
    BY <1>8, <2>2, EndShowsTheLast
  <2> QED
    BY <1>0, <2>1, <2>2
<1> QED
  BY <1>3, <1>4, <1>5, <1>6, <1>7, <1>8, <1>9 DEF Covers, Ends

\* All rows left the window on the left: the fill that takes the next one to stand at
\* 0 measures too little, and so fills more than the window and an end too near.
LEMMA RowsGoneLeft ==
  ASSUME History, NEW v, NEW s, NEW w, NEW x \in Nat, NEW next \in Nat, NEW dx \in Int,
         dx = x - next, NEW c \in Int, Stages(v, s, w, x, dx, c), next <= v.max,
         Laid(v, x), s.rows = <<>>, s.left > v.left
  PROVE  Covers(w, next) /\ Ends(v, s, w)
<1> DEFINE N == Len(events)
<1>l. Lined(v) /\ Lined(s) /\ Lined(w)
  BY DEF Stages
<1>0. /\ v.left \in Int /\ v.right \in Int /\ s.left \in Int /\ s.right \in Int
      /\ w.left \in Int /\ w.right \in Int /\ N \in Nat /\ N >= 1
      /\ w.right <= N /\ s.right <= N /\ v.right <= N
      /\ s.left >= -1 /\ w.left >= -1
      /\ s.left + 1 = s.right /\ v.left + 1 <= v.right
  BY <1>l, Bounds
<1>w. Edge(w.right) \in Nat /\ Edge(w.left + 1) \in Nat
  BY <1>l, Bounds
<1>s. Edge(s.right) \in Nat /\ Edge(s.left + 1) = Edge(s.right)
  BY <1>l, <1>0, Bounds
<1>e. Edge(N) \in Nat
  BY EdgeNat, EventsInt
<1>1. Edge(s.right) <= next
  <2>1. Edge(s.left + 1) - x + dx <= 0
    BY DEF Stages
  <2> QED
    BY <1>s, <2>1
<1>2. s.right = v.right
  <2>1. s.right < v.right => Edge(s.right) - x + dx >= Window
    BY DEF Stages
  <2>2. s.right <= v.right
    BY DEF Stages
  <2>3. ~(s.right < v.right)
    BY <1>1, <1>s, <2>1, Constants
  <2> QED
    BY <1>0, <2>2, <2>3
<1>3. v.right # N
  <2> SUFFICES ASSUME v.right = N PROVE FALSE
    OBVIOUS
  <2>1. Edge(N) > next
    BY LastNeverLeaves
  <2> QED
    BY <1>1, <1>2, <1>e, <2>1
<1>4. Edge(s.right) >= x + Window
  <2>1. v.right < N => Edge(v.right) >= x + Window
    BY DEF Laid
  <2> QED
    BY <1>0, <1>2, <1>3, <2>1
<1>5. c = 0 - Edge(s.right)
  BY DEF Stages, Lead
<1>6. w.right < N => Edge(w.right) >= next + Window
  <2>1. w.right < N => Edge(w.right) + c + dx >= Window
    BY DEF Stages
  <2> QED
    BY <1>4, <1>5, <1>w, <1>s, <2>1, Constants
<1>7. w.right > s.right
  <2>1. w.right >= s.right
    BY DEF Stages
  <2>2. ASSUME w.right = s.right PROVE FALSE
    <3>1. w.right < N
      BY <1>0, <1>2, <1>3, <2>2
    <3>2. Edge(s.right) >= next + Window
      BY <1>6, <2>2, <3>1
    <3> QED
      BY <1>1, <1>s, <3>2, Constants
  <2> QED
    BY <1>0, <2>1, <2>2
<1>8. w.left <= s.left /\ Edge(w.left + 1) <= next
  <2>1. w.left <= s.left
    BY DEF Stages
  <2>2. w.left + 1 \in 0 .. N /\ s.right \in 0 .. N /\ w.left + 1 <= s.right
    <3> DEFINE a == w.left
               b == s.left
               r == s.right
    <3>1. a \in Int /\ b \in Int /\ r \in Int /\ r <= N /\ a >= -1 /\ b + 1 = r /\ a <= b /\ N \in Nat
      BY <1>0, <2>1
    <3> HIDE DEF a, b, r, N
    <3>2. a + 1 \in 0 .. N /\ r \in 0 .. N /\ a + 1 <= r
      BY <3>1
    <3> QED
      BY <3>2 DEF a, r
  <2>3. Edge(w.left + 1) <= Edge(s.right)
    BY <2>2, EdgesGrow
  <2> QED
    BY <1>1, <1>w, <1>s, <2>1, <2>3
<1>9. w.rows # <<>>
  <2>1. w.right # w.left + 1
    BY <1>0, <1>7, <1>8
  <2> QED
    BY <1>l, <2>1, Bounds
<1>10. w.right < N => w.max = v.max
  BY <1>0 DEF Stages
<1>11. w.right = N => w.max <= End
  <2> SUFFICES ASSUME w.right = N PROVE w.max <= End
    OBVIOUS
  <2>1. w.max = AtLeast0(x + (Edge(N) + c) - Window)
    BY <1>7 DEF Stages
  <2>2. x + (Edge(N) + c) - Window <= Edge(N) - Window
    <3> DEFINE e == Edge(N)
               b == Edge(s.right)
    <3>1. /\ e \in Int /\ b \in Int /\ c = 0 - b
          /\ b >= x + Window /\ Window \in Int /\ Window >= 0
      BY <1>4, <1>5, <1>e, <1>s, Constants
    <3> HIDE DEF e, b
    <3>2. x + (e + c) - Window <= e - Window
      BY <3>1
    <3> QED
      BY <3>2 DEF e
  <2>3. x + (Edge(N) + c) - Window \in Int /\ Edge(N) - Window \in Int
    BY <1>e, Constants
  <2> QED
    BY <2>1, <2>2, <2>3 DEF End, AtLeast0
<1>12. s.right # N
  BY <1>2, <1>3
<1>13. v.rows # <<>>
  BY DEF Laid
<1> QED
  BY <1>6, <1>8, <1>9, <1>10, <1>11, <1>12, <1>13 DEF Covers, Ends

\* All rows left it on the right: the list goes back by more than the window, nothing
\* is filled on the right, and the fill on the left begins at 0, not to the left of
\* where the row before the first one ends.
LEMMA RowsGoneRight ==
  ASSUME History, NEW v, NEW s, NEW w, NEW x \in Nat, NEW next \in Nat, NEW dx \in Int,
         dx = x - next, NEW c \in Int, Stages(v, s, w, x, dx, c), next <= v.max,
         Laid(v, x), s.rows = <<>>, s.left = v.left
  PROVE  Covers(w, next) /\ Ends(v, s, w)
<1> DEFINE N == Len(events)
<1>l. Lined(v) /\ Lined(s) /\ Lined(w)
  BY DEF Stages
<1>0. /\ v.left \in Int /\ v.right \in Int /\ s.left \in Int /\ s.right \in Int
      /\ w.left \in Int /\ w.right \in Int /\ N \in Nat /\ N >= 1
      /\ w.right <= N /\ s.right <= N /\ v.right <= N
      /\ s.left >= -1 /\ w.left >= -1
      /\ s.left + 1 = s.right /\ v.left + 1 <= v.right
  BY <1>l, Bounds
<1>w. Edge(w.right) \in Nat /\ Edge(w.left + 1) \in Nat
  BY <1>l, Bounds
<1>s. Edge(s.right) \in Nat /\ Edge(s.left + 1) = Edge(s.right) /\ Edge(v.left + 1) = Edge(s.right)
  BY <1>l, <1>0, Bounds
<1>1. s.right < v.right
  <2>1. v.rows # <<>>
    BY DEF Laid
  <2>2. v.right # v.left + 1
    BY <1>l, <2>1, Bounds
  <2> QED
    BY <1>0, <2>2
<1>2. Edge(s.right) >= next + Window
  <2>1. Edge(s.right) - x + dx >= Window
    BY <1>1 DEF Stages
  <2> QED
    BY <1>s, <2>1, Constants
<1>3. Edge(s.right) <= x
  <2>1. CASE v.left >= 0
    BY <1>s, <2>1 DEF Laid
  <2>2. CASE v.left = -1
    <3>1. s.right = 0
      BY <1>0, <2>2
    <3> QED
      BY <3>1, EdgeStart
  <2> QED
    BY <1>0, <2>1, <2>2
<1>4. c = 0 - Edge(s.right)
  BY DEF Stages, Lead
<1>5. w.right = s.right
  <2>1. w.right >= s.right
    BY DEF Stages
  <2>2. w.right > s.right => Edge(s.right) + c + dx < Window
    BY DEF Stages
  <2>3. ~(Edge(s.right) + c + dx < Window)
    BY <1>2, <1>3, <1>4, <1>s, Constants
  <2> QED
    BY <1>0, <2>1, <2>2, <2>3
<1>6. w.left >= 0 => Edge(w.left + 1) <= next /\ Edge(w.left + 1) < Edge(s.right)
  <2> SUFFICES ASSUME w.left >= 0
               PROVE  Edge(w.left + 1) <= next /\ Edge(w.left + 1) < Edge(s.right)
    OBVIOUS
  <2>1. Edge(w.left + 1) + c + dx <= 0
    BY <1>5 DEF Stages
  <2> QED
    BY <1>2, <1>3, <1>4, <1>w, <1>s, <2>1, Constants
<1>7. w.rows # <<>>
  <2>1. w.left # s.left
    <3> SUFFICES ASSUME w.left = s.left PROVE FALSE
      OBVIOUS
    <3>1. CASE w.left >= 0
      BY <1>6, <1>s, <3>1
    <3>2. CASE w.left = -1
      <4>1. s.right = 0
        BY <1>0, <3>2
      <4>2. Edge(s.right) = 0
        BY <4>1, EdgeStart
      <4> QED
        BY <1>2, <4>2, Constants
    <3> QED
      BY <1>0, <3>1, <3>2
  <2>2. w.right # w.left + 1
    BY <1>0, <1>5, <2>1
  <2> QED
    BY <1>l, <2>2, Bounds
<1>8. w.right < N /\ w.right # N
  BY <1>0, <1>1, <1>5
<1>9. w.max = v.max
  BY <1>8 DEF Stages
<1>10. Edge(w.right) >= next + Window
  BY <1>2, <1>5
<1> QED
  BY <1>6, <1>7, <1>8, <1>9, <1>10 DEF Covers, Ends

LEMMA LayoutLays ==
  ASSUME History, NEW v, NEW x \in Nat, Laid(v, x) \/ Empty(v, x),
         NEW next \in Nat, next <= v.max, NEW dx \in Int, dx = x - next,
         NEW s, s = DropRight(DropLeft(v, dx), dx),
         NEW p, p = Place(FillList(s, dx, x), dx)
  PROVE  Laid(p, next) /\ Ends(v, s, p) /\ s.right \in Int /\ s.right <= Len(events)
<1> DEFINE w == FillList(s, dx, x)
           c == Lead(s, x)
<1>0. p = Place(w, dx) /\ w = FillList(s, dx, x) /\ c = Lead(s, x)
  OBVIOUS
<1> HIDE DEF w, c
<1>1. Lined(v) /\ Placed(v, x) /\ v.max \in Nat
  BY DEF Laid, Empty
<1>2. /\ Lined(s) /\ Placed(s, x) /\ s.left >= v.left /\ s.right <= v.right
      /\ s.max = v.max
      /\ s.left > v.left => Edge(s.left + 1) - x + dx <= 0
      /\ s.right < v.right => Edge(s.right) - x + dx >= Window
  <2>1. Lined(v) /\ Placed(v, x) /\ x \in Int
    BY <1>1
  <2> QED
    BY <2>1, SeenIs
<1>3. /\ Lined(w) /\ w.left <= s.left /\ w.right >= s.right /\ c \in Int
      /\ w.offset = Edge(w.left + 1) - x
      /\ w.right < Len(events) => Edge(w.right) + c + dx >= Window
      /\ w.right > s.right => Edge(s.right) + c + dx < Window
      /\ w.max \in Nat
      /\ w.max = IF s.right < w.right /\ w.right = Len(events)
                   THEN AtLeast0(x + (Edge(w.right) + c) - Window) ELSE s.max
      /\ s.rows # <<>> \/ w.right = s.right =>
            (w.left >= 0 => Edge(w.left + 1) + c + dx <= 0)
  <2>1. s.max \in Nat
    BY <1>1, <1>2
  <2> QED
    BY <1>0, <1>2, <2>1, FillListIs
<1>4. Stages(v, s, w, x, dx, c)
  BY <1>0, <1>1, <1>2, <1>3 DEF Stages
<1>5. Covers(w, next) /\ Ends(v, s, w)
  <2>1. CASE (Laid(v, x) /\ s.rows # <<>>) \/ Empty(v, x)
    BY <1>1, <1>3, <1>4, <2>1, RowsStay
  <2>2. CASE Laid(v, x) /\ s.rows = <<>> /\ s.left > v.left
    BY <1>3, <1>4, <2>2, RowsGoneLeft
  <2>3. CASE Laid(v, x) /\ s.rows = <<>> /\ s.left = v.left
    BY <1>3, <1>4, <2>3, RowsGoneRight
  <2>4. s.left > v.left \/ s.left = v.left
    <3>1. s.left \in Int /\ v.left \in Int
      BY <1>1, <1>2, Bounds
    <3> QED
      BY <1>2, <3>1
  <2> QED
    BY <2>1, <2>2, <2>3, <2>4
<1>6. /\ Lined(p) /\ Placed(p, next)
      /\ p.left = w.left /\ p.right = w.right /\ p.max = w.max /\ p.rows # <<>>
  <2>1. w.rows # <<>>
    BY <1>5 DEF Covers
  <2> QED
    BY <1>0, <1>3, <2>1, PlaceIs
<1>7. Laid(p, next)
  BY <1>3, <1>5, <1>6 DEF Covers, Laid
<1>8. Ends(v, s, p)
  BY <1>5, <1>6 DEF Ends
<1> QED
  BY <1>2, <1>7, <1>8, Bounds

-----------------------------------------------------------------------------
(* The invariant.                                                          *)

Scrollers == [running : BOOLEAN, at : Int, to : Int]

Types ==
  /\ History
  /\ removed \in Seq(Int) /\ currentX \in Nat /\ nextX \in Int /\ maxX \in Nat
  /\ dataChanged \in BOOLEAN /\ cut \in BOOLEAN /\ scroller \in Scrollers

IInv ==
  /\ Types
  /\ ~dataChanged => Laid(Kept, currentX)
  /\ EndInReach

LEMMA InitIInv == Init => IInv
<1> SUFFICES ASSUME Init PROVE IInv
  OBVIOUS
<1>1. PICK w \in Widths : events = <<w>>
  BY DEF Init
<1>2. events \in Seq(Widths) /\ events # <<>>
  BY <1>1
<1>3. /\ removed \in Seq(Int) /\ currentX \in Nat /\ nextX \in Int /\ maxX \in Nat
      /\ dataChanged = TRUE /\ cut = FALSE
  BY SMT DEF Init, Unbounded
<1>4. scroller \in Scrollers
  BY SMT DEF Init, Scrollers, Stopped
<1>5. Types
  BY <1>2, <1>3, <1>4 DEF Types, History
<1> QED
  BY <1>3, <1>5 DEF IInv, EndInReach

LEMMA KeptFields ==
  /\ Kept.rows = rows /\ Kept.left = leftIndex /\ Kept.right = rightIndex
  /\ Kept.offset = displayOffset /\ Kept.queue = removed /\ Kept.max = maxX
BY DEF Kept

LEMMA ResetFields ==
  /\ Reset.rows = <<>> /\ Reset.left = -1 /\ Reset.right = 0
  /\ Reset.offset = 0 /\ Reset.queue = removed /\ Reset.max = Unbounded
BY DEF Reset

LEMMA ResetIsEmpty ==
  ASSUME Types
  PROVE  Empty(Reset, 0)
<1>1. /\ removed \in Seq(Int) /\ Len(events) \in Nat
  BY EventsInt DEF Types
<1>2. Reset \in Views
  <2>1. <<>> \in Seq(Row)
    OBVIOUS
  <2> QED
    BY <1>1, <2>1 DEF Reset, Views, Row, Unbounded
<1>3. Lined(Reset)
  <2>1. Len(Reset.rows) = 0
    BY ResetFields
  <2> QED
    BY <1>1, <1>2, <2>1, ResetFields DEF Lined
<1>4. Placed(Reset, 0)
  <2>1. Edge(Reset.left + 1) = 0 /\ Len(Reset.rows) = 0
    BY ResetFields, EdgeStart
  <2> QED
    BY <2>1, ResetFields DEF Placed
<1> QED
  BY <1>3, <1>4, ResetFields DEF Empty, Unbounded

\* Nothing but the history says what is laid.
LEMMA EdgesStay ==
  ASSUME events' = events
  PROVE  (\A i \in Int : Edge(i)' = Edge(i)) /\ End' = End
<1>1. \A i \in Int : Edge(i)' = Edge(i)
  BY DEF Edge
<1>2. End' = End
  BY DEF End, Edge
<1> QED
  BY <1>1, <1>2

LEMMA StillLaid ==
  ASSUME Types, events' = events, NEW p, NEW n \in Nat, Laid(p, n),
         rows' = p.rows, leftIndex' = p.left, rightIndex' = p.right, displayOffset' = p.offset,
         removed' = p.queue, maxX' = p.max, currentX' = n
  PROVE  Laid(Kept, currentX)' /\ maxX' \in Nat /\ removed' \in Seq(Int)
<1>1. /\ Lined(p) /\ p \in Views /\ p.left \in Int /\ p.right \in Int /\ Len(p.rows) \in Nat
      /\ p.max \in Nat
  <2>1. Lined(p) /\ p.max \in Nat /\ History
    BY DEF Laid, Types
  <2> QED
    BY <2>1, Bounds
<1>2. /\ p.rows \in Seq(Row) /\ p.queue \in Seq(Int) /\ p.max \in Int /\ p.offset \in Int
  BY <1>1, ViewFields
<1> DEFINE k == Kept'
<1>3. /\ k.rows = p.rows /\ k.left = p.left /\ k.right = p.right /\ k.offset = p.offset
      /\ k.max = p.max /\ k \in Views
  <2>1. k = [rows |-> p.rows, left |-> p.left, right |-> p.right, offset |-> p.offset,
             queue |-> p.queue, max |-> p.max, edge |-> 0]
    BY DEF Kept
  <2> HIDE DEF k
  <2> QED
    BY <1>1, <1>2, <2>1 DEF Views, Row
<1> HIDE DEF k
<1>4. Laid(k, n)
  <2>1. Lined(k)
    BY <1>1, <1>3 DEF Lined
  <2>2. Placed(k, n)
    BY <1>3 DEF Laid, Placed
  <2> QED
    BY <1>3, <2>1, <2>2 DEF Laid
<1>5. Laid(Kept, currentX)' <=> Laid(k, n)
  BY DEF Laid, Lined, Placed, Edge, End, Views, k
<1> QED
  BY <1>1, <1>2, <1>4, <1>5

\* A step that leaves the history and the children as they are.
LEMMA ChildrenStay ==
  ASSUME IInv, UNCHANGED <<events, children, dataChanged>>, Types'
  PROVE  IInv'
<1>1. /\ rows' = rows /\ leftIndex' = leftIndex /\ rightIndex' = rightIndex
      /\ displayOffset' = displayOffset /\ removed' = removed /\ maxX' = maxX
      /\ currentX' = currentX /\ cut' = cut /\ dataChanged' = dataChanged /\ events' = events
  BY DEF children
<1>2. ~dataChanged' => Laid(Kept, currentX)'
  <2> SUFFICES ASSUME ~dataChanged PROVE Laid(Kept, currentX)'
    BY <1>1
  <2>1. Types /\ Laid(Kept, currentX) /\ currentX \in Nat
    BY DEF IInv, Types
  <2> QED
    BY <1>1, <2>1, KeptFields, StillLaid
<1>3. EndInReach'
  <2>1. End' = End
    BY <1>1, EdgesStay
  <2> QED
    BY <1>1, <2>1 DEF IInv, EndInReach
<1> QED
  BY <1>2, <1>3 DEF IInv

LEMMA TouchStep == IInv /\ (Down \/ Drag \/ Fling) => IInv'
<1> SUFFICES ASSUME IInv, Down \/ Drag \/ Fling PROVE IInv'
  OBVIOUS
<1>1. UNCHANGED <<events, children, dataChanged>>
  BY DEF Down, Drag, Fling
<1>2. removed' = removed /\ currentX' = currentX /\ maxX' = maxX /\ cut' = cut /\ events' = events
      /\ dataChanged' = dataChanged
  BY <1>1 DEF children
<1>3. nextX' \in Int
  <2>1. nextX \in Int
    BY DEF IInv, Types
  <2>2. CASE Drag
    BY <2>1, <2>2, Constants DEF Drag
  <2>3. CASE Down \/ Fling
    BY <2>1, <2>3 DEF Down, Fling
  <2> QED
    BY <2>2, <2>3
<1>4. scroller' \in Scrollers
  <2>1. nextX \in Int /\ scroller \in Scrollers
    BY DEF IInv, Types
  <2>2. CASE Down
    BY <2>2 DEF Down, Stopped, Scrollers
  <2>3. CASE Drag
    BY <2>1, <2>3 DEF Drag
  <2>4. CASE Fling
    <3>1. PICK to \in 0 .. MaxPlace : scroller' = [running |-> TRUE, at |-> nextX, to |-> to]
      BY <2>4 DEF Fling
    <3> QED
      BY <2>1, <3>1 DEF Scrollers
  <2> QED
    BY <2>2, <2>3, <2>4
<1>5. Types'
  BY <1>2, <1>3, <1>4 DEF IInv, Types, History
<1> QED
  BY <1>1, <1>5, ChildrenStay

LEMMA HistoryStep == IInv /\ HistoryChanges => IInv'
<1> SUFFICES ASSUME IInv, HistoryChanges PROVE IInv'
  OBVIOUS
<1>1. History
  BY DEF IInv, Types
<1>2. events' \in Seq(Widths) /\ events' # <<>>
  <2>1. events \in Seq(Widths) /\ events # <<>>
    BY <1>1 DEF History
  <2>2. events' \in Seq(Widths)
    <3>1. CASE \E w \in Widths : events' \in {Append(events, w), <<w>>}
      <4>1. PICK w \in Widths : events' = Append(events, w) \/ events' = <<w>>
        BY <3>1, Zenon
      <4>2. Append(events, w) \in Seq(Widths)
        BY <2>1, SMT
      <4>3. <<w>> \in Seq(Widths)
        BY SMT
      <4> QED
        BY <4>1, <4>2, <4>3, Zenon
    <3>2. CASE events' = Front(events)
      BY <2>1, <3>2, SMT DEF Front
    <3>3. (\E w \in Widths : events' \in {Append(events, w), <<w>>}) \/ events' = Front(events)
      BY SMT DEF HistoryChanges
    <3> QED
      BY <3>1, <3>2, <3>3, SMT
  <2>3. Len(events') \in 1 .. MaxCount
    BY DEF HistoryChanges
  <2> QED
    BY <2>2, <2>3
<1>3. /\ dataChanged' = TRUE /\ nextX' = nextX /\ scroller' = scroller
      /\ removed' = removed /\ currentX' = currentX /\ maxX' = maxX /\ cut' = cut
  BY DEF HistoryChanges, children
<1>4. Types'
  BY <1>2, <1>3 DEF IInv, Types, History
<1> QED
  BY <1>3, <1>4 DEF IInv, EndInReach


LEMMA ClampedIs ==
  ASSUME NEW asked \in Int, NEW max \in Nat
  PROVE  Clamped(asked, max) \in Nat /\ Clamped(asked, max) <= max
BY DEF Clamped

\* A scroller that went on is a scroller.
LEMMA ScrolledIs ==
  ASSUME NEW s \in Scrollers, NEW t \in Scrolled(s)
  PROVE  t \in Scrollers
<1>1. s.at \in Int /\ s.to \in Int
  BY DEF Scrollers
<1>2. PICK x \in (s.at .. s.to) \cup (s.to .. s.at) : t = [s EXCEPT !.at = x, !.running = x # s.to]
  BY DEF Scrolled
<1>3. x \in Int
  BY <1>1
<1> QED
  BY <1>2, <1>3 DEF Scrollers

\* A layout from v, which is what the change of the history or the last layout left,
\* with the values it computes on its way.
Lays(v, x, s, asked, n, dx, seen, p) ==
  /\ (dataChanged /\ v = Reset /\ x = 0) \/ (~dataChanged /\ v = Kept /\ x = currentX)
  /\ x \in Nat /\ s \in Scrollers /\ asked \in Int
  /\ n = Clamped(asked, v.max) /\ dx = x - n
  /\ seen = DropRight(DropLeft(v, dx), dx) /\ p = Place(FillList(seen, dx, x), dx)
  /\ rows' = p.rows /\ leftIndex' = p.left /\ rightIndex' = p.right
  /\ displayOffset' = p.offset /\ removed' = p.queue /\ maxX' = p.max
  /\ currentX' = n /\ nextX' = n
  /\ scroller' = Stopped \/ scroller' = s
  /\ cut' = IF p.right = Len(events) /\ seen.right < Len(events)
              THEN v.rows # <<>> /\ seen.rows = <<>> ELSE cut /\ ~dataChanged
  /\ dataChanged' = FALSE /\ events' = events

\* After it the end is right unless it went past every row, or an earlier one did.
LEMMA LayoutFrom ==
  ASSUME IInv, NEW v, NEW x, NEW s, NEW asked, NEW n, NEW dx, NEW seen, NEW p,
         Lays(v, x, s, asked, n, dx, seen, p)
  PROVE  IInv'
<1>a. /\ (dataChanged /\ v = Reset /\ x = 0) \/ (~dataChanged /\ v = Kept /\ x = currentX)
      /\ x \in Nat /\ s \in Scrollers /\ asked \in Int
      /\ n = Clamped(asked, v.max) /\ dx = x - n
      /\ seen = DropRight(DropLeft(v, dx), dx) /\ p = Place(FillList(seen, dx, x), dx)
      /\ rows' = p.rows /\ leftIndex' = p.left /\ rightIndex' = p.right
      /\ displayOffset' = p.offset /\ removed' = p.queue /\ maxX' = p.max
      /\ currentX' = n /\ nextX' = n
      /\ scroller' = Stopped \/ scroller' = s
      /\ cut' = IF p.right = Len(events) /\ seen.right < Len(events)
                  THEN v.rows # <<>> /\ seen.rows = <<>> ELSE cut /\ ~dataChanged
      /\ dataChanged' = FALSE /\ events' = events
  BY Zenon DEF Lays
<1> USE <1>a
<1> DEFINE N == Len(events)
<1>0. Types /\ History
  BY DEF IInv, Types
<1>1. Laid(v, x) \/ Empty(v, x)
  <2>1. CASE dataChanged
    BY <1>0, <2>1, ResetIsEmpty
  <2>2. CASE ~dataChanged
    BY <2>2 DEF IInv
  <2> QED
    BY <2>1, <2>2
<1>2. v.max \in Nat
  BY <1>1 DEF Laid, Empty
<1>3. n \in Nat /\ n <= v.max
  BY <1>2, ClampedIs
<1>4. dx \in Int
  BY <1>3
<1>5. Laid(p, n) /\ Ends(v, seen, p) /\ seen.right \in Int /\ seen.right <= N
  BY <1>0, <1>1, <1>3, <1>4, LayoutLays
<1>6. Laid(Kept, currentX)' /\ maxX' \in Nat /\ removed' \in Seq(Int)
  BY <1>0, <1>3, <1>5, StillLaid
<1>7. Types'
  <2>1. scroller' \in Scrollers
    <3>1. Stopped \in Scrollers
      BY SMT DEF Scrollers, Stopped
    <3> QED
      BY <3>1, Zenon
  <2>2. cut' \in BOOLEAN
    <3>1. cut \in BOOLEAN /\ dataChanged \in BOOLEAN
      BY <1>0 DEF Types
    <3>2. CASE p.right = N /\ seen.right < N
      BY <3>2, Zenon
    <3>3. CASE ~(p.right = N /\ seen.right < N)
      BY <3>1, <3>3, Zenon
    <3> QED
      BY <3>2, <3>3
  <2>3. events' \in Seq(Widths) /\ events' # <<>>
    BY <1>0 DEF History
  <2>4. currentX' \in Nat /\ nextX' \in Int /\ dataChanged' \in BOOLEAN
    <3>1. currentX' \in Nat /\ nextX' \in Int
      BY <1>3
    <3>2. dataChanged' \in BOOLEAN
      BY Zenon
    <3> QED
      BY <3>1, <3>2
  <2> QED
    BY <1>6, <2>1, <2>2, <2>3, <2>4 DEF Types, History
<1>8. EndInReach'
  <2> SUFFICES ASSUME ~cut' PROVE p.max \in {Unbounded, End} /\ (p.right = N => p.max = End)
    <3>1. End' = End /\ Len(events') = N
      BY EdgesStay
    <3> QED
      BY <3>1 DEF EndInReach
  <2>1. p.right \in Int /\ p.right <= N /\ N \in Nat /\ N >= 1
    <3>1. Lined(p)
      BY <1>5 DEF Laid
    <3> QED
      BY <1>0, <3>1, Bounds
  <2>2. CASE p.right = N /\ seen.right < N
    <3>1. ~(v.rows # <<>> /\ seen.rows = <<>>)
      BY <2>2
    <3>2. p.max = End
      BY <1>5, <2>2, <3>1 DEF Ends
    <3> QED
      BY <3>2
  <2>3. CASE ~(p.right = N /\ seen.right < N)
    <3>1. dataChanged \/ ~cut
      BY <2>3
    <3>2. v.max \in {Unbounded, End}
      <4>1. CASE dataChanged
        BY <4>1, ResetFields
      <4>2. CASE ~dataChanged
        BY <3>1, <4>2, KeptFields DEF IInv, EndInReach
      <4> QED
        BY <4>1, <4>2
    <3>3. p.right < N \/ (p.right = N /\ seen.right = N)
      BY <1>5, <2>1, <2>3
    <3>4. p.max = v.max
      BY <1>5, <3>3 DEF Ends
    <3>5. ASSUME p.right = N PROVE p.max = End
      <4>1. v.right = N
        BY <1>5, <2>1, <3>3, <3>5 DEF Ends
      <4>2. ~dataChanged
        <5> SUFFICES ASSUME dataChanged PROVE FALSE
          OBVIOUS
        <5>1. v.right = 0
          BY ResetFields
        <5> QED
          BY <2>1, <4>1, <5>1
      <4>3. rightIndex = N /\ v.max = maxX
        BY <4>1, <4>2, KeptFields
      <4> QED
        BY <3>1, <3>4, <4>2, <4>3 DEF IInv, EndInReach
    <3> QED
      BY <3>2, <3>4, <3>5
  <2> QED
    BY <2>2, <2>3
<1> QED
  BY <1>6, <1>7, <1>8 DEF IInv

LEMMA LayoutStep == IInv /\ Layout => IInv'
<1> SUFFICES ASSUME IInv, Layout PROVE IInv'
  OBVIOUS
<1> DEFINE v == IF dataChanged THEN Reset ELSE Kept
           x == IF dataChanged THEN 0 ELSE currentX
           Asked(s) == IF dataChanged THEN currentX ELSE IF scroller.running THEN s.at ELSE nextX
           next(s) == Clamped(Asked(s), v.max)
           dx(s) == x - next(s)
           seen(s) == DropRight(DropLeft(v, dx(s)), dx(s))
           p(s) == Place(FillList(seen(s), dx(s), x), dx(s))
<1>1. PICK s \in IF scroller.running /\ ~dataChanged THEN Scrolled(scroller) ELSE {Stopped} :
        /\ rows' = p(s).rows /\ leftIndex' = p(s).left /\ rightIndex' = p(s).right
        /\ displayOffset' = p(s).offset /\ removed' = p(s).queue /\ maxX' = p(s).max
        /\ currentX' = next(s) /\ nextX' = next(s)
        /\ scroller' = IF Asked(s) <= 0 \/ Asked(s) >= v.max THEN Stopped ELSE s
        /\ cut' = IF p(s).right = Len(events) /\ seen(s).right < Len(events)
                    THEN v.rows # <<>> /\ seen(s).rows = <<>>
                    ELSE cut /\ ~dataChanged
  BY ZenonT(60) DEF Layout
<1>2. dataChanged' = FALSE /\ events' = events
  BY Zenon DEF Layout
<1>3. /\ currentX \in Nat /\ nextX \in Int /\ scroller \in Scrollers
      /\ dataChanged \in BOOLEAN
  BY DEF IInv, Types
<1>4. s \in Scrollers
  <2>1. CASE scroller.running /\ ~dataChanged
    BY <1>3, <2>1, ScrolledIs
  <2>2. CASE ~(scroller.running /\ ~dataChanged)
    <3>1. s = Stopped
      BY <2>2, Zenon
    <3> QED
      BY <3>1 DEF Stopped, Scrollers
  <2> QED
    BY <2>1, <2>2
<1>5. Asked(s) \in Int
  BY <1>3, <1>4 DEF Scrollers
<1>6. \/ dataChanged /\ v = Reset /\ x = 0
      \/ ~dataChanged /\ v = Kept /\ x = currentX
  OBVIOUS
<1>7. x \in Nat
  BY <1>3
<1>8. scroller' = Stopped \/ scroller' = s
  BY <1>1, Zenon
<1> DEFINE asked == Asked(s)
           n == next(s)
           d == dx(s)
           seen1 == seen(s)
           p1 == p(s)
<1>9. Lays(v, x, s, asked, n, d, seen1, p1)
  BY <1>1, <1>2, <1>4, <1>5, <1>6, <1>7, <1>8, Zenon DEF Lays
<1> HIDE DEF v, x, asked, n, d, seen1, p1
<1> QED
  BY <1>9, LayoutFrom

LEMMA StutterStep == IInv /\ UNCHANGED vars => IInv'
<1> SUFFICES ASSUME IInv, UNCHANGED vars PROVE IInv'
  OBVIOUS
<1>1. /\ UNCHANGED <<events, children, dataChanged>>
      /\ removed' = removed /\ currentX' = currentX /\ maxX' = maxX /\ cut' = cut /\ events' = events
      /\ dataChanged' = dataChanged /\ nextX' = nextX /\ scroller' = scroller
  BY DEF vars, children
<1>2. Types'
  BY <1>1 DEF IInv, Types, History
<1> QED
  BY <1>1, <1>2, ChildrenStay

LEMMA NextKeeps == IInv /\ [Next]_vars => IInv'
BY TouchStep, HistoryStep, LayoutStep, StutterStep DEF Next

\* Between a layout and the next change of the history the list is laid out for the
\* place it is scrolled to: there are rows, they are lined up with consecutive items and
\* placed where those are, they cover the window as far as the history goes, and an end
\* measured with the last event laid out is never beyond the end of the history.
THEOREM LaidOut == Spec => []IInv
BY InitIInv, NextKeeps, PTL DEF Spec

LEMMA ShownIsImplied == IInv => HistoryShown
<1> SUFFICES ASSUME IInv, ~dataChanged
             PROVE  /\ rightIndex = leftIndex + Len(rows) + 1
                    /\ \A k \in DOMAIN rows :
                          /\ rows[k].item = leftIndex + k
                          /\ rows[k].left = Edge(rows[k].item) - currentX
                    /\ \A item \in 0 .. Len(events) - 1 :
                          (Edge(item) < currentX + Window /\ Edge(item + 1) > currentX) =>
                              item \in leftIndex + 1 .. rightIndex - 1
  BY DEF HistoryShown
<1> DEFINE N == Len(events)
<1>1. History /\ Laid(Kept, currentX) /\ currentX \in Nat
  BY DEF IInv, Types
<1>2. Lined(Kept) /\ Placed(Kept, currentX)
  BY <1>1 DEF Laid
<1>3. /\ leftIndex \in Int /\ rightIndex \in Int /\ leftIndex >= -1 /\ rightIndex <= N
      /\ N \in Nat /\ rightIndex = leftIndex + Len(rows) + 1
      /\ rightIndex \in 0 .. N /\ leftIndex + 1 \in 0 .. N
      /\ Edge(rightIndex) \in Nat /\ Edge(leftIndex + 1) \in Nat
  BY <1>1, <1>2, Bounds, KeptFields
<1>4. DOMAIN rows = 1 .. Len(rows)
  <2>1. rows \in Seq(Row)
    BY <1>1, <1>2, Bounds, ViewFields, KeptFields
  <2> QED
    BY <2>1
<1>5. ASSUME NEW k \in DOMAIN rows
      PROVE  rows[k].item = leftIndex + k /\ rows[k].left = Edge(rows[k].item) - currentX
  <2>1. rows[k].item = leftIndex + k
    BY <1>2, <1>4, KeptFields DEF Lined
  <2>2. rows[k].left = Edge(leftIndex + k) - currentX
    BY <1>2, <1>4, KeptFields DEF Placed
  <2> QED
    BY <2>1, <2>2
<1>6. ASSUME NEW item \in 0 .. N - 1,
             Edge(item) < currentX + Window, Edge(item + 1) > currentX
      PROVE  item \in leftIndex + 1 .. rightIndex - 1
  <2>1. item \in 0 .. N /\ item + 1 \in 0 .. N /\ item \in Int
    BY <1>3
  <2>2. Edge(item) \in Nat /\ Edge(item + 1) \in Nat
    BY <1>1, <2>1, EdgeNat
  <2>3. ASSUME item <= leftIndex PROVE FALSE
    <3>1. leftIndex >= 0 /\ item + 1 <= leftIndex + 1
      BY <1>3, <2>1, <2>3
    <3>2. Edge(leftIndex + 1) <= currentX
      BY <1>1, <3>1, KeptFields DEF Laid
    <3>3. Edge(item + 1) <= Edge(leftIndex + 1)
      BY <1>1, <1>3, <2>1, <3>1, EdgesGrow
    <3> QED
      BY <1>1, <1>3, <1>6, <2>2, <3>2, <3>3
  <2>4. ASSUME item >= rightIndex PROVE FALSE
    <3>1. rightIndex < N
      BY <1>3, <2>1, <2>4
    <3>2. Edge(rightIndex) >= currentX + Window
      BY <1>1, <3>1, KeptFields DEF Laid
    <3>3. Edge(rightIndex) <= Edge(item)
      BY <1>1, <1>3, <2>1, <2>4, EdgesGrow
    <3> QED
      BY <1>1, <1>3, <1>6, <2>2, <3>2, <3>3, Constants
  <2> QED
    BY <1>3, <2>1, <2>3, <2>4
<1> QED
  BY <1>3, <1>5, <1>6

\* What the list shows is right after every layout: the children are consecutive items
\* of the history, each stands where the place the list is scrolled to puts it, and no
\* row that reaches into the window is missing.  It is so for every window, for rows of
\* any widths up to the window's, however far a finger or a fling took the list since
\* the last layout: when all rows leave at once, the loops of onLayout measure from an
\* edge that is not where the items are, and still stop late enough on both sides.
THEOREM HistoryCorrect == Spec => []HistoryShown
BY LaidOut, ShownIsImplied, PTL

\* The end the list can be scrolled to is unknown or exact, and exact once the last event
\* has been laid out, unless a layout that went past every row it had measured it.
THEOREM EndCorrect == Spec => []EndInReach
<1>1. IInv => EndInReach
  BY DEF IInv
<1> QED
  BY <1>1, LaidOut, PTL
=============================================================================
