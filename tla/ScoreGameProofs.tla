-------------------------- MODULE ScoreGameProofs --------------------------
(***************************************************************************)
(* Proofs about the scoring screen, for every win score and every bound.   *)
(***************************************************************************)
EXTENDS ScoreGame, SeqFoldsProofs

\* A history of a game: START, and then anything but START.  A gamelle costs
\* what the multiplier was.
History(ev) ==
  /\ ev \in Seq(BabyEvent)
  /\ ev # <<>>
  /\ ev[1].type = "START"
  /\ \A i \in 2..Len(ev) : /\ ev[i].type # "START"
                           /\ ev[i].type = "GAMELLE" => ev[i].scoreDiff \in -3 .. -1

\* What may be added to a history.
Addition(e) == /\ e \in BabyEvent
               /\ e.type # "START"
               /\ e.type = "GAMELLE" => e.scoreDiff \in -3 .. -1

\* Adding one event to a history leaves a history.
LEMMA AppendHistory ==
  ASSUME NEW ev, History(ev), NEW e, Addition(e)
  PROVE  /\ History(Append(ev, e))
         /\ Len(Append(ev, e)) = Len(ev) + 1
         /\ Last(Append(ev, e)) = e
<1>1. /\ ev \in Seq(BabyEvent) /\ Len(ev) \in Nat /\ Len(ev) >= 1 /\ e \in BabyEvent
  BY DEF History, Addition
<1> DEFINE a == Append(ev, e)
<1>2. /\ a \in Seq(BabyEvent) /\ Len(a) = Len(ev) + 1
      /\ a[Len(ev) + 1] = e
      /\ \A i \in 1..Len(ev) : a[i] = ev[i]
  BY <1>1
<1>3. a # <<>> /\ Last(a) = e
  BY <1>1, <1>2 DEF Last
<1>4. \A i \in 2..Len(a) : i \in 2..Len(ev) \/ i = Len(ev) + 1
  BY <1>1, <1>2
<1>5. History(a)
  BY <1>1, <1>2, <1>3, <1>4 DEF History, Addition
<1> QED
  BY <1>2, <1>3, <1>5

\* A history of more than its START is still one without its last event.
LEMMA FrontHistory ==
  ASSUME NEW ev, History(ev), Len(ev) >= 2
  PROVE  History(Front(ev)) /\ Len(Front(ev)) = Len(ev) - 1
<1>1. ev \in Seq(BabyEvent) /\ Len(ev) \in Nat
  BY DEF History
<1> DEFINE f == Front(ev)
<1>2. /\ f \in Seq(BabyEvent) /\ Len(f) = Len(ev) - 1
      /\ \A i \in 1..Len(f) : f[i] = ev[i]
  BY <1>1 DEF Front
<1>3. f # <<>> /\ f[1] = ev[1]
  BY <1>1, <1>2
<1>4. History(f)
  BY <1>1, <1>2, <1>3 DEF History
<1> QED
  BY <1>2, <1>4

\* The last event of a history is one of its events, and START only if alone.
LEMMA LastOfHistory ==
  ASSUME NEW ev, History(ev)
  PROVE  /\ Last(ev) \in BabyEvent
         /\ (Last(ev).type = "START" <=> Len(ev) = 1)
         /\ Last(ev).type = "GAMELLE" => Last(ev).scoreDiff \in -3 .. -1
<1>1. ev \in Seq(BabyEvent) /\ Len(ev) \in Nat /\ Len(ev) >= 1
  BY DEF History
<1>2. /\ \A i \in 1..Len(ev) : ev[i] \in BabyEvent
      /\ Last(ev) = ev[Len(ev)] /\ Len(ev) \in 1..Len(ev)
  BY <1>1 DEF Last
<1>3. CASE Len(ev) = 1
  BY <1>2, <1>3 DEF History
<1>4. CASE Len(ev) # 1
  <2>1. \A n \in Nat : n >= 1 /\ n # 1 => n \in 2..n
    OBVIOUS
  <2>2. Len(ev) \in 2..Len(ev)
    BY <1>1, <1>4, <2>1
  <2> QED
    BY <1>2, <1>4, <2>2 DEF History
<1> QED
  BY <1>3, <1>4

\* The caps of setScore: the pair it adds, once or twice, keeps a history one.
LEMMA More10History ==
  ASSUME NEW ev, History(ev), NEW d \in Int, NEW e \in Int
  PROVE  /\ History(ev \o More10Pair(d))
         /\ Last(ev \o More10Pair(d)).type = "MORE10"
         /\ Len(ev \o More10Pair(d)) >= Len(ev)
         /\ History(ev \o (More10Pair(e) \o More10Pair(d)))
         /\ Last(ev \o (More10Pair(e) \o More10Pair(d))).type = "MORE10"
         /\ Len(ev \o (More10Pair(e) \o More10Pair(d))) >= Len(ev)
<1> DEFINE blue(x) == Event("MORE10", TRUE, -x)
           red(x)  == Event("MORE10", FALSE, -x)
<1>1. \A x \in Int : /\ Addition(blue(x)) /\ Addition(red(x))
                     /\ blue(x).type = "MORE10" /\ red(x).type = "MORE10"
  BY DEF Addition, Event, BabyEvent, EventTypes
<1>2. \A h : \A x \in Int : History(h) => h \o More10Pair(x) = Append(Append(h, blue(x)), red(x))
  <2> SUFFICES ASSUME NEW h, NEW x \in Int, History(h)
               PROVE  h \o More10Pair(x) = Append(Append(h, blue(x)), red(x))
    OBVIOUS
  <2>1. h \in Seq(BabyEvent) /\ blue(x) \in BabyEvent /\ red(x) \in BabyEvent
    BY <1>1 DEF History, Addition
  <2> HIDE DEF blue, red
  <2>2. h \o <<blue(x), red(x)>> = Append(Append(h, blue(x)), red(x))
    BY <2>1
  <2> QED
    BY <2>2 DEF More10Pair, blue, red
<1>3. \A h : \A x \in Int : History(h) =>
        /\ History(h \o More10Pair(x))
        /\ Last(h \o More10Pair(x)).type = "MORE10"
        /\ Len(h \o More10Pair(x)) = Len(h) + 2
  <2> HIDE DEF blue, red
  <2> SUFFICES ASSUME NEW h, NEW x \in Int, History(h)
               PROVE  /\ History(h \o More10Pair(x))
                      /\ Last(h \o More10Pair(x)).type = "MORE10"
                      /\ Len(h \o More10Pair(x)) = Len(h) + 2
    OBVIOUS
  <2>1. History(Append(h, blue(x))) /\ Len(Append(h, blue(x))) = Len(h) + 1
    BY <1>1, AppendHistory
  <2> DEFINE a == Append(Append(h, blue(x)), red(x))
  <2>2. History(a) /\ Len(a) = Len(Append(h, blue(x))) + 1 /\ Last(a) = red(x)
    BY <1>1, <2>1, AppendHistory
  <2>3. Len(h) \in Nat
    BY DEF History
  <2>4. h \o More10Pair(x) = a
    BY <1>2
  <2>5. Last(a).type = "MORE10"
    BY <1>1, <2>2
  <2>6. Len(a) = Len(h) + 2
    BY <2>1, <2>2, <2>3
  <2> QED
    BY <2>2, <2>4, <2>5, <2>6
<1>4. ev \o (More10Pair(e) \o More10Pair(d)) = (ev \o More10Pair(e)) \o More10Pair(d)
  BY <1>1 DEF More10Pair, History, Addition
<1>5. Len(ev) \in Nat
  BY DEF History
<1> QED
  BY <1>3, <1>4, <1>5
-----------------------------------------------------------------------------
\* setScore calls itself when a team is over the win.  Its second call is the
\* last: whoever was over the win, nobody is after two caps.
LEMMA TwoCapsSuffice ==
  ASSUME NEW b \in Int, NEW r \in Int, Over(b, r)
  PROVE  LET d1 == Excess(b, r)
             d2 == Excess(b - d1, r - d1)
         IN  /\ d1 \in Int /\ d2 \in Int
             /\ Over(b - d1, r - d1) => ~Over(b - d1 - d2, r - d1 - d2)
<1> WinScore \in Int
  BY WinScoreAssumption
<1>1. CASE b > WinScore
  BY <1>1 DEF Over, Excess
<1>2. CASE ~(b > WinScore)
  BY <1>2 DEF Over, Excess
<1> QED
  BY <1>1, <1>2

\* The timer is posted exactly at the win of a game that is on.
TimerRight(g) == g.endPending = (g.status = "STARTED" /\ AtWin(g.blue, g.red))

\* The tail of setScore sets the two scores, adds the events it is given, and
\* leaves the timer as the scores say.
LEMMA SettleEffect ==
  ASSUME NEW g \in Games, NEW b \in Int, NEW r \in Int, NEW more,
         g.events \o more \in Seq(BabyEvent)
  PROVE  LET s == Settle(g, b, r, more)
         IN  /\ s \in Games
             /\ s.blue = b /\ s.red = r
             /\ s.events = g.events \o more
             /\ s.factor = g.factor /\ s.status = g.status /\ s.enabled = g.enabled
             /\ TimerRight(s)
<1> DEFINE s == Settle(g, b, r, more)
<1>1. /\ s.blue = b /\ s.red = r
      /\ s.events = g.events \o more
      /\ s.factor = g.factor /\ s.status = g.status /\ s.enabled = g.enabled
      /\ s.endPending = (g.status = "STARTED" /\ AtWin(b, r))
  BY DEF Settle, Games
<1>2. s \in Games
  BY DEF Settle, Games, AtWin
<1>3. TimerRight(s)
  BY <1>1 DEF TimerRight
<1> QED
  BY <1>1, <1>2, <1>3

\* A game that has been begun.
Begun(g) == g \in Games /\ History(g.events) /\ g.factor \in 1..3

\* What setScore does to a game that has been begun, whatever the scores.
LEMMA SetScoreEffect ==
  ASSUME NEW g, Begun(g), NEW b \in Int, NEW r \in Int
  PROVE  LET s == SetScore(g, b, r)
         IN  /\ Begun(s)
             /\ Len(s.events) >= Len(g.events)
             /\ s.factor = g.factor /\ s.status = g.status /\ s.enabled = g.enabled
             /\ TimerRight(s)
             /\ Last(g.events).type # "MORE10" => ~Over(s.blue, s.red)
             /\ s.events # g.events => Last(s.events).type = "MORE10"
             /\ ~Over(b, r) => s.blue = b /\ s.red = r /\ s.events = g.events
<1> DEFINE s  == SetScore(g, b, r)
           d1 == Excess(b, r)
           d2 == Excess(b - d1, r - d1)
<1>1. /\ g \in Games /\ g.events \in Seq(BabyEvent) /\ g.events # <<>>
      /\ History(g.events) /\ Len(g.events) \in Nat
  BY DEF Begun, History
<1>2. /\ g.events \o <<>> = g.events
      /\ g.events \o <<>> \in Seq(BabyEvent)
  BY <1>1
<1> DEFINE Settled(t, x, y, more) ==
              /\ t \in Games
              /\ t.blue = x /\ t.red = y
              /\ t.events = g.events \o more
              /\ t.factor = g.factor /\ t.status = g.status /\ t.enabled = g.enabled
              /\ TimerRight(t)
<1>5. \A x, y \in Int : \A more :
        g.events \o more \in Seq(BabyEvent) => Settled(Settle(g, x, y, more), x, y, more)
  BY <1>1, SettleEffect
<1> HIDE DEF Settled
<1>3. CASE ~Over(b, r) \/ (Over(b, r) /\ Last(g.events).type = "MORE10")
  <2>1. s = Settle(g, b, r, <<>>)
    BY <1>1, <1>3 DEF SetScore
  <2> HIDE DEF s
  <2>0. Settled(s, b, r, <<>>)
    BY <1>2, <1>5, <2>1
  <2>2. /\ s \in Games /\ s.blue = b /\ s.red = r /\ s.events = g.events
        /\ s.factor = g.factor /\ s.status = g.status /\ s.enabled = g.enabled
        /\ TimerRight(s)
    BY <1>2, <2>0 DEF Settled
  <2>3. /\ Begun(s)
        /\ Len(s.events) >= Len(g.events)
        /\ Last(g.events).type # "MORE10" => ~Over(s.blue, s.red)
        /\ s.events # g.events => Last(s.events).type = "MORE10"
        /\ ~Over(b, r) => s.blue = b /\ s.red = r /\ s.events = g.events
    <3>1. Begun(s)
      BY <2>2 DEF Begun
    <3>2. Len(s.events) >= Len(g.events)
      BY <1>1, <2>2
    <3>3. Last(g.events).type # "MORE10" => ~Over(s.blue, s.red)
      BY <1>3, <2>2
    <3> QED
      BY <2>2, <3>1, <3>2, <3>3
  <2> QED
    BY <2>2, <2>3 DEF s
<1>4. CASE Over(b, r) /\ Last(g.events).type # "MORE10"
  <2>1. d1 \in Int /\ d2 \in Int /\ (Over(b - d1, r - d1) => ~Over(b - d1 - d2, r - d1 - d2))
    BY <1>4, TwoCapsSuffice
  <2> HIDE DEF d1, d2
  <2>2. /\ History(g.events \o More10Pair(d1))
        /\ Last(g.events \o More10Pair(d1)).type = "MORE10"
        /\ Len(g.events \o More10Pair(d1)) >= Len(g.events)
        /\ History(g.events \o (More10Pair(d2) \o More10Pair(d1)))
        /\ Last(g.events \o (More10Pair(d2) \o More10Pair(d1))).type = "MORE10"
        /\ Len(g.events \o (More10Pair(d2) \o More10Pair(d1))) >= Len(g.events)
    BY <1>1, <2>1, More10History
  <2>3. CASE ~Over(b - d1, r - d1)
    <3>1. s = Settle(g, b - d1, r - d1, More10Pair(d1))
      BY <1>1, <1>4, <2>3 DEF SetScore, d1, d2
    <3>2. g.events \o More10Pair(d1) \in Seq(BabyEvent)
      BY <2>2 DEF History
    <3> HIDE DEF s
    <3>0. b - d1 \in Int /\ r - d1 \in Int
      BY <2>1
    <3>a. Settled(s, b - d1, r - d1, More10Pair(d1))
      BY <1>5, <3>0, <3>1, <3>2
    <3>3. /\ s \in Games /\ s.blue = b - d1 /\ s.red = r - d1
          /\ s.events = g.events \o More10Pair(d1)
          /\ s.factor = g.factor /\ s.status = g.status /\ s.enabled = g.enabled
          /\ TimerRight(s)
      BY <3>a DEF Settled
    <3>4. /\ Begun(s)
          /\ Len(s.events) >= Len(g.events)
          /\ Last(g.events).type # "MORE10" => ~Over(s.blue, s.red)
          /\ s.events # g.events => Last(s.events).type = "MORE10"
          /\ ~Over(b, r) => s.blue = b /\ s.red = r /\ s.events = g.events
      BY <1>1, <1>4, <2>2, <2>3, <3>3 DEF Begun
    <3> QED
      BY <3>3, <3>4 DEF s
  <2>4. CASE Over(b - d1, r - d1)
    <3>1. s = Settle(g, b - d1 - d2, r - d1 - d2, More10Pair(d2) \o More10Pair(d1))
      BY <1>1, <1>4, <2>4 DEF SetScore, d1, d2
    <3>2. g.events \o (More10Pair(d2) \o More10Pair(d1)) \in Seq(BabyEvent)
      BY <2>2 DEF History
    <3> HIDE DEF s
    <3>0. b - d1 - d2 \in Int /\ r - d1 - d2 \in Int
      BY <2>1
    <3>a. Settled(s, b - d1 - d2, r - d1 - d2, More10Pair(d2) \o More10Pair(d1))
      BY <1>5, <3>0, <3>1, <3>2
    <3>3. /\ s \in Games /\ s.blue = b - d1 - d2 /\ s.red = r - d1 - d2
          /\ s.events = g.events \o (More10Pair(d2) \o More10Pair(d1))
          /\ s.factor = g.factor /\ s.status = g.status /\ s.enabled = g.enabled
          /\ TimerRight(s)
      BY <3>a DEF Settled
    <3>4. /\ Begun(s)
          /\ Len(s.events) >= Len(g.events)
          /\ Last(g.events).type # "MORE10" => ~Over(s.blue, s.red)
          /\ s.events # g.events => Last(s.events).type = "MORE10"
          /\ ~Over(b, r) => s.blue = b /\ s.red = r /\ s.events = g.events
      BY <1>1, <1>4, <2>1, <2>2, <2>4, <3>3 DEF Begun
    <3> QED
      BY <3>3, <3>4 DEF s
  <2> QED
    BY <2>3, <2>4
<1> QED
  BY <1>3, <1>4

\* The same for a change to one team's score.
LEMMA AddScoreEffect ==
  ASSUME NEW g, Begun(g), NEW isBlue \in BOOLEAN, NEW diff \in Int
  PROVE  LET s == AddScore(g, isBlue, diff)
         IN  /\ Begun(s)
             /\ Len(s.events) >= Len(g.events)
             /\ s.factor = g.factor /\ s.status = g.status /\ s.enabled = g.enabled
             /\ TimerRight(s)
             /\ Last(g.events).type # "MORE10" => ~Over(s.blue, s.red)
             /\ s.events # g.events => Last(s.events).type = "MORE10"
             /\ diff <= 0 /\ ~Over(g.blue, g.red) => ~Over(s.blue, s.red) /\ s.events = g.events
<1>1. g.blue \in Int /\ g.red \in Int /\ WinScore \in Int
  BY WinScoreAssumption DEF Begun, Games
<1>2. CASE isBlue
  <2> DEFINE b == g.blue + diff
  <2>1. b \in Int /\ AddScore(g, isBlue, diff) = SetScore(g, b, g.red)
    BY <1>1, <1>2 DEF AddScore
  <2>2. diff <= 0 /\ ~Over(g.blue, g.red) => ~Over(b, g.red)
    BY <1>1 DEF Over
  <2> HIDE DEF b
  <2> QED
    BY <1>1, <2>1, <2>2, SetScoreEffect
<1>3. CASE ~isBlue
  <2> DEFINE r == g.red + diff
  <2>1. r \in Int /\ AddScore(g, isBlue, diff) = SetScore(g, g.blue, r)
    BY <1>1, <1>3 DEF AddScore
  <2>2. diff <= 0 /\ ~Over(g.blue, g.red) => ~Over(g.blue, r)
    BY <1>1 DEF Over
  <2> HIDE DEF r
  <2> QED
    BY <1>1, <2>1, <2>2, SetScoreEffect
<1> QED
  BY <1>2, <1>3
-----------------------------------------------------------------------------
\* The multiplier is the one the history shows, unless a MORE10 hides it.
FactorRight(g) ==
  g.status = "STARTED" /\ Last(g.events).type # "MORE10"
    => g.factor = FactorAfter(Last(g.events))

\* A game that has been begun, with its timer and its multiplier as they must be.
Sound(g) == Begun(g) /\ TimerRight(g) /\ FactorRight(g)

\* What an undo reads back is a multiplier.
LEMMA FactorAfterRange ==
  ASSUME NEW ev, History(ev)
  PROVE  FactorAfter(Last(ev)) \in 1..3
<1> DEFINE e == Last(ev)
<1>1. e.scoreDiff \in Int /\ (e.type = "GAMELLE" => e.scoreDiff \in -3 .. -1)
  BY LastOfHistory DEF BabyEvent
<1> HIDE DEF e
<1>2. FactorAfter(e) \in 1..3
  BY <1>1 DEF FactorAfter
<1> QED
  BY <1>2 DEF e

\* Adding an event whose multiplier the game has keeps a begun game begun.
LEMMA AddEventEffect ==
  ASSUME NEW g, Begun(g), NEW e, Addition(e)
  PROVE  LET a == AddEvent(g, e)
         IN  /\ Begun(a)
             /\ Last(a.events) = e
             /\ a.blue = g.blue /\ a.red = g.red /\ a.factor = g.factor
             /\ a.status = g.status /\ a.enabled = g.enabled
             /\ a.endPending = g.endPending
<1> DEFINE a == AddEvent(g, e)
<1>1. g \in Games /\ History(g.events) /\ g.factor \in 1..3
  BY DEF Begun
<1>2. History(Append(g.events, e)) /\ Last(Append(g.events, e)) = e
  BY <1>1, AppendHistory
<1>3. Append(g.events, e) \in Seq(BabyEvent)
  BY <1>2 DEF History
<1>4. /\ a \in Games /\ a.events = Append(g.events, e)
      /\ a.blue = g.blue /\ a.red = g.red /\ a.factor = g.factor
      /\ a.status = g.status /\ a.enabled = g.enabled /\ a.endPending = g.endPending
  BY <1>1, <1>3 DEF AddEvent, Games
<1> HIDE DEF a
<1>5. Begun(a)
  BY <1>1, <1>2, <1>4 DEF Begun
<1> QED
  BY <1>2, <1>4, <1>5 DEF a

\* undoLastGoal leaves a game that is still one, with the multiplier of the event
\* that is last now; and it caps the score unless it undoes a cap.
LEMMA UndoEffect ==
  ASSUME NEW g, Begun(g), Last(g.events).type # "START"
  PROVE  LET u == UndoLastGoal(g)
         IN  /\ Begun(u)
             /\ u.status = g.status /\ u.enabled = g.enabled
             /\ TimerRight(u)
             /\ u.factor = FactorAfter(Last(u.events))
             /\ Last(g.events).type # "MORE10" => ~Over(u.blue, u.red)
<1> DEFINE last == Last(g.events)
           s == AddScore(g, last.isBlue, -last.scoreDiff)
           left == Front(s.events)
           f == FactorAfter(Last(left))
           u == [s EXCEPT !.events = left, !.factor = f]
<1>1. g \in Games /\ History(g.events)
  BY DEF Begun
<1>2. last \in BabyEvent /\ Len(g.events) # 1 /\ Len(g.events) \in Nat /\ Len(g.events) >= 1
  BY <1>1, LastOfHistory DEF History
<1>3. last.isBlue \in BOOLEAN /\ -last.scoreDiff \in Int
  BY <1>2 DEF BabyEvent
<1>4. /\ Begun(s) /\ Len(s.events) >= Len(g.events)
      /\ s.status = g.status /\ s.enabled = g.enabled
      /\ TimerRight(s)
      /\ last.type # "MORE10" => ~Over(s.blue, s.red)
  BY <1>3, AddScoreEffect
<1>5. UndoLastGoal(g) = u
  BY DEF UndoLastGoal
<1> HIDE DEF last, s
<1>6. History(s.events) /\ Len(s.events) >= 2
  <2>1. History(s.events)
    BY <1>4 DEF Begun
  <2>2. Len(s.events) \in Nat
    BY <2>1 DEF History
  <2>3. \A m, n \in Nat : n # 1 /\ n >= 1 /\ m >= n => m >= 2
    OBVIOUS
  <2> QED
    BY <1>2, <1>4, <2>1, <2>2, <2>3
<1>7. History(left)
  BY <1>6, FrontHistory
<1>8. f \in 1..3 /\ f \in Nat
  BY <1>7, FactorAfterRange
<1>9. left \in Seq(BabyEvent) /\ s \in Games
  BY <1>4, <1>7 DEF History, Begun
<1> HIDE DEF left, f
<1>10. /\ u \in Games /\ u.events = left /\ u.factor = f
       /\ u.blue = s.blue /\ u.red = s.red /\ u.endPending = s.endPending
       /\ u.status = s.status /\ u.enabled = s.enabled
  BY <1>8, <1>9 DEF Games
<1> HIDE DEF u
<1>11. Begun(u)
  BY <1>7, <1>8, <1>10 DEF Begun
<1>12. TimerRight(u)
  BY <1>4, <1>10 DEF TimerRight
<1>13. last.type # "MORE10" => ~Over(u.blue, u.red)
  BY <1>4, <1>10
<1> QED
  BY <1>4, <1>5, <1>10, <1>11, <1>12, <1>13 DEF last, f
-----------------------------------------------------------------------------
\* Each handler leaves a sound game sound, in the status it had; and those that
\* score leave nobody over the win.
LEMMA GoalEffect ==
  ASSUME NEW g, Sound(g), NEW isBlue \in BOOLEAN
  PROVE  LET h == ScoreGoal(g, isBlue)
         IN  /\ Sound(h) /\ h.status = g.status /\ h.enabled = g.enabled
             /\ g.status = "STARTED" => ~Over(h.blue, h.red)
<1> DEFINE e == Event("GOAL", isBlue, g.factor)
           a == AddEvent(g, e)
           s == AddScore(a, isBlue, g.factor)
           h == [s EXCEPT !.factor = 1]
<1>1. CASE g.status = "FINISHED"
  BY <1>1 DEF ScoreGoal
<1>2. CASE g.status # "FINISHED"
  <2>1. Begun(g) /\ g \in Games /\ g.factor \in 1..3 /\ g.factor \in Int
    BY DEF Sound, Begun
  <2>2. Addition(e) /\ e.type = "GOAL"
    BY <2>1 DEF Addition, Event, BabyEvent, EventTypes
  <2>3. ScoreGoal(g, isBlue) = h
    BY <1>2 DEF ScoreGoal
  <2> HIDE DEF e
  <2>4. /\ Begun(a) /\ Last(a.events) = e
        /\ a.status = g.status /\ a.enabled = g.enabled
    BY <2>1, <2>2, AddEventEffect
  <2> HIDE DEF a
  <2>5. /\ Begun(s) /\ s.status = a.status /\ s.enabled = a.enabled
        /\ TimerRight(s) /\ ~Over(s.blue, s.red)
        /\ s.events # a.events => Last(s.events).type = "MORE10"
    BY <2>1, <2>2, <2>4, AddScoreEffect
  <2> HIDE DEF s
  <2>6. /\ h \in Games /\ h.factor = 1
        /\ h.blue = s.blue /\ h.red = s.red /\ h.events = s.events
        /\ h.status = s.status /\ h.enabled = s.enabled /\ h.endPending = s.endPending
    BY <2>5 DEF Begun, Games
  <2> HIDE DEF h
  <2>7. Begun(h) /\ TimerRight(h)
    BY <2>5, <2>6 DEF Begun, TimerRight
  <2>8. FactorRight(h)
    <3>1. FactorAfter(e) = 1
      BY <2>2 DEF FactorAfter
    <3> QED
      BY <2>4, <2>5, <2>6, <3>1 DEF FactorRight
  <2> QED
    BY <2>3, <2>4, <2>5, <2>6, <2>7, <2>8 DEF Sound
<1> QED
  BY <1>1, <1>2

\* A gamelle keeps the game sound and leaves nobody over the win.
LEMMA GamelleEffect ==
  ASSUME NEW g, Sound(g), NEW isBlue \in BOOLEAN
  PROVE  LET h == SpecialGoalGamelle(g, isBlue)
         IN  /\ Sound(h) /\ h.status = g.status /\ h.enabled = g.enabled
             /\ ~Over(h.blue, h.red)
<1> DEFINE e == Event("GAMELLE", isBlue, -g.factor)
           a == AddEvent(g, e)
           h == AddScore(a, isBlue, -g.factor)
<1>1. /\ Begun(g) /\ g.factor \in 1..3
      /\ -g.factor \in Int /\ -g.factor \in -3 .. -1 /\ -(-g.factor) = g.factor
  BY DEF Sound, Begun
<1>2. Addition(e) /\ e.type = "GAMELLE" /\ e.scoreDiff = -g.factor
  BY <1>1 DEF Addition, Event, BabyEvent, EventTypes
<1>3. SpecialGoalGamelle(g, isBlue) = h
  BY DEF SpecialGoalGamelle
<1> HIDE DEF e
<1>4. /\ Begun(a) /\ Last(a.events) = e /\ a.factor = g.factor
      /\ a.status = g.status /\ a.enabled = g.enabled
  BY <1>1, <1>2, AddEventEffect
<1> HIDE DEF a
<1>5. /\ Begun(h) /\ h.status = a.status /\ h.enabled = a.enabled /\ h.factor = a.factor
      /\ TimerRight(h) /\ ~Over(h.blue, h.red)
      /\ h.events # a.events => Last(h.events).type = "MORE10"
  BY <1>1, <1>2, <1>4, AddScoreEffect
<1> HIDE DEF h
<1>6. FactorAfter(e) = g.factor
  BY <1>1, <1>2 DEF FactorAfter
<1>7. FactorRight(h)
  BY <1>4, <1>5, <1>6 DEF FactorRight
<1> QED
  BY <1>3, <1>4, <1>5, <1>7 DEF Sound

\* What follows the loop of a lob keeps the game sound; a goal that is doubled
\* leaves nobody over the win.
LEMMA LobEffect ==
  ASSUME NEW g, Sound(g)
  PROVE  LET h == LobOfLast(g)
         IN  /\ Sound(h) /\ h.status = g.status /\ h.enabled = g.enabled
             /\ Last(g.events).type = "GOAL" => ~Over(h.blue, h.red)
<1> DEFINE last == Last(g.events)
           s == AddScore(g, last.isBlue, last.scoreDiff)
           e == Event("LOB", last.isBlue, last.scoreDiff)
           h == AddEvent(s, e)
<1>1. CASE last.type # "GOAL"
  BY <1>1 DEF LobOfLast
<1>2. CASE last.type = "GOAL"
  <2>1. Begun(g) /\ History(g.events)
    BY DEF Sound, Begun
  <2>2. last.isBlue \in BOOLEAN /\ last.scoreDiff \in Int
    BY <2>1, LastOfHistory DEF BabyEvent
  <2>3. LobOfLast(g) = h
    BY <1>2 DEF LobOfLast
  <2>4. Addition(e) /\ e.type = "LOB"
    BY <2>2 DEF Addition, Event, BabyEvent, EventTypes
  <2>5. g.status = "STARTED" => g.factor = 1
    BY <1>2 DEF Sound, FactorRight, FactorAfter
  <2> HIDE DEF e
  <2>6. /\ Begun(s) /\ s.status = g.status /\ s.enabled = g.enabled /\ s.factor = g.factor
        /\ TimerRight(s) /\ ~Over(s.blue, s.red)
    <3> HIDE DEF last
    <3> QED
      BY <1>2, <2>1, <2>2, AddScoreEffect DEF last
  <2> HIDE DEF s
  <2>7. /\ Begun(h) /\ Last(h.events) = e
        /\ h.blue = s.blue /\ h.red = s.red /\ h.factor = s.factor
        /\ h.status = s.status /\ h.enabled = s.enabled /\ h.endPending = s.endPending
    BY <2>4, <2>6, AddEventEffect
  <2> HIDE DEF h
  <2>8. TimerRight(h)
    BY <2>6, <2>7 DEF TimerRight
  <2>9. FactorRight(h)
    BY <2>4, <2>5, <2>6, <2>7 DEF FactorRight, FactorAfter
  <2> QED
    BY <2>3, <2>6, <2>7, <2>8, <2>9 DEF Sound
<1> QED
  BY <1>1, <1>2

\* Setting the multiplier of a game that has been begun.
LEMMA SetFactorEffect ==
  ASSUME NEW u, Begun(u), NEW n \in 1..3
  PROVE  LET v == [u EXCEPT !.factor = n]
         IN  /\ Begun(v) /\ v.factor = n
             /\ v.blue = u.blue /\ v.red = u.red /\ v.events = u.events
             /\ v.status = u.status /\ v.enabled = u.enabled /\ v.endPending = u.endPending
<1> DEFINE v == [u EXCEPT !.factor = n]
<1>1. /\ v \in Games /\ v.factor = n
      /\ v.blue = u.blue /\ v.red = u.red /\ v.events = u.events
      /\ v.status = u.status /\ v.enabled = u.enabled /\ v.endPending = u.endPending
  BY DEF Begun, Games
<1>2. History(u.events)
  BY DEF Begun
<1> HIDE DEF v
<1>3. Begun(v)
  BY <1>1, <1>2 DEF Begun
<1> QED
  BY <1>1, <1>3 DEF v

\* A demi, a trimi or a fault: the event added shows the multiplier set with it.
LEMMA MarkedFactor ==
  ASSUME NEW v, Begun(v), TimerRight(v), NEW type \in {"DEMI", "TRIMI", "FAULT"},
         v.factor = (IF type = "DEMI" THEN 2 ELSE 3),
         NEW isBlue \in BOOLEAN, NEW diff \in Int
  PROVE  LET h == AddEvent(v, Event(type, isBlue, diff))
         IN  /\ Sound(h) /\ h.status = v.status /\ h.enabled = v.enabled
             /\ h.blue = v.blue /\ h.red = v.red
<1> DEFINE e == Event(type, isBlue, diff)
           h == AddEvent(v, e)
<1>1. Addition(e) /\ e.type = type
  BY DEF Addition, Event, BabyEvent, EventTypes
<1> HIDE DEF e
<1>2. /\ Begun(h) /\ Last(h.events) = e
      /\ h.blue = v.blue /\ h.red = v.red /\ h.factor = v.factor
      /\ h.status = v.status /\ h.enabled = v.enabled /\ h.endPending = v.endPending
  BY <1>1, AddEventEffect
<1> HIDE DEF h
<1>3. FactorAfter(e) = v.factor
  BY <1>1 DEF FactorAfter
<1>4. TimerRight(h) /\ FactorRight(h)
  BY <1>2, <1>3 DEF TimerRight, FactorRight
<1> QED
  BY <1>2, <1>4 DEF Sound, h, e

\* What follows the loop of a demi keeps the game sound; a goal that is taken back
\* leaves nobody over the win.
LEMMA DemiEffect ==
  ASSUME NEW g, Sound(g)
  PROVE  LET h == DemiOfLast(g)
         IN  /\ Sound(h) /\ h.status = g.status /\ h.enabled = g.enabled
             /\ Last(g.events).type = "GOAL" => ~Over(h.blue, h.red)
<1> DEFINE last == Last(g.events)
           u == UndoLastGoal(g)
           f == u.factor + 1
           h == DemiOfLast(g)
<1>1. CASE last.type # "GOAL"
  BY <1>1 DEF DemiOfLast
<1>2. CASE last.type = "GOAL"
  <2>1. Begun(g) /\ History(g.events)
    BY DEF Sound, Begun
  <2>2. last.isBlue \in BOOLEAN
    BY <2>1, LastOfHistory DEF BabyEvent
  <2>3. /\ Begun(u) /\ u.status = g.status /\ u.enabled = g.enabled
        /\ TimerRight(u) /\ ~Over(u.blue, u.red)
    BY <1>2, <2>1, UndoEffect
  <2> HIDE DEF u
  <2>4. f \in {2, 3, 4}
    BY <2>3 DEF Begun
  <2> DEFINE v(n) == [u EXCEPT !.factor = n]
             w == AddScore(v(3), last.isBlue, -2)
  <2>5. \A n \in 1..3 : /\ Begun(v(n)) /\ v(n).factor = n
                        /\ v(n).status = g.status /\ v(n).enabled = g.enabled
                        /\ TimerRight(v(n)) /\ ~Over(v(n).blue, v(n).red)
    <3> SUFFICES ASSUME NEW n \in 1..3
                 PROVE  /\ Begun(v(n)) /\ v(n).factor = n
                        /\ v(n).status = g.status /\ v(n).enabled = g.enabled
                        /\ TimerRight(v(n)) /\ ~Over(v(n).blue, v(n).red)
      OBVIOUS
    <3>1. /\ Begun(v(n)) /\ v(n).factor = n
          /\ v(n).blue = u.blue /\ v(n).red = u.red
          /\ v(n).status = u.status /\ v(n).enabled = u.enabled
          /\ v(n).endPending = u.endPending
      BY <2>3, SetFactorEffect
    <3> HIDE DEF v
    <3> QED
      BY <2>3, <3>1 DEF TimerRight
  <2>6. CASE f = 2
    <3>1. h = AddEvent(v(2), Event("DEMI", last.isBlue, 0))
      BY <1>2, <2>6 DEF DemiOfLast, u
    <3> HIDE DEF v, h, last
    <3> QED
      BY <2>2, <2>5, <3>1, MarkedFactor DEF h
  <2>7. CASE f = 3
    <3>1. h = AddEvent(v(3), Event("TRIMI", last.isBlue, 0))
      BY <1>2, <2>7 DEF DemiOfLast, u
    <3> HIDE DEF v, h, last
    <3> QED
      BY <2>2, <2>5, <3>1, MarkedFactor DEF h
  <2>8. CASE f = 4
    <3>1. h = AddEvent(w, Event("FAULT", last.isBlue, -2))
      BY <1>2, <2>8 DEF DemiOfLast, u
    <3> HIDE DEF v, h, last
    <3>2. /\ Begun(w) /\ w.factor = 3 /\ TimerRight(w)
          /\ w.status = g.status /\ w.enabled = g.enabled
          /\ ~Over(w.blue, w.red)
      BY <2>2, <2>5, AddScoreEffect
    <3> HIDE DEF w
    <3> QED
      BY <2>2, <3>1, <3>2, MarkedFactor DEF h
  <2> QED
    BY <2>4, <2>6, <2>7, <2>8
<1> QED
  BY <1>1, <1>2

\* undoLastGoal as a handler of its own, and as the step of the special goals' loop.
LEMMA UndoHandlerEffect ==
  ASSUME NEW g, Sound(g)
  PROVE  LET h == UndoLastGoal(g)
         IN  Sound(h) /\ h.status = g.status /\ h.enabled = g.enabled
<1>1. CASE Last(g.events).type = "START"
  BY <1>1 DEF UndoLastGoal
<1>2. CASE Last(g.events).type # "START"
  <2> DEFINE h == UndoLastGoal(g)
  <2>1. /\ Begun(h) /\ TimerRight(h)
        /\ h.status = g.status /\ h.enabled = g.enabled
        /\ h.factor = FactorAfter(Last(h.events))
    BY <1>2, UndoEffect DEF Sound
  <2> HIDE DEF h
  <2>2. FactorRight(h)
    BY <2>1 DEF FactorRight
  <2> QED
    BY <2>1, <2>2 DEF Sound, h
<1> QED
  BY <1>1, <1>2

\* The end message finds the game it was posted for: it closes it.
LEMMA EndMessageEffect ==
  ASSUME NEW g, Sound(g), g.endPending
  PROVE  LET h == EndMessage(g)
         IN  /\ Sound(h) /\ h.status = "FINISHED" /\ ~h.enabled /\ ~h.endPending
             /\ g.status = "STARTED"
<1> DEFINE shown == [g EXCEPT !.endPending = FALSE]
           fanny == IF g.blue <= 0 \/ g.red <= 0
                      THEN AddEvent(shown, Event("FANNY", FALSE, 0)) ELSE shown
           last == AddEvent(fanny, Event("FINISH", FALSE, 0))
           h == [last EXCEPT !.status = "FINISHED", !.enabled = FALSE]
<1>1. Begun(g) /\ g.status = "STARTED" /\ (g.blue = WinScore \/ g.red = WinScore)
  BY DEF Sound, TimerRight, AtWin
<1>2. EndMessage(g) = h
  BY <1>1 DEF EndMessage
<1>3. Begun(shown) /\ shown.endPending = FALSE
  <2>1. shown \in Games /\ shown.events = g.events /\ shown.factor = g.factor
        /\ shown.endPending = FALSE
    BY <1>1 DEF Begun, Games
  <2> HIDE DEF shown
  <2> QED
    BY <1>1, <2>1 DEF Begun
<1>4. Addition(Event("FANNY", FALSE, 0)) /\ Addition(Event("FINISH", FALSE, 0))
  BY DEF Addition, Event, BabyEvent, EventTypes
<1> HIDE DEF shown
<1>5. Begun(fanny) /\ fanny.endPending = FALSE
  BY <1>3, <1>4, AddEventEffect
<1> HIDE DEF fanny
<1>6. Begun(last) /\ last.endPending = FALSE
  BY <1>4, <1>5, AddEventEffect
<1> HIDE DEF last
<1>7. /\ h \in Games /\ h.events = last.events /\ h.factor = last.factor
      /\ h.status = "FINISHED" /\ h.enabled = FALSE /\ h.endPending = FALSE
  BY <1>6 DEF Begun, Games
<1> HIDE DEF h
<1>8. Begun(h)
  BY <1>6, <1>7 DEF Begun
<1>9. TimerRight(h) /\ FactorRight(h)
  BY <1>7 DEF TimerRight, FactorRight
<1> QED
  BY <1>1, <1>2, <1>7, <1>8, <1>9 DEF Sound
-----------------------------------------------------------------------------
(***************************************************************************)
(* The inductive invariant.  What a run checks is not inductive: the       *)
(* multiplier and the timer depend on what the history may contain, and    *)
(* the history is never empty only because no click of a game's button     *)
(* can be waiting without one.                                             *)
(***************************************************************************)
Core(g) == /\ g \in Games
           /\ g.factor \in 0..3
           /\ TimerRight(g)
           /\ g.enabled = (g.status = "STARTED")
           /\ g.status = "STARTED" => g.events # <<>>
           /\ g.events # <<>> => Sound(g)

ClickWaiting(q) == \E i \in DOMAIN q : q[i] \in GameClicks

Waiting == /\ uiQueue \in Seq(UiItems)
           /\ running \in {"idle", "lob", "demi"}
           /\ started \in BOOLEAN
           /\ running # "idle" \/ ClickWaiting(uiQueue) => game.events # <<>>

IInv == Core(game) /\ Waiting

\* A sound game is all the invariant asks of the game.
LEMMA SoundCore ==
  ASSUME NEW g, Sound(g), g.enabled = (g.status = "STARTED")
  PROVE  Core(g) /\ g.events # <<>>
<1>1. g \in Games /\ g.factor \in 0..3 /\ TimerRight(g) /\ g.events # <<>>
  BY DEF Sound, Begun, History
<1> QED
  BY <1>1 DEF Core

\* What taking an item from the queue means to the invariant.
LEMMA TakeEffect ==
  ASSUME Waiting, NEW item, Take(item)
  PROVE  /\ uiQueue' \in Seq(UiItems)
         /\ ClickWaiting(uiQueue') => ClickWaiting(uiQueue)
         /\ item \in GameClicks => ClickWaiting(uiQueue)
         /\ started' = started
<1>1. /\ uiQueue \in Seq(UiItems) /\ uiQueue # <<>> /\ Head(uiQueue) = item
      /\ uiQueue' = Tail(uiQueue) /\ started' = started
  BY DEF Waiting, Take
<1>2. /\ uiQueue' \in Seq(UiItems)
      /\ Len(uiQueue) \in Nat /\ Len(uiQueue) >= 1
      /\ Len(uiQueue') = Len(uiQueue) - 1
      /\ \A i \in 1..Len(uiQueue') : uiQueue'[i] = uiQueue[i + 1]
  BY <1>1
<1>3. ClickWaiting(uiQueue') => ClickWaiting(uiQueue)
  <2> SUFFICES ASSUME NEW i \in DOMAIN uiQueue', uiQueue'[i] \in GameClicks
               PROVE  ClickWaiting(uiQueue)
    BY DEF ClickWaiting
  <2>1. i \in 1..Len(uiQueue')
    BY <1>2
  <2>2. i + 1 \in DOMAIN uiQueue /\ uiQueue[i + 1] \in GameClicks
    BY <1>1, <1>2, <2>1
  <2> QED
    BY <2>2 DEF ClickWaiting
<1>4. item \in GameClicks => ClickWaiting(uiQueue)
  <2>1. 1 \in DOMAIN uiQueue /\ uiQueue[1] = item
    BY <1>1, <1>2
  <2> QED
    BY <2>1 DEF ClickWaiting
<1> QED
  BY <1>1, <1>2, <1>3, <1>4

\* setScore(0, 0) caps nothing: it only cancels the timer.
LEMMA ZeroScores ==
  ASSUME NEW g \in Games
  PROVE  LET z == SetScore(g, 0, 0)
         IN  /\ z \in Games /\ z.events = g.events
             /\ z.factor = g.factor /\ z.status = g.status /\ z.enabled = g.enabled
             /\ z.endPending = FALSE /\ TimerRight(z)
             /\ z.blue = 0 /\ z.red = 0
<1> DEFINE z == SetScore(g, 0, 0)
<1>1. ~Over(0, 0) /\ ~AtWin(0, 0)
  BY WinScoreAssumption DEF Over, AtWin
<1>2. g.events \o <<>> = g.events /\ g.events \o <<>> \in Seq(BabyEvent)
  BY DEF Games
<1>3. z = Settle(g, 0, 0, <<>>)
  BY <1>1 DEF SetScore
<1>4. /\ z \in Games /\ z.events = g.events
      /\ z.factor = g.factor /\ z.status = g.status /\ z.enabled = g.enabled
      /\ z.blue = 0 /\ z.red = 0 /\ TimerRight(z)
  <2> DEFINE t == Settle(g, 0, 0, <<>>)
             Settled(x, more) ==
               /\ x \in Games /\ x.blue = 0 /\ x.red = 0
               /\ x.events = g.events \o more
               /\ x.factor = g.factor /\ x.status = g.status /\ x.enabled = g.enabled
               /\ TimerRight(x)
  <2>0. 0 \in Int
    OBVIOUS
  <2>3. \A more : g.events \o more \in Seq(BabyEvent) => Settled(Settle(g, 0, 0, more), more)
    BY <2>0, SettleEffect
  <2> HIDE DEF Settled
  <2>4. Settled(t, <<>>)
    BY <1>2, <2>3
  <2>1. /\ t \in Games /\ t.blue = 0 /\ t.red = 0
        /\ t.events = g.events \o <<>>
        /\ t.factor = g.factor /\ t.status = g.status /\ t.enabled = g.enabled
        /\ TimerRight(t)
    BY <2>4 DEF Settled
  <2> HIDE DEF t, z
  <2>2. z = t
    BY <1>3 DEF t
  <2> QED
    BY <1>2, <2>1, <2>2
<1> HIDE DEF z
<1>5. z.endPending = FALSE
  BY <1>1, <1>4 DEF TimerRight
<1> QED
  BY <1>4, <1>5 DEF z

\* A new game is sound whatever the old one was.
LEMMA NewGameEffect ==
  ASSUME NEW g \in Games
  PROVE  LET n == StartNewGame(g)
         IN  Sound(n) /\ n.status = "STARTED" /\ n.enabled = TRUE /\ ~n.endPending /\ Blank(n)
<1> DEFINE z == SetScore(g, 0, 0)
           e == Event("START", TRUE, 0)
           n == [z EXCEPT !.factor = 1, !.status = "STARTED", !.enabled = TRUE,
                          !.events = <<e>>]
<1>1. z \in Games /\ z.endPending = FALSE /\ z.blue = 0 /\ z.red = 0
  BY ZeroScores
<1>2. StartNewGame(g) = n
  BY DEF StartNewGame
<1>3. e \in BabyEvent /\ e.type = "START"
  BY DEF Event, BabyEvent, EventTypes
<1>4. History(<<e>>) /\ Last(<<e>>) = e /\ <<e>> \in Seq(BabyEvent)
  <2> HIDE DEF e
  <2> QED
    BY <1>3 DEF History, Last
<1>5. FactorAfter(e) = 1
  BY <1>3 DEF FactorAfter
<1> HIDE DEF z, e
<1>6. /\ n \in Games /\ n.factor = 1 /\ n.status = "STARTED" /\ n.enabled = TRUE
      /\ n.events = <<e>> /\ n.endPending = FALSE /\ n.blue = 0 /\ n.red = 0
  BY <1>1, <1>4 DEF Games
<1> HIDE DEF n
<1>10. Blank(n)
  BY <1>6 DEF Blank, e
<1>7. Begun(n)
  BY <1>4, <1>6 DEF Begun
<1>8. TimerRight(n)
  BY <1>6, WinScoreAssumption DEF TimerRight, AtWin
<1>9. FactorRight(n)
  BY <1>4, <1>5, <1>6 DEF FactorRight
<1> QED
  BY <1>2, <1>6, <1>7, <1>8, <1>9, <1>10 DEF Sound
-----------------------------------------------------------------------------
\* A fresh activity satisfies the invariant, at the start and when it is made anew.
LEMMA FreshCore == Core(FreshGame)
<1>1. FreshGame \in Games
  BY DEF FreshGame, Games
<1>2. /\ FreshGame.events = <<>> /\ FreshGame.factor = 0 /\ FreshGame.status # "STARTED"
      /\ FreshGame.enabled = FALSE /\ FreshGame.endPending = FALSE
  BY DEF FreshGame
<1>3. TimerRight(FreshGame)
  BY <1>2, Zenon DEF TimerRight
<1>4. FreshGame.enabled = (FreshGame.status = "STARTED")
  BY <1>2, Zenon
<1> QED
  BY <1>1, <1>2, <1>3, <1>4 DEF Core

\* A fresh activity satisfies the invariant.
LEMMA InitInvariant == Init => IInv
<1> SUFFICES ASSUME Init PROVE IInv
  OBVIOUS
<1>4. <<>> \in Seq(UiItems) /\ ~ClickWaiting(<<>>)
  BY DEF ClickWaiting
<1> QED
  BY <1>4, FreshCore DEF Init, IInv, Waiting

\* Every step of the screen keeps the invariant.
LEMMA StepInvariant == IInv /\ [Next]_vars => IInv'
<1> SUFFICES ASSUME IInv, [Next]_vars
             PROVE  Core(game') /\ Waiting'
  BY DEF IInv, Core
<1> USE DEF IInv
<1>1. /\ game \in Games /\ game.enabled = (game.status = "STARTED")
      /\ game.events # <<>> => Sound(game)
      /\ game.events = <<>> => game.status = "FINISHED"
  <2>1. game.status \in {"STARTED", "FINISHED"}
    BY DEF Core, Games
  <2> QED
    BY <2>1 DEF Core
<1>2. ASSUME NEW goal \in Goals, GoalArrives(goal)
      PROVE  Core(game') /\ Waiting'
  <2>1. /\ game' = game /\ running' = running /\ started' = started
        /\ uiQueue' = Append(uiQueue, goal) /\ uiQueue \in Seq(UiItems)
        /\ goal \in UiItems /\ goal \notin GameClicks
    BY <1>2 DEF GoalArrives, Waiting, Goals, Gamelles, GameClicks, UiItems
  <2>2. ClickWaiting(uiQueue') => ClickWaiting(uiQueue)
    BY <2>1 DEF ClickWaiting
  <2>3. uiQueue' \in Seq(UiItems)
    BY <2>1
  <2> QED
    BY <2>1, <2>2, <2>3 DEF Waiting
<1>3. ASSUME NEW button \in GameClicks \cup {"newGame"}, Press(button)
      PROVE  Core(game') /\ Waiting'
  <2>1. /\ game' = game /\ running' = running /\ started' = started
        /\ uiQueue' = Append(uiQueue, button) /\ uiQueue \in Seq(UiItems)
        /\ button \in UiItems
        /\ button = "newGame" \/ game.enabled
    BY <1>3 DEF Press, Waiting, UiItems
  <2>2. game.enabled => game.events # <<>>
    BY <1>1
  <2>3. button = "newGame" /\ ClickWaiting(uiQueue') => ClickWaiting(uiQueue)
    BY <2>1 DEF ClickWaiting, GameClicks, Gamelles
  <2>4. uiQueue' \in Seq(UiItems)
    BY <2>1
  <2> QED
    BY <2>1, <2>2, <2>3, <2>4 DEF Waiting
<1>4. ASSUME NEW goal \in Goals, HandleGoal(goal)
      PROVE  Core(game') /\ Waiting'
  <2>1. game' = ScoreGoal(game, goal = "goalBlue") /\ running' = running
    BY <1>4 DEF HandleGoal
  <2>2. /\ uiQueue' \in Seq(UiItems) /\ started' = started
        /\ ClickWaiting(uiQueue') => ClickWaiting(uiQueue)
    BY <1>4, TakeEffect DEF HandleGoal
  <2>3. CASE game.events = <<>>
    <3>1. game' = game
      BY <1>1, <2>1, <2>3 DEF ScoreGoal
    <3> QED
      BY <2>1, <2>2, <3>1 DEF Waiting
  <2>4. CASE game.events # <<>>
    <3>1. Sound(game') /\ game'.status = game.status /\ game'.enabled = game.enabled
      BY <1>1, <2>1, <2>4, GoalEffect
    <3>2. Core(game') /\ game'.events # <<>>
      BY <1>1, <3>1, SoundCore
    <3> QED
      BY <2>1, <2>2, <3>2 DEF Waiting
  <2> QED
    BY <2>3, <2>4
<1>5. ASSUME ClickNewGame
      PROVE  Core(game') /\ Waiting'
  <2>1. game' = StartNewGame(game) /\ running' = running
    BY <1>5 DEF ClickNewGame
  <2>2. /\ uiQueue' \in Seq(UiItems) /\ started' = started
    BY <1>5, TakeEffect DEF ClickNewGame
  <2>3. Sound(game') /\ game'.status = "STARTED" /\ game'.enabled = TRUE
    BY <1>1, <2>1, NewGameEffect
  <2>4. Core(game') /\ game'.events # <<>>
    BY <2>3, SoundCore
  <2> QED
    BY <2>1, <2>2, <2>4 DEF Waiting
<1>6. ASSUME ClickUndo
      PROVE  Core(game') /\ Waiting'
  <2>1. game' = UndoLastGoal(game) /\ running' = running
    BY <1>6 DEF ClickUndo
  <2>2. /\ uiQueue' \in Seq(UiItems) /\ started' = started
        /\ ClickWaiting(uiQueue)
    BY <1>6, TakeEffect DEF ClickUndo, GameClicks
  <2>3. Sound(game)
    BY <1>1, <2>2 DEF Waiting
  <2>4. Sound(game') /\ game'.status = game.status /\ game'.enabled = game.enabled
    BY <2>1, <2>3, UndoHandlerEffect
  <2>5. Core(game') /\ game'.events # <<>>
    BY <1>1, <2>4, SoundCore
  <2> QED
    BY <2>1, <2>2, <2>5 DEF Waiting
<1>7. ASSUME NEW button \in Gamelles, ClickGamelle(button)
      PROVE  Core(game') /\ Waiting'
  <2>1. game' = SpecialGoalGamelle(game, button = "gamelleBlue") /\ running' = running
    BY <1>7 DEF ClickGamelle
  <2>2. /\ uiQueue' \in Seq(UiItems) /\ started' = started
        /\ ClickWaiting(uiQueue)
    BY <1>7, TakeEffect DEF ClickGamelle, GameClicks
  <2>3. Sound(game)
    BY <1>1, <2>2 DEF Waiting
  <2>4. Sound(game') /\ game'.status = game.status /\ game'.enabled = game.enabled
    BY <2>1, <2>3, GamelleEffect
  <2>5. Core(game') /\ game'.events # <<>>
    BY <1>1, <2>4, SoundCore
  <2> QED
    BY <2>1, <2>2, <2>5 DEF Waiting
<1>8. ASSUME NEW button \in {"lob", "demi"}, ClickSpecial(button)
      PROVE  Core(game') /\ Waiting'
  <2>1. game' = game /\ running' \in {"idle", "lob", "demi"}
    BY <1>8 DEF ClickSpecial
  <2>2. /\ uiQueue' \in Seq(UiItems) /\ started' = started
        /\ ClickWaiting(uiQueue)
    BY <1>8, TakeEffect DEF ClickSpecial, GameClicks
  <2>3. game.events # <<>>
    BY <2>2 DEF Waiting
  <2> QED
    BY <2>1, <2>2, <2>3 DEF Waiting
<1>9. ASSUME StripMore10
      PROVE  Core(game') /\ Waiting'
  <2>1. /\ game' = UndoLastGoal(game) /\ running # "idle"
        /\ UNCHANGED <<uiQueue, running, started>>
    BY <1>9 DEF StripMore10
  <2>2. Sound(game)
    BY <1>1, <2>1 DEF Waiting
  <2>3. Sound(game') /\ game'.status = game.status /\ game'.enabled = game.enabled
    BY <2>1, <2>2, UndoHandlerEffect
  <2>4. Core(game') /\ game'.events # <<>>
    BY <1>1, <2>3, SoundCore
  <2> QED
    BY <2>1, <2>4 DEF Waiting
<1>10. ASSUME NEW button \in {"lob", "demi"}, FinishSpecial(button)
       PROVE  Core(game') /\ Waiting'
  <2>1. /\ game' = LobOfLast(game) \/ game' = DemiOfLast(game)
        /\ running # "idle" /\ running' = "idle"
        /\ UNCHANGED <<uiQueue, started>>
    BY <1>10 DEF FinishSpecial
  <2>2. Sound(game)
    BY <1>1, <2>1 DEF Waiting
  <2>3. Sound(game') /\ game'.status = game.status /\ game'.enabled = game.enabled
    BY <2>1, <2>2, LobEffect, DemiEffect
  <2>4. Core(game') /\ game'.events # <<>>
    BY <1>1, <2>3, SoundCore
  <2> QED
    BY <2>1, <2>4 DEF Waiting
<1>11. ASSUME EndTimer
       PROVE  Core(game') /\ Waiting'
  <2>1. game.endPending /\ game' = EndMessage(game) /\ UNCHANGED <<uiQueue, running, started>>
    BY <1>11 DEF EndTimer
  <2>2. Sound(game)
    BY <1>1, <2>1 DEF Core, TimerRight
  <2>3. Sound(game') /\ game'.status = "FINISHED" /\ ~game'.enabled
    BY <2>1, <2>2, EndMessageEffect
  <2>4. game'.enabled \in BOOLEAN
    BY <2>3 DEF Sound, Begun, Games
  <2>5. Core(game') /\ game'.events # <<>>
    BY <2>3, <2>4, SoundCore
  <2> QED
    BY <2>1, <2>5 DEF Waiting
<1>12. ASSUME Stop
       PROVE  Core(game') /\ Waiting'
  BY <1>12 DEF Stop, Waiting
<1>13. ASSUME Restart
       PROVE  Core(game') /\ Waiting'
  <2>1. game' = SetScore(game, 0, 0) /\ started' = TRUE /\ UNCHANGED <<uiQueue, running>>
    BY <1>13 DEF Restart
  <2>2. /\ game' \in Games /\ game'.events = game.events /\ game'.factor = game.factor
        /\ game'.status = game.status /\ game'.enabled = game.enabled
        /\ TimerRight(game')
    BY <1>1, <2>1, ZeroScores
  <2>3. game.events # <<>> => Sound(game')
    BY <1>1, <2>2 DEF Sound, Begun, FactorRight
  <2>4. Core(game')
    BY <2>2, <2>3 DEF Core
  <2> QED
    BY <2>1, <2>2, <2>4 DEF Waiting
<1>14. ASSUME Recreate
       PROVE  Core(game') /\ Waiting'
  <2>1. game' = FreshGame /\ uiQueue' = <<>> /\ running' = "idle" /\ started' = TRUE
    BY <1>14 DEF Recreate
  <2>3. Core(game')
    BY <2>1, FreshCore
  <2>4. <<>> \in Seq(UiItems) /\ ~ClickWaiting(<<>>)
    BY DEF ClickWaiting
  <2> QED
    BY <2>1, <2>3, <2>4 DEF Waiting
<1>15. ASSUME UNCHANGED vars
       PROVE  Core(game') /\ Waiting'
  BY <1>15 DEF vars, Waiting
<1> QED
  BY <1>2, <1>3, <1>4, <1>5, <1>6, <1>7, <1>8, <1>9, <1>10, <1>11, <1>12, <1>13,
     <1>14, <1>15 DEF Next, Work

\* The inductive invariant holds in every state the screen can be in.
THEOREM SpecInvariant == Spec => []IInv
  BY InitInvariant, StepInvariant, PTL DEF Spec
-----------------------------------------------------------------------------
\* The fields of the activity keep their types, the multiplier is at most 3.
THEOREM TypeCorrect == Spec => []TypeOK
<1>1. IInv => TypeOK
  BY DEF IInv, Core, Waiting, TypeOK
<1> QED
  BY <1>1, SpecInvariant, PTL

\* The history begins with its one START, and no handler can run that would
\* read an event where there is none.
THEOREM HistoryCorrect == Spec => []HistoryBegins
<1>1. IInv => HistoryBegins
  <2> SUFFICES ASSUME IInv PROVE HistoryBegins
    OBVIOUS
  <2>1. game.events # <<>> => History(game.events)
    BY DEF IInv, Core, Sound, Begun
  <2>2. game.enabled => game.events # <<>>
    BY DEF IInv, Core
  <2>3. running # "idle" \/ ClickWaiting(uiQueue) => game.events # <<>>
    BY DEF IInv, Waiting
  <2>4. CASE game.events = <<>>
    BY <2>2, <2>3, <2>4 DEF HistoryBegins, ClickWaiting
  <2>5. CASE game.events # <<>>
    BY <2>1, <2>5 DEF HistoryBegins, History
  <2> QED
    BY <2>4, <2>5
<1> QED
  BY <1>1, SpecInvariant, PTL

\* The end message is posted exactly at the win of a game that is on.
THEOREM EndTimerCorrect == Spec => []EndTimerMatchesScore
<1>1. IInv => EndTimerMatchesScore
  BY DEF IInv, Core, TimerRight, EndTimerMatchesScore
<1> QED
  BY <1>1, SpecInvariant, PTL

\* The multiplier is the one the history shows.
THEOREM FactorCorrect == Spec => []FactorMatchesHistory
<1>1. IInv => FactorMatchesHistory
  BY DEF IInv, Core, Sound, FactorRight, FactorMatchesHistory
<1> QED
  BY <1>1, SpecInvariant, PTL

\* A goal, a gamelle and a special goal leave nobody over the win.
THEOREM CapsCorrect == Spec => ScoringCaps
<1> DEFINE Scores ==
             \/ \E goal \in Goals : HandleGoal(goal) /\ game.status = "STARTED"
             \/ \E button \in Gamelles : ClickGamelle(button)
             \/ \E button \in {"lob", "demi"} :
                  FinishSpecial(button) /\ Last(game.events).type = "GOAL"
<1>1. IInv /\ Scores => ~Over(game'.blue, game'.red)
  <2> SUFFICES ASSUME IInv, Scores PROVE ~Over(game'.blue, game'.red)
    OBVIOUS
  <2>1. game.events # <<>> => Sound(game)
    BY DEF IInv, Core
  <2>2. ASSUME NEW goal \in Goals, HandleGoal(goal), game.status = "STARTED"
        PROVE  ~Over(game'.blue, game'.red)
    <3>1. game' = ScoreGoal(game, goal = "goalBlue")
      BY <2>2 DEF HandleGoal
    <3>2. Sound(game)
      BY <2>1, <2>2 DEF IInv, Core
    <3> QED
      BY <2>2, <3>1, <3>2, GoalEffect
  <2>3. ASSUME NEW button \in Gamelles, ClickGamelle(button)
        PROVE  ~Over(game'.blue, game'.red)
    <3>1. game' = SpecialGoalGamelle(game, button = "gamelleBlue")
      BY <2>3 DEF ClickGamelle
    <3>2. Sound(game)
      BY <2>1, <2>3, TakeEffect DEF ClickGamelle, GameClicks, IInv, Waiting
    <3> QED
      BY <3>1, <3>2, GamelleEffect
  <2>4. ASSUME NEW button \in {"lob", "demi"}, FinishSpecial(button),
               Last(game.events).type = "GOAL"
        PROVE  ~Over(game'.blue, game'.red)
    <3>1. (game' = LobOfLast(game) \/ game' = DemiOfLast(game)) /\ running # "idle"
      BY <2>4 DEF FinishSpecial
    <3>2. Sound(game)
      BY <2>1, <3>1 DEF IInv, Waiting
    <3> QED
      BY <2>4, <3>1, <3>2, LobEffect, DemiEffect
  <2> QED
    BY <2>2, <2>3, <2>4
<1>2. IInv /\ [Next]_vars => [Scores => ~Over(game'.blue, game'.red)]_vars
  BY <1>1
<1> QED
  BY <1>2, SpecInvariant, PTL DEF Spec, ScoringCaps
\* A closed game keeps its history and its timer stays off, in every handler but a
\* new game and a click that was posted while the game was on.
THEOREM SealedCorrect == Spec => ClosedGameIsSealed
<1> DEFINE Closed == /\ game.status = "FINISHED" /\ game'.status = "FINISHED"
                     /\ running = "idle"
                     /\ \A i \in DOMAIN uiQueue : uiQueue[i] \notin GameClicks
                     /\ ~Recreate
           Sealed == game'.events = game.events /\ ~game'.endPending
<1>1. IInv /\ Next /\ Closed => Sealed
  <2> SUFFICES ASSUME IInv, Next, Closed PROVE Sealed
    OBVIOUS
  <2>1. game \in Games /\ ~game.endPending
    <3>1. game \in Games /\ TimerRight(game) /\ game.status # "STARTED"
      BY DEF IInv, Core
    <3> QED
      BY <3>1 DEF TimerRight
  <2>2. Waiting /\ ~ClickWaiting(uiQueue)
    BY DEF IInv, ClickWaiting
  <2>3. game' = game => Sealed
    BY <2>1
  <2>4. ASSUME NEW goal \in Goals, HandleGoal(goal)
        PROVE  Sealed
    BY <2>3, <2>4 DEF HandleGoal, ScoreGoal
  <2>5. ASSUME ClickNewGame
        PROVE  Sealed
    <3>1. game' = StartNewGame(game)
      BY <2>5 DEF ClickNewGame
    <3>2. game'.status = "STARTED"
      BY <2>1, <3>1, NewGameEffect
    <3> QED
      BY <3>2
  <2>6. ASSUME NEW button \in GameClicks, Take(button)
        PROVE  FALSE
    BY <2>2, <2>6, TakeEffect
  <2>7. ASSUME StripMore10 \/ \E button \in {"lob", "demi"} : FinishSpecial(button)
        PROVE  FALSE
    BY <2>7 DEF StripMore10, FinishSpecial
  <2>8. ~EndTimer
    BY <2>1 DEF EndTimer
  <2>9. ASSUME Restart
        PROVE  Sealed
    <3>1. game' = SetScore(game, 0, 0)
      BY <2>9 DEF Restart
    <3> QED
      BY <2>1, <3>1, ZeroScores
  <2>10. ASSUME \/ \E goal \in Goals : GoalArrives(goal)
                \/ \E button \in GameClicks \cup {"newGame"} : Press(button)
                \/ Stop
         PROVE  Sealed
    <3>1. game' = game
      BY <2>10 DEF GoalArrives, Press, Stop
    <3> QED
      BY <2>3, <3>1
  <2>11. \/ ClickUndo
         \/ \E button \in Gamelles : ClickGamelle(button)
         \/ \E button \in {"lob", "demi"} : ClickSpecial(button)
         => \E button \in GameClicks : Take(button)
    BY DEF ClickUndo, ClickGamelle, ClickSpecial, GameClicks
  <2> QED
    BY <2>4, <2>5, <2>6, <2>7, <2>8, <2>9, <2>10, <2>11 DEF Next, Work
<1>2. IInv /\ [Next]_vars => [Closed => Sealed]_vars
  BY <1>1
<1> QED
  BY <1>2, SpecInvariant, PTL DEF Spec, ClosedGameIsSealed
-----------------------------------------------------------------------------
\* What the life of a game turns on: a begun game keeps its status under every
\* handler but a new game, and only the end message closes one.
LEMMA PhaseOf ==
  ASSUME NEW g, Core(g)
  PROVE  /\ g.status = "STARTED" /\ g.endPending  => Phase(g) = "closing"
         /\ g.status = "STARTED" /\ ~g.endPending => Phase(g) = "playing"
         /\ g.status = "FINISHED" /\ g.events = <<>> => Phase(g) = "none"
         /\ g.status = "FINISHED" /\ g.events # <<>> => Phase(g) = "over"
         /\ g.status \in {"STARTED", "FINISHED"}
         /\ g.endPending \in BOOLEAN
  BY DEF Core, Games, Phase

\* A step that keeps the status of a begun game only moves it in or out of the
\* grace period.
LEMMA SameStatusPhase ==
  ASSUME NEW g, NEW h, Core(g), Core(h), h.status = g.status,
         (h.events = <<>>) <=> (g.events = <<>>)
  PROVE  \/ Phase(h) = Phase(g)
         \/ Phase(g) = "playing" /\ Phase(h) = "closing"
         \/ Phase(g) = "closing" /\ Phase(h) = "playing"
  BY PhaseOf

\* The scoring screen implements the life of a game (GameLifecycle): it is closed
\* only out of its grace period, and never resumed once closed.
THEOREM LifecycleCorrect == Spec => ImplementsLifecycle
<1> DEFINE Lived == \/ Lifecycle!Next
                    \/ Phase(game') = Phase(game) /\ Blank(game') = Blank(game)
<1>1. Init => Lifecycle!Init
  <2> SUFFICES ASSUME Init PROVE Lifecycle!Init
    OBVIOUS
  <2>1. Phase(game) = "none" /\ game.events = <<>>
    BY FreshCore, PhaseOf DEF Init, FreshGame
  <2>2. ~Blank(game)
    BY <2>1 DEF Blank
  <2> QED
    BY <2>1, <2>2 DEF Lifecycle!Init
<1>2. IInv /\ IInv' /\ [Next]_vars => [Lifecycle!Next]_(<<Phase(game), Blank(game)>>)
  <2> SUFFICES ASSUME IInv, IInv', [Next]_vars
               PROVE  Lived
    BY DEF Phase, Blank
  <2>1. Core(game) /\ Core(game') /\ (game.events # <<>> => Sound(game))
    BY DEF IInv, Core
  <2>2. ASSUME game'.status = game.status, (game'.events = <<>>) <=> (game.events = <<>>)
        PROVE  Lived
    <3>1. \/ Phase(game') = Phase(game)
          \/ Phase(game) = "playing" /\ Phase(game') = "closing"
          \/ Phase(game) = "closing" /\ Phase(game') = "playing"
      BY <2>1, <2>2, SameStatusPhase
    <3>2. Blank(game) \in BOOLEAN /\ Blank(game') \in BOOLEAN
      BY DEF Blank
    <3>3. CASE Phase(game') = Phase(game) /\ Phase(game) = "none"
      <4>1. game.events = <<>> /\ game'.events = <<>>
        BY <2>1, <2>2, <3>3, PhaseOf
      <4> QED
        BY <3>3, <4>1 DEF Blank
    <3>4. CASE Phase(game') = Phase(game) /\ Phase(game) # "none"
      BY <3>2, <3>4 DEF Lifecycle!Next, Lifecycle!Play
    <3>5. CASE Phase(game') # Phase(game)
      BY <3>1, <3>2, <3>5 DEF Lifecycle!Next, Lifecycle!Reach, Lifecycle!Resume
    <3> QED
      BY <3>3, <3>4, <3>5
  <2>3. ASSUME game' = game
        PROVE  Lived
    BY <2>3
  <2>4. ASSUME Sound(game'), game'.status = game.status, game.events # <<>>
        PROVE  Lived
    <3>1. game'.events # <<>>
      BY <2>4 DEF Sound, Begun, History
    <3> QED
      BY <2>2, <2>4, <3>1
  <2>5. ASSUME NEW goal \in Goals, HandleGoal(goal)
        PROVE  Lived
    <3>1. game' = ScoreGoal(game, goal = "goalBlue")
      BY <2>5 DEF HandleGoal
    <3>2. CASE game.events = <<>>
      <4>1. game' = game
        BY <2>1, <3>1, <3>2, PhaseOf DEF ScoreGoal, Core
      <4> QED
        BY <2>3, <4>1
    <3>3. CASE game.events # <<>>
      BY <2>1, <2>4, <3>1, <3>3, GoalEffect
    <3> QED
      BY <3>2, <3>3
  <2>6. ASSUME ClickNewGame
        PROVE  Lived
    <3>1. game' = StartNewGame(game) /\ game \in Games
      BY <2>1, <2>6 DEF ClickNewGame, Core
    <3>2. game'.status = "STARTED" /\ ~game'.endPending /\ Blank(game')
      BY <3>1, NewGameEffect
    <3>3. Phase(game') = "playing"
      BY <2>1, <3>2, PhaseOf
    <3> QED
      BY <3>2, <3>3 DEF Lifecycle!Next, Lifecycle!Begin
  <2>7. ASSUME ClickUndo
        PROVE  Lived
    <3>1. game' = UndoLastGoal(game) /\ game.events # <<>>
      BY <2>7, TakeEffect DEF ClickUndo, GameClicks, IInv, Waiting
    <3> QED
      BY <2>1, <2>4, <3>1, UndoHandlerEffect
  <2>8. ASSUME NEW button \in Gamelles, ClickGamelle(button)
        PROVE  Lived
    <3>1. /\ game' = SpecialGoalGamelle(game, button = "gamelleBlue")
          /\ game.events # <<>>
      BY <2>8, TakeEffect DEF ClickGamelle, GameClicks, IInv, Waiting
    <3> QED
      BY <2>1, <2>4, <3>1, GamelleEffect
  <2>9. ASSUME StripMore10
        PROVE  Lived
    <3>1. game' = UndoLastGoal(game) /\ game.events # <<>>
      BY <2>9 DEF StripMore10, IInv, Waiting
    <3> QED
      BY <2>1, <2>4, <3>1, UndoHandlerEffect
  <2>10. ASSUME NEW button \in {"lob", "demi"}, FinishSpecial(button)
         PROVE  Lived
    <3>1. (game' = LobOfLast(game) \/ game' = DemiOfLast(game)) /\ game.events # <<>>
      BY <2>10 DEF FinishSpecial, IInv, Waiting
    <3> QED
      BY <2>1, <2>4, <3>1, LobEffect, DemiEffect
  <2>11. ASSUME EndTimer
         PROVE  Lived
    <3>1. game.endPending /\ game' = EndMessage(game)
      BY <2>11 DEF EndTimer
    <3>2. game.status = "STARTED" /\ Sound(game)
      BY <2>1, <3>1 DEF Core, TimerRight
    <3>3. Sound(game') /\ game'.status = "FINISHED"
      BY <3>1, <3>2, EndMessageEffect
    <3>4. Phase(game) = "closing"
      BY <2>1, <3>1, <3>2, PhaseOf
    <3>5. Phase(game') = "over"
      BY <2>1, <3>3, PhaseOf DEF Sound, Begun, History
    <3>6. Blank(game') \in BOOLEAN
      BY DEF Blank
    <3> QED
      BY <3>4, <3>5, <3>6 DEF Lifecycle!Next, Lifecycle!Close
  <2>12. ASSUME Restart
         PROVE  Lived
    <3>1. game' = SetScore(game, 0, 0) /\ game \in Games
      BY <2>1, <2>12 DEF Restart, Core
    <3>2. game'.status = game.status /\ game'.events = game.events
      BY <3>1, ZeroScores
    <3> QED
      BY <2>2, <3>2
  <2>13. ASSUME Recreate
         PROVE  Lived
    <3>1. game' = FreshGame
      BY <2>13 DEF Recreate
    <3>2. Phase(game') = "none"
      BY <2>1, <3>1, PhaseOf DEF FreshGame
    <3>3. ~Blank(game')
      BY <3>1 DEF Blank, FreshGame
    <3> QED
      BY <3>2, <3>3 DEF Lifecycle!Next, Lifecycle!Leave
  <2>14. ASSUME \/ \E goal \in Goals : GoalArrives(goal)
                \/ \E button \in GameClicks \cup {"newGame"} : Press(button)
                \/ \E button \in {"lob", "demi"} : ClickSpecial(button)
                \/ Stop
                \/ UNCHANGED vars
         PROVE  Lived
    <3>1. game' = game
      BY <2>14 DEF GoalArrives, Press, ClickSpecial, Stop, vars
    <3> QED
      BY <2>3, <3>1
  <2> QED
    BY <2>5, <2>6, <2>7, <2>8, <2>9, <2>10, <2>11, <2>12, <2>13, <2>14 DEF Next, Work
<1> QED
  BY <1>1, <1>2, SpecInvariant, PTL DEF Spec, ImplementsLifecycle, Lifecycle!Spec
-----------------------------------------------------------------------------
\* What one event gives a team, and what each event of a history does.
Worth(e, isBlue)   == IF e.isBlue = isBlue THEN e.scoreDiff ELSE 0
Worths(ev, isBlue) == [i \in DOMAIN ev |-> Worth(ev[i], isBlue)]

LEMMA PointsAreTotal ==
  ASSUME NEW ev, NEW c
  PROVE  PointsOf(ev, c) = Total(Worths(ev, c))
BY DEF PointsOf, Worths, Worth

LEMMA WorthInt ==
  ASSUME NEW e \in BabyEvent, NEW c \in BOOLEAN
  PROVE  Worth(e, c) \in Int
BY DEF Worth, BabyEvent

LEMMA WorthOfEvent ==
  ASSUME NEW type, NEW isBlue \in BOOLEAN, NEW diff, NEW c \in BOOLEAN
  PROVE  Worth(Event(type, isBlue, diff), c) = IF isBlue = c THEN diff ELSE 0
BY DEF Worth, Event

LEMMA WorthsSeq ==
  ASSUME NEW ev \in Seq(BabyEvent), NEW c \in BOOLEAN
  PROVE  /\ Worths(ev, c) \in Seq(Int) /\ Len(Worths(ev, c)) = Len(ev)
         /\ \A i \in 1..Len(ev) : Worths(ev, c)[i] = Worth(ev[i], c)
<1> DEFINE w == Worths(ev, c)
<1>1. Len(ev) \in Nat /\ DOMAIN ev = 1..Len(ev) /\ \A i \in 1..Len(ev) : ev[i] \in BabyEvent
  OBVIOUS
<1>2. \A i \in 1..Len(ev) : Worth(ev[i], c) \in Int
  BY <1>1, WorthInt
<1>3. w \in [1..Len(ev) -> Int] /\ \A i \in 1..Len(ev) : w[i] = Worth(ev[i], c)
  BY <1>1, <1>2 DEF Worths
<1>4. \A f, k : k \in Nat /\ f \in [1..k -> Int] => f \in Seq(Int) /\ Len(f) = k
  OBVIOUS
<1> HIDE DEF w
<1> QED
  BY <1>1, <1>3, <1>4 DEF w

LEMMA PointsInt ==
  ASSUME NEW ev \in Seq(BabyEvent), NEW c \in BOOLEAN
  PROVE  PointsOf(ev, c) \in Int
BY PointsAreTotal, WorthsSeq, TotalType

\* An event more gives what it is worth.
LEMMA PointsAppend ==
  ASSUME NEW e \in BabyEvent, NEW ev \in Seq(BabyEvent), NEW c \in BOOLEAN
  PROVE  PointsOf(Append(ev, e), c) = PointsOf(ev, c) + Worth(e, c)
<1> DEFINE t == Append(ev, e)
           w == Worths(ev, c)
           u == Worths(t, c)
           v == Append(w, Worth(e, c))
<1>1. /\ t \in Seq(BabyEvent) /\ Len(t) = Len(ev) + 1 /\ t[Len(ev) + 1] = e
      /\ Len(ev) \in Nat /\ \A i \in 1..Len(ev) : t[i] = ev[i]
  OBVIOUS
<1>2. Worth(e, c) \in Int
  BY WorthInt
<1>3. /\ w \in Seq(Int) /\ Len(w) = Len(ev)
      /\ \A i \in 1..Len(ev) : w[i] = Worth(ev[i], c)
  BY WorthsSeq
<1>t. t = Append(ev, e)
  OBVIOUS
<1> HIDE DEF t
<1>4. /\ u \in Seq(Int) /\ Len(u) = Len(t)
      /\ \A i \in 1..Len(t) : u[i] = Worth(t[i], c)
  BY <1>1, WorthsSeq
<1> HIDE DEF w
<1>5. /\ v \in Seq(Int) /\ Len(v) = Len(ev) + 1 /\ v[Len(ev) + 1] = Worth(e, c)
      /\ \A i \in 1..Len(ev) : v[i] = w[i]
  BY <1>1, <1>2, <1>3
<1>6. Total(v) = Total(w) + Worth(e, c)
  BY <1>2, <1>3, TotalAppend
<1> HIDE DEF u, v
<1>7. u = v
  <2>1. ASSUME NEW i \in 1..Len(u) PROVE u[i] = v[i]
    <3>1. CASE i = Len(ev) + 1
      BY <1>1, <1>4, <1>5, <3>1
    <3>2. CASE i \in 1..Len(ev)
      BY <1>1, <1>3, <1>4, <1>5, <3>2
    <3> QED
      BY <1>1, <1>4, <3>1, <3>2
  <2> QED
    BY <1>1, <1>4, <1>5, <2>1, SameElements
<1> QED
  BY <1>6, <1>7, <1>t, PointsAreTotal DEF u, w

LEMMA PointsFront ==
  ASSUME NEW ev \in Seq(BabyEvent), ev # <<>>, NEW c \in BOOLEAN
  PROVE  /\ PointsOf(Front(ev), c) = PointsOf(ev, c) - Worth(Last(ev), c)
         /\ Front(ev) \in Seq(BabyEvent) /\ Last(ev) \in BabyEvent
<1> DEFINE f == Front(ev)
           l == Last(ev)
<1>1. f \in Seq(BabyEvent) /\ l \in BabyEvent /\ ev = Append(f, l)
  BY DEF Front, Last
<1> HIDE DEF f, l
<1>2. PointsOf(ev, c) = PointsOf(f, c) + Worth(l, c)
  BY <1>1, PointsAppend
<1>3. PointsOf(f, c) \in Int /\ Worth(l, c) \in Int
  BY <1>1, PointsInt, WorthInt
<1> QED
  BY <1>1, <1>2, <1>3 DEF f, l

\* A pair of MORE10 takes as much from either team.
LEMMA PointsMore10 ==
  ASSUME NEW ev \in Seq(BabyEvent), NEW d \in Int, NEW c \in BOOLEAN
  PROVE  /\ ev \o More10Pair(d) \in Seq(BabyEvent)
         /\ PointsOf(ev \o More10Pair(d), c) = PointsOf(ev, c) - d
<1> DEFINE blue == Event("MORE10", TRUE, -d)
           red  == Event("MORE10", FALSE, -d)
           a    == Append(ev, blue)
           b    == Append(a, red)
<1>1. blue \in BabyEvent /\ red \in BabyEvent
  BY DEF Event, BabyEvent, EventTypes
<1>2. Worth(blue, c) = (IF c THEN -d ELSE 0) /\ Worth(red, c) = (IF c THEN 0 ELSE -d)
  BY WorthOfEvent
<1>3. More10Pair(d) = <<blue, red>>
  BY DEF More10Pair
<1> HIDE DEF blue, red
<1>4. a \in Seq(BabyEvent) /\ b \in Seq(BabyEvent) /\ ev \o <<blue, red>> = b
  BY <1>1
<1>5. PointsOf(a, c) = PointsOf(ev, c) + Worth(blue, c)
  BY <1>1, PointsAppend
<1> HIDE DEF a
<1>6. PointsOf(b, c) = PointsOf(a, c) + Worth(red, c)
  BY <1>1, <1>4, PointsAppend
<1>7. PointsOf(ev, c) \in Int
  BY PointsInt
<1> HIDE DEF b
<1>8. PointsOf(b, c) = PointsOf(ev, c) - d
  BY <1>2, <1>5, <1>6, <1>7
<1> QED
  BY <1>3, <1>4, <1>8
-----------------------------------------------------------------------------
\* setScore meets a score over the win, and no earlier cap holds it back.
Capping(g, b, r) == Over(b, r) /\ Last(g.events).type # "MORE10"

\* The three things setScore does to a game that has been begun: it sets the
\* scores, or caps them once, or twice.
SetsOrCaps(g, b, r, s, d1, d2) ==
  /\ d1 \in Int /\ d2 \in Int
  /\ ~Capping(g, b, r) => s.blue = b /\ s.red = r /\ s.events = g.events
  /\ Capping(g, b, r) /\ ~Over(b - d1, r - d1)
       => /\ s.blue = b - d1 /\ s.red = r - d1
          /\ s.events = g.events \o More10Pair(d1)
  /\ Capping(g, b, r) /\ Over(b - d1, r - d1)
       => /\ s.blue = b - d1 - d2 /\ s.red = r - d1 - d2
          /\ s.events = (g.events \o More10Pair(d2)) \o More10Pair(d1)

LEMMA SetScoreCases ==
  ASSUME NEW g, Begun(g), NEW b \in Int, NEW r \in Int
  PROVE  LET d1 == Excess(b, r)
         IN  SetsOrCaps(g, b, r, SetScore(g, b, r), d1, Excess(b - d1, r - d1))
<1> SUFFICES ASSUME NEW s, s = SetScore(g, b, r), NEW d1, d1 = Excess(b, r),
                    NEW d2, d2 = Excess(b - d1, r - d1)
             PROVE  SetsOrCaps(g, b, r, s, d1, d2)
  OBVIOUS
<1> USE DEF SetsOrCaps
<1> DEFINE ev == g.events
<1>1. g \in Games /\ ev \in Seq(BabyEvent) /\ ev # <<>>
  BY DEF Begun, History
<1>2. d1 \in Int /\ d2 \in Int
  BY WinScoreAssumption DEF Excess
<1>3. \A x, y, more : /\ Settle(g, x, y, more).blue = x /\ Settle(g, x, y, more).red = y
                      /\ Settle(g, x, y, more).events = ev \o more
  BY <1>1 DEF Settle, Games
<1>4. ev \o <<>> = ev
  BY <1>1
<1>5. (ev \o More10Pair(d2)) \o More10Pair(d1) = ev \o (More10Pair(d2) \o More10Pair(d1))
  <2>1. \A d \in Int : More10Pair(d) \in Seq(BabyEvent)
    BY DEF More10Pair, Event, BabyEvent, EventTypes
  <2> DEFINE p == More10Pair(d1)
             q == More10Pair(d2)
  <2>2. p \in Seq(BabyEvent) /\ q \in Seq(BabyEvent)
    BY <1>2, <2>1
  <2> HIDE DEF p, q, ev
  <2>3. (ev \o q) \o p = ev \o (q \o p)
    BY <1>1, <2>2, ConcatAssociative
  <2> QED
    BY <2>3 DEF p, q
<1>6. CASE ~Capping(g, b, r)
  <2>1. s = Settle(g, b, r, <<>>)
    BY <1>1, <1>6 DEF SetScore, Capping
  <2>2. s.blue = b /\ s.red = r /\ s.events = ev
    <3> DEFINE none == <<>>
    <3>1. s = Settle(g, b, r, none) /\ ev \o none = ev
      BY <1>4, <2>1
    <3> HIDE DEF none, ev
    <3> QED
      BY <1>3, <3>1
  <2> QED
    BY <1>2, <1>6, <2>2
<1>7. CASE Capping(g, b, r) /\ ~Over(b - d1, r - d1)
  <2>1. s = Settle(g, b - d1, r - d1, More10Pair(d1))
    BY <1>1, <1>7 DEF SetScore, Capping
  <2>2. s.blue = b - d1 /\ s.red = r - d1 /\ s.events = ev \o More10Pair(d1)
    BY <1>3, <2>1
  <2> QED
    BY <1>2, <1>7, <2>2
<1>8. CASE Capping(g, b, r) /\ Over(b - d1, r - d1)
  <2>1. s = Settle(g, b - d1 - d2, r - d1 - d2, More10Pair(d2) \o More10Pair(d1))
    BY <1>1, <1>8 DEF SetScore, Capping
  <2>2. /\ s.blue = b - d1 - d2 /\ s.red = r - d1 - d2
        /\ s.events = ev \o (More10Pair(d2) \o More10Pair(d1))
    <3> DEFINE more == More10Pair(d2) \o More10Pair(d1)
               x == b - d1 - d2
               y == r - d1 - d2
    <3>1. s = Settle(g, x, y, more)
      BY <2>1
    <3> HIDE DEF more, x, y, ev
    <3>2. s.blue = x /\ s.red = y /\ s.events = ev \o more
      BY <1>3, <3>1
    <3> QED
      BY <3>2 DEF x, y, more
  <2>3. s.events = (ev \o More10Pair(d2)) \o More10Pair(d1)
    BY <1>5, <2>2, Zenon
  <2> QED
    BY <1>2, <1>8, <2>2, <2>3
<1> QED
  BY <1>6, <1>7, <1>8

\* setScore moves a score and what its events give by the same amount.
Shown(g, isBlue) == IF isBlue THEN g.blue ELSE g.red

LEMMA DriftIs ==
  ASSUME NEW g, Begun(g), NEW c \in BOOLEAN
  PROVE  /\ Drift(g, c) = Shown(g, c) - PointsOf(g.events, c)
         /\ Shown(g, c) \in Int /\ PointsOf(g.events, c) \in Int
         /\ g.events \in Seq(BabyEvent) /\ g.events # <<>>
<1>1. g \in Games /\ g.events \in Seq(BabyEvent) /\ g.events # <<>>
  BY DEF Begun, History
<1>2. PointsOf(g.events, c) \in Int
  BY <1>1, PointsInt
<1>3. Shown(g, c) \in Int
  BY <1>1 DEF Shown, Games
<1> QED
  BY <1>1, <1>2, <1>3 DEF Drift, Shown

LEMMA SetScoreDrift ==
  ASSUME NEW g, Begun(g), NEW b \in Int, NEW r \in Int, NEW c \in BOOLEAN
  PROVE  Drift(SetScore(g, b, r), c) = (IF c THEN b ELSE r) - PointsOf(g.events, c)
<1> DEFINE s  == SetScore(g, b, r)
           d1 == Excess(b, r)
           d2 == Excess(b - d1, r - d1)
           ev == g.events
<1>1. /\ d1 \in Int /\ d2 \in Int
      /\ ~Capping(g, b, r) => s.blue = b /\ s.red = r /\ s.events = ev
      /\ Capping(g, b, r) /\ ~Over(b - d1, r - d1)
           => /\ s.blue = b - d1 /\ s.red = r - d1
              /\ s.events = ev \o More10Pair(d1)
      /\ Capping(g, b, r) /\ Over(b - d1, r - d1)
           => /\ s.blue = b - d1 - d2 /\ s.red = r - d1 - d2
              /\ s.events = (ev \o More10Pair(d2)) \o More10Pair(d1)
  <2>1. SetsOrCaps(g, b, r, s, d1, d2)
    BY SetScoreCases
  <2> HIDE DEF s, d1, d2
  <2> QED
    BY <2>1 DEF SetsOrCaps
<1>2. Begun(s)
  BY SetScoreEffect
<1> HIDE DEF s, d1, d2
<1>3. ev \in Seq(BabyEvent) /\ PointsOf(ev, c) \in Int
  BY DriftIs
<1>4. Drift(s, c) = (IF c THEN s.blue ELSE s.red) - PointsOf(s.events, c)
  BY <1>2, DriftIs DEF Shown
<1>5. PointsOf(ev \o More10Pair(d1), c) = PointsOf(ev, c) - d1
  BY <1>1, <1>3, PointsMore10
<1>6. PointsOf((ev \o More10Pair(d2)) \o More10Pair(d1), c) = PointsOf(ev, c) - d2 - d1
  <2> DEFINE a == ev \o More10Pair(d2)
  <2>1. a \in Seq(BabyEvent) /\ PointsOf(a, c) = PointsOf(ev, c) - d2
    BY <1>1, <1>3, PointsMore10
  <2> HIDE DEF a
  <2>2. PointsOf(a \o More10Pair(d1), c) = PointsOf(a, c) - d1
    BY <1>1, <2>1, PointsMore10
  <2> QED
    BY <2>1, <2>2 DEF a
<1>7. Drift(s, c) = (IF c THEN b ELSE r) - PointsOf(ev, c)
  <2> DEFINE p == PointsOf(ev, c)
  <2> HIDE DEF ev, p
  <2>1. CASE ~Capping(g, b, r)
    BY <1>1, <1>4, <2>1 DEF p
  <2>2. CASE Capping(g, b, r) /\ ~Over(b - d1, r - d1)
    <3>1. /\ s.blue = b - d1 /\ s.red = r - d1 /\ PointsOf(s.events, c) = PointsOf(ev, c) - d1
      BY <1>1, <1>5, <2>2
    <3> QED
      BY <1>1, <1>3, <1>4, <3>1
  <2>3. CASE Capping(g, b, r) /\ Over(b - d1, r - d1)
    <3>1. /\ s.blue = b - d1 - d2 /\ s.red = r - d1 - d2
          /\ PointsOf(s.events, c) = PointsOf(ev, c) - d2 - d1
      BY <1>1, <1>6, <2>3
    <3> QED
      BY <1>1, <1>3, <1>4, <3>1
  <2> QED
    BY <2>1, <2>2, <2>3
<1> QED
  BY <1>7 DEF s

LEMMA AddScoreDrift ==
  ASSUME NEW g, Begun(g), NEW isBlue \in BOOLEAN, NEW diff \in Int, NEW c \in BOOLEAN
  PROVE  Drift(AddScore(g, isBlue, diff), c) = Drift(g, c) + (IF isBlue = c THEN diff ELSE 0)
<1>1. g.blue \in Int /\ g.red \in Int
  BY DEF Begun, Games
<1>2. /\ Drift(g, c) = Shown(g, c) - PointsOf(g.events, c)
      /\ PointsOf(g.events, c) \in Int
  BY DriftIs
<1>3. CASE isBlue
  <2> DEFINE b == g.blue + diff
  <2>1. b \in Int /\ AddScore(g, isBlue, diff) = SetScore(g, b, g.red)
    BY <1>1, <1>3 DEF AddScore
  <2> HIDE DEF b
  <2>2. Drift(SetScore(g, b, g.red), c) = (IF c THEN b ELSE g.red) - PointsOf(g.events, c)
    BY <1>1, <2>1, SetScoreDrift
  <2>3. CASE c
    <3>1. /\ (IF isBlue = c THEN diff ELSE 0) = diff /\ Shown(g, c) = g.blue
          /\ (IF c THEN b ELSE g.red) = b
      BY <1>3, <2>3, Zenon DEF Shown
    <3> QED
      BY <1>1, <1>2, <2>1, <2>2, <3>1 DEF b
  <2>4. CASE ~c
    <3>1. /\ (IF isBlue = c THEN diff ELSE 0) = 0 /\ Shown(g, c) = g.red
          /\ (IF c THEN b ELSE g.red) = g.red
      BY <1>3, <2>4, Zenon DEF Shown
    <3> QED
      BY <1>1, <1>2, <2>1, <2>2, <3>1
  <2> QED
    BY <2>3, <2>4
<1>4. CASE ~isBlue
  <2> DEFINE r == g.red + diff
  <2>1. r \in Int /\ AddScore(g, isBlue, diff) = SetScore(g, g.blue, r)
    BY <1>1, <1>4 DEF AddScore
  <2> HIDE DEF r
  <2>2. Drift(SetScore(g, g.blue, r), c) = (IF c THEN g.blue ELSE r) - PointsOf(g.events, c)
    BY <1>1, <2>1, SetScoreDrift
  <2>3. CASE c
    <3>1. /\ (IF isBlue = c THEN diff ELSE 0) = 0 /\ Shown(g, c) = g.blue
          /\ (IF c THEN g.blue ELSE r) = g.blue
      BY <1>4, <2>3, Zenon DEF Shown
    <3> QED
      BY <1>1, <1>2, <2>1, <2>2, <3>1
  <2>4. CASE ~c
    <3>1. /\ (IF isBlue = c THEN diff ELSE 0) = diff /\ Shown(g, c) = g.red
          /\ (IF c THEN g.blue ELSE r) = r
      BY <1>4, <2>4, Zenon DEF Shown
    <3> QED
      BY <1>1, <1>2, <2>1, <2>2, <3>1 DEF r
  <2> QED
    BY <2>3, <2>4
<1> QED
  BY <1>3, <1>4

LEMMA AddEventDrift ==
  ASSUME NEW g, Begun(g), NEW e, Addition(e), NEW c \in BOOLEAN
  PROVE  Drift(AddEvent(g, e), c) = Drift(g, c) - Worth(e, c)
<1> DEFINE a == AddEvent(g, e)
<1>1. a.events = Append(g.events, e) /\ a.blue = g.blue /\ a.red = g.red
  BY DEF AddEvent, Begun, Games
<1>2. /\ Drift(g, c) = Shown(g, c) - PointsOf(g.events, c)
      /\ Shown(g, c) \in Int /\ PointsOf(g.events, c) \in Int /\ g.events \in Seq(BabyEvent)
  BY DriftIs
<1>3. Begun(a)
  BY AddEventEffect
<1> HIDE DEF a
<1>4. Drift(a, c) = Shown(a, c) - PointsOf(a.events, c)
  BY <1>3, DriftIs
<1>5. e \in BabyEvent /\ Worth(e, c) \in Int
  BY WorthInt DEF Addition
<1>6. PointsOf(a.events, c) = PointsOf(g.events, c) + Worth(e, c)
  BY <1>1, <1>2, <1>5, PointsAppend
<1>7. Shown(a, c) = Shown(g, c)
  BY <1>1 DEF Shown
<1> QED
  BY <1>2, <1>4, <1>5, <1>6, <1>7 DEF a

\* The two scores and the history are all that the two accounts are.
LEMMA SameDrift ==
  ASSUME NEW g, NEW h, h.blue = g.blue, h.red = g.red, h.events = g.events, NEW c
  PROVE  Drift(h, c) = Drift(g, c)
BY DEF Drift

\* An undo that meets no cap takes back what its event gave.
LEMMA UndoDrift ==
  ASSUME NEW g, Begun(g), ~UndoMeetsCap(g), NEW c \in BOOLEAN
  PROVE  Drift(UndoLastGoal(g), c) = Drift(g, c)
<1>1. CASE Last(g.events).type = "START"
  BY <1>1 DEF UndoLastGoal
<1>2. CASE Last(g.events).type # "START"
  <2> DEFINE last == Last(g.events)
             s == AddScore(g, last.isBlue, -last.scoreDiff)
             u == UndoLastGoal(g)
             diff == -last.scoreDiff
             team == last.isBlue
  <2>1. g.events \in Seq(BabyEvent) /\ g.events # <<>> /\ last \in BabyEvent
    BY LastOfHistory DEF Begun, History
  <2>2. /\ team \in BOOLEAN /\ diff \in Int /\ Worth(last, c) \in Int
        /\ (IF team = c THEN diff ELSE 0) = -Worth(last, c)
    BY <2>1 DEF Worth, BabyEvent
  <2>3. s.events = g.events
    BY DEF UndoMeetsCap
  <2>4. Begun(s) /\ Drift(s, c) = Drift(g, c) - Worth(last, c)
    <3> HIDE DEF last
    <3>1. Begun(AddScore(g, team, diff))
      <4> HIDE DEF team, diff
      <4> QED
        BY <2>2, AddScoreEffect
    <3>2. Drift(AddScore(g, team, diff), c) = Drift(g, c) + (IF team = c THEN diff ELSE 0)
      <4> HIDE DEF team, diff
      <4> QED
        BY <2>2, AddScoreDrift
    <3>3. Drift(g, c) \in Int
      BY DriftIs
    <3> QED
      BY <2>2, <3>1, <3>2, <3>3
  <2>5. u = [s EXCEPT !.events = Front(s.events), !.factor = FactorAfter(Last(Front(s.events)))]
    BY <1>2 DEF UndoLastGoal
  <2> HIDE DEF s
  <2>6. u.blue = s.blue /\ u.red = s.red /\ u.events = Front(g.events)
    BY <2>3, <2>4, <2>5 DEF Begun, Games
  <2> HIDE DEF u
  <2>7. /\ PointsOf(Front(g.events), c) = PointsOf(g.events, c) - Worth(last, c)
        /\ PointsOf(g.events, c) \in Int
    BY <2>1, PointsFront, PointsInt
  <2>8. Drift(s, c) = Shown(s, c) - PointsOf(g.events, c) /\ Shown(s, c) \in Int
    BY <2>3, <2>4, DriftIs
  <2>9. Drift(u, c) = Shown(s, c) - PointsOf(Front(g.events), c)
    BY <2>6 DEF Drift, Shown
  <2>10. Drift(g, c) \in Int
    BY DriftIs
  <2> QED
    BY <2>2, <2>4, <2>7, <2>8, <2>9, <2>10 DEF u
<1> QED
  BY <1>1, <1>2

\* Points and the event that shows them leave the two accounts where they were,
\* whichever of the two is written first.
LEMMA EventThenScore ==
  ASSUME NEW g, Begun(g), NEW type, NEW isBlue \in BOOLEAN, NEW diff \in Int,
         Addition(Event(type, isBlue, diff)), NEW c \in BOOLEAN
  PROVE  LET s == AddScore(AddEvent(g, Event(type, isBlue, diff)), isBlue, diff)
         IN  Drift(s, c) = Drift(g, c)
<1> DEFINE e == Event(type, isBlue, diff)
           a == AddEvent(g, e)
           w == Worth(e, c)
<1>1. w \in Int /\ w = (IF isBlue = c THEN diff ELSE 0)
  BY WorthOfEvent
<1>2. Begun(a) /\ Drift(a, c) = Drift(g, c) - w
  <2> HIDE DEF e
  <2> QED
    BY AddEventEffect, AddEventDrift DEF e
<1> HIDE DEF a, w
<1>3. Drift(AddScore(a, isBlue, diff), c) = Drift(a, c) + w
  BY <1>1, <1>2, AddScoreDrift
<1>4. Drift(g, c) \in Int
  BY DriftIs
<1> QED
  BY <1>1, <1>2, <1>3, <1>4 DEF a

LEMMA ScoreThenEvent ==
  ASSUME NEW g, Begun(g), NEW type, NEW isBlue \in BOOLEAN, NEW diff \in Int,
         Addition(Event(type, isBlue, diff)), NEW c \in BOOLEAN
  PROVE  LET a == AddEvent(AddScore(g, isBlue, diff), Event(type, isBlue, diff))
         IN  Drift(a, c) = Drift(g, c)
<1> DEFINE e == Event(type, isBlue, diff)
           s == AddScore(g, isBlue, diff)
           w == Worth(e, c)
<1>1. w \in Int /\ w = (IF isBlue = c THEN diff ELSE 0)
  BY WorthOfEvent
<1>2. Begun(s)
  BY AddScoreEffect
<1>3. Drift(s, c) = Drift(g, c) + (IF isBlue = c THEN diff ELSE 0)
  BY AddScoreDrift
<1>4. Drift(AddEvent(s, e), c) = Drift(s, c) - w
  <2> HIDE DEF e, s
  <2> QED
    BY <1>2, AddEventDrift DEF e
<1>5. Drift(g, c) \in Int
  BY DriftIs
<1> HIDE DEF s, w
<1> QED
  BY <1>1, <1>3, <1>4, <1>5 DEF s

LEMMA GoalDrift ==
  ASSUME NEW g, Sound(g), NEW isBlue \in BOOLEAN, NEW c \in BOOLEAN
  PROVE  Drift(ScoreGoal(g, isBlue), c) = Drift(g, c)
<1>1. CASE g.status = "FINISHED"
  BY <1>1 DEF ScoreGoal
<1>2. CASE g.status # "FINISHED"
  <2> DEFINE diff == g.factor
             a == AddEvent(g, Event("GOAL", isBlue, diff))
             s == AddScore(a, isBlue, diff)
             h == [s EXCEPT !.factor = 1]
  <2>1. Begun(g) /\ diff \in Int
    BY DEF Sound, Begun
  <2>2. ScoreGoal(g, isBlue) = h
    BY <1>2 DEF ScoreGoal
  <2>3. Addition(Event("GOAL", isBlue, diff))
    BY <2>1 DEF Addition, Event, BabyEvent, EventTypes
  <2>4. Begun(s)
    <3>1. Begun(a)
      BY <2>1, <2>3, AddEventEffect
    <3> HIDE DEF a, diff
    <3> QED
      BY <2>1, <3>1, AddScoreEffect
  <2>5. Drift(s, c) = Drift(g, c)
    <3> HIDE DEF diff
    <3> QED
      BY <2>1, <2>3, EventThenScore
  <2> HIDE DEF s
  <2>6. h.blue = s.blue /\ h.red = s.red /\ h.events = s.events
    BY <2>4 DEF Begun, Games
  <2> HIDE DEF h
  <2> QED
    BY <2>2, <2>5, <2>6, SameDrift
<1> QED
  BY <1>1, <1>2

LEMMA GamelleDrift ==
  ASSUME NEW g, Sound(g), NEW isBlue \in BOOLEAN, NEW c \in BOOLEAN
  PROVE  Drift(SpecialGoalGamelle(g, isBlue), c) = Drift(g, c)
<1> DEFINE diff == -g.factor
<1>1. Begun(g) /\ diff \in Int /\ diff \in -3 .. -1
  BY DEF Sound, Begun
<1>2. Addition(Event("GAMELLE", isBlue, diff))
  BY <1>1 DEF Addition, Event, BabyEvent, EventTypes
<1>3. SpecialGoalGamelle(g, isBlue)
        = AddScore(AddEvent(g, Event("GAMELLE", isBlue, diff)), isBlue, diff)
  BY DEF SpecialGoalGamelle
<1> HIDE DEF diff
<1> QED
  BY <1>1, <1>2, <1>3, EventThenScore

LEMMA LobDrift ==
  ASSUME NEW g, Sound(g), NEW c \in BOOLEAN
  PROVE  Drift(LobOfLast(g), c) = Drift(g, c)
<1> DEFINE last == Last(g.events)
           isBlue == last.isBlue
           diff == last.scoreDiff
<1>1. CASE last.type # "GOAL"
  BY <1>1 DEF LobOfLast
<1>2. CASE last.type = "GOAL"
  <2>1. Begun(g) /\ isBlue \in BOOLEAN /\ diff \in Int
    BY LastOfHistory DEF Sound, Begun, BabyEvent
  <2>2. Addition(Event("LOB", isBlue, diff))
    BY <2>1 DEF Addition, Event, BabyEvent, EventTypes
  <2>3. LobOfLast(g) = AddEvent(AddScore(g, isBlue, diff), Event("LOB", isBlue, diff))
    BY <1>2 DEF LobOfLast
  <2> HIDE DEF last, isBlue, diff
  <2> QED
    BY <2>1, <2>2, <2>3, ScoreThenEvent
<1> QED
  BY <1>1, <1>2

LEMMA DemiDrift ==
  ASSUME NEW g, Sound(g), ~UndoMeetsCap(g), NEW c \in BOOLEAN
  PROVE  Drift(DemiOfLast(g), c) = Drift(g, c)
<1> DEFINE last == Last(g.events)
           isBlue == last.isBlue
           u == UndoLastGoal(g)
           f == u.factor + 1
           h == DemiOfLast(g)
<1>1. CASE last.type # "GOAL"
  BY <1>1 DEF DemiOfLast
<1>2. CASE last.type = "GOAL"
  <2>1. Begun(g) /\ isBlue \in BOOLEAN
    BY LastOfHistory DEF Sound, Begun, BabyEvent
  <2>2. Begun(u) /\ Drift(u, c) = Drift(g, c)
    BY <1>2, <2>1, UndoEffect, UndoDrift
  <2>3. Drift(g, c) \in Int
    BY <2>1, DriftIs
  <2> HIDE DEF u
  <2>4. f \in {2, 3, 4}
    BY <2>2 DEF Begun
  <2> DEFINE v(n) == [u EXCEPT !.factor = n]
  <2>5. \A n \in 1..3 : Begun(v(n)) /\ Drift(v(n), c) = Drift(u, c)
    <3> SUFFICES ASSUME NEW n \in 1..3
                 PROVE  Begun(v(n)) /\ Drift(v(n), c) = Drift(u, c)
      OBVIOUS
    <3>1. /\ Begun(v(n)) /\ v(n).blue = u.blue /\ v(n).red = u.red
          /\ v(n).events = u.events
      BY <2>2, SetFactorEffect
    <3> HIDE DEF v
    <3> QED
      BY <3>1, SameDrift
  <2>6. ASSUME NEW n \in 1..3, NEW type \in {"DEMI", "TRIMI"},
               h = AddEvent(v(n), Event(type, isBlue, 0))
        PROVE  Drift(h, c) = Drift(g, c)
    <3> DEFINE e == Event(type, isBlue, 0)
               w == v(n)
    <3>1. Addition(e)
      BY <2>1 DEF Addition, Event, BabyEvent, EventTypes
    <3>2. Worth(e, c) = 0
      BY <2>1, WorthOfEvent
    <3>3. Begun(w) /\ Drift(w, c) = Drift(u, c) /\ h = AddEvent(w, e)
      BY <2>5, <2>6
    <3> HIDE DEF v, w, e, h
    <3>4. Drift(h, c) = Drift(w, c) - Worth(e, c)
      BY <3>1, <3>3, AddEventDrift
    <3> QED
      BY <2>2, <2>3, <3>2, <3>3, <3>4
  <2>7. CASE f = 2
    BY <1>2, <2>6, <2>7 DEF DemiOfLast, u
  <2>8. CASE f = 3
    BY <1>2, <2>6, <2>8 DEF DemiOfLast, u
  <2>9. CASE f = 4
    <3> DEFINE w == v(3)
    <3>1. h = AddEvent(AddScore(w, isBlue, -2), Event("FAULT", isBlue, -2))
      BY <1>2, <2>9 DEF DemiOfLast, u
    <3>2. Begun(w) /\ Drift(w, c) = Drift(u, c)
      BY <2>5
    <3>3. Addition(Event("FAULT", isBlue, -2))
      BY <2>1 DEF Addition, Event, BabyEvent, EventTypes
    <3> HIDE DEF v, w, h, isBlue
    <3>4. Drift(h, c) = Drift(w, c)
      BY <2>1, <3>1, <3>2, <3>3, ScoreThenEvent
    <3> QED
      BY <2>2, <3>2, <3>4 DEF h
  <2> QED
    BY <2>4, <2>7, <2>8, <2>9
<1> QED
  BY <1>1, <1>2

LEMMA EndMessageDrift ==
  ASSUME NEW g, Sound(g), g.endPending, NEW c \in BOOLEAN
  PROVE  Drift(EndMessage(g), c) = Drift(g, c)
<1> DEFINE shown == [g EXCEPT !.endPending = FALSE]
           f == Event("FANNY", FALSE, 0)
           e == Event("FINISH", FALSE, 0)
           fanny == IF g.blue <= 0 \/ g.red <= 0 THEN AddEvent(shown, f) ELSE shown
           last == AddEvent(fanny, e)
           h == [last EXCEPT !.status = "FINISHED", !.enabled = FALSE]
<1>1. Begun(g) /\ g.status = "STARTED" /\ (g.blue = WinScore \/ g.red = WinScore)
  BY DEF Sound, TimerRight, AtWin
<1>2. EndMessage(g) = h
  BY <1>1 DEF EndMessage
<1>3. Begun(shown) /\ shown.blue = g.blue /\ shown.red = g.red /\ shown.events = g.events
  <2>1. /\ shown \in Games /\ shown.events = g.events /\ shown.factor = g.factor
        /\ shown.blue = g.blue /\ shown.red = g.red
    BY <1>1 DEF Begun, Games
  <2> HIDE DEF shown
  <2> QED
    BY <1>1, <2>1 DEF Begun
<1> HIDE DEF shown
<1>4. Drift(shown, c) = Drift(g, c) /\ Drift(g, c) \in Int
  BY <1>1, <1>3, SameDrift, DriftIs
<1>5. /\ Addition(f) /\ Worth(f, c) = 0
      /\ Addition(e) /\ Worth(e, c) = 0
  BY DEF Addition, Event, BabyEvent, EventTypes, Worth
<1> HIDE DEF f, e
<1>6. \A g1 : Begun(g1) /\ Drift(g1, c) \in Int
                => /\ Begun(AddEvent(g1, f)) /\ Drift(AddEvent(g1, f), c) = Drift(g1, c)
                   /\ Begun(AddEvent(g1, e)) /\ Drift(AddEvent(g1, e), c) = Drift(g1, c)
  BY <1>5, AddEventEffect, AddEventDrift
<1>7. Begun(fanny) /\ Drift(fanny, c) = Drift(g, c)
  BY <1>3, <1>4, <1>6
<1> HIDE DEF fanny
<1>8. Begun(last) /\ Drift(last, c) = Drift(g, c)
  BY <1>4, <1>6, <1>7
<1> HIDE DEF last
<1>9. h.blue = last.blue /\ h.red = last.red /\ h.events = last.events
  BY <1>8 DEF Begun, Games
<1> HIDE DEF h
<1> QED
  BY <1>2, <1>8, <1>9, SameDrift

\* The undo of a MORE10 meets no cap: the one it undoes still holds setScore back.
LEMMA More10MeetsNoCap ==
  ASSUME NEW g, Begun(g), Last(g.events).type = "MORE10"
  PROVE  ~UndoMeetsCap(g)
<1> DEFINE last == Last(g.events)
<1>1. /\ g.blue \in Int /\ g.red \in Int
      /\ last.isBlue \in BOOLEAN /\ last.scoreDiff \in Int
  BY LastOfHistory DEF Begun, Games, BabyEvent
<1>2. \A b, r \in Int : SetScore(g, b, r).events = g.events
  <2> SUFFICES ASSUME NEW b \in Int, NEW r \in Int
               PROVE  SetScore(g, b, r).events = g.events
    OBVIOUS
  <2> DEFINE d1 == Excess(b, r)
             d2 == Excess(b - d1, r - d1)
  <2>1. SetsOrCaps(g, b, r, SetScore(g, b, r), d1, d2)
    BY SetScoreCases
  <2> HIDE DEF d1, d2
  <2> QED
    BY <2>1 DEF SetsOrCaps, Capping
<1>3. AddScore(g, last.isBlue, -last.scoreDiff).events = g.events
  BY <1>1, <1>2 DEF AddScore
<1> QED
  BY <1>3 DEF UndoMeetsCap

\* The scores and the history are moved by the same amount in every step, but
\* for those that write one of them alone: onStart, a new game, a new activity,
\* and the undo that meets the cap.
THEOREM AccountsCorrect == Spec => ScoreFollowsHistory
<1> DEFINE Balanced == \A c \in BOOLEAN : Drift(game', c) = Drift(game, c)
           Excepted == \/ Restart \/ ClickNewGame \/ Recreate
                       \/ (ClickUndo \/ FinishSpecial("demi")) /\ UndoMeetsCap(game)
<1>1. IInv /\ Next => Excepted \/ Balanced
  <2> SUFFICES ASSUME IInv, Next, ~Excepted PROVE Balanced
    OBVIOUS
  <2>1. (game.events # <<>> => Sound(game)) /\ Core(game)
    BY DEF IInv, Core
  <2>2. ASSUME game' = game
        PROVE  Balanced
    BY <2>2
  <2>3. ASSUME NEW goal \in Goals, HandleGoal(goal)
        PROVE  Balanced
    <3>1. game' = ScoreGoal(game, goal = "goalBlue")
      BY <2>3 DEF HandleGoal
    <3>2. CASE game.events = <<>>
      <4>1. game' = game
        BY <2>1, <3>1, <3>2, PhaseOf DEF ScoreGoal, Core
      <4> QED
        BY <2>2, <4>1
    <3>3. CASE game.events # <<>>
      BY <2>1, <3>1, <3>3, GoalDrift
    <3> QED
      BY <3>2, <3>3
  <2>4. ASSUME ClickUndo
        PROVE  Balanced
    <3>1. game' = UndoLastGoal(game) /\ game.events # <<>>
      BY <2>4, TakeEffect DEF ClickUndo, GameClicks, IInv, Waiting
    <3>2. Begun(game) /\ ~UndoMeetsCap(game)
      BY <2>1, <2>4, <3>1 DEF Sound
    <3> QED
      BY <3>1, <3>2, UndoDrift
  <2>5. ASSUME NEW button \in Gamelles, ClickGamelle(button)
        PROVE  Balanced
    <3>1. /\ game' = SpecialGoalGamelle(game, button = "gamelleBlue")
          /\ game.events # <<>>
      BY <2>5, TakeEffect DEF ClickGamelle, GameClicks, IInv, Waiting
    <3> QED
      BY <2>1, <3>1, GamelleDrift
  <2>6. ASSUME StripMore10
        PROVE  Balanced
    <3>1. game' = UndoLastGoal(game) /\ game.events # <<>> /\ Last(game.events).type = "MORE10"
      BY <2>6 DEF StripMore10, IInv, Waiting
    <3>2. Begun(game)
      BY <2>1, <3>1 DEF Sound
    <3> QED
      BY <3>1, <3>2, More10MeetsNoCap, UndoDrift
  <2>7. ASSUME FinishSpecial("lob")
        PROVE  Balanced
    <3>1. game' = LobOfLast(game) /\ game.events # <<>>
      BY <2>7 DEF FinishSpecial, IInv, Waiting
    <3> QED
      BY <2>1, <3>1, LobDrift
  <2>8. ASSUME FinishSpecial("demi")
        PROVE  Balanced
    <3>1. game' = DemiOfLast(game) /\ game.events # <<>> /\ ~UndoMeetsCap(game)
      BY <2>8 DEF FinishSpecial, IInv, Waiting
    <3> QED
      BY <2>1, <3>1, DemiDrift
  <2>9. ASSUME EndTimer
        PROVE  Balanced
    <3>1. game.endPending /\ game' = EndMessage(game)
      BY <2>9 DEF EndTimer
    <3>2. Sound(game)
      BY <2>1, <3>1 DEF Core, TimerRight
    <3> QED
      BY <3>1, <3>2, EndMessageDrift
  <2>10. ASSUME \/ \E goal \in Goals : GoalArrives(goal)
                \/ \E button \in GameClicks \cup {"newGame"} : Press(button)
                \/ \E button \in {"lob", "demi"} : ClickSpecial(button)
                \/ Stop
         PROVE  Balanced
    <3>1. game' = game
      BY <2>10 DEF GoalArrives, Press, ClickSpecial, Stop
    <3> QED
      BY <2>2, <3>1
  <2>11. \A button \in {"lob", "demi"} : FinishSpecial(button) => Balanced
    BY <2>7, <2>8
  <2> QED
    BY <2>3, <2>4, <2>5, <2>6, <2>9, <2>10, <2>11 DEF Next, Work
<1>2. IInv /\ [Next]_vars
        => [\/ Restart \/ ClickNewGame \/ Recreate
            \/ (ClickUndo \/ FinishSpecial("demi")) /\ UndoMeetsCap(game)
            \/ \A isBlue \in BOOLEAN : Drift(game', isBlue) = Drift(game, isBlue)]_vars
  BY <1>1
<1> QED
  BY <1>2, SpecInvariant, PTL DEF Spec, ScoreFollowsHistory
-----------------------------------------------------------------------------
\* f is the function of Undone's recursion up to k, which is the only one.
Undoes(f, g, k) == f = [n \in 0..k |-> IF n = 0 THEN g ELSE UndoLastGoal(f[n - 1])]

LEMMA UndoneIs ==
  ASSUME NEW g, NEW k \in Nat, NEW F, Undoes(F, g, k)
  PROVE  \E f : Undoes(f, g, k) /\ Undone(g, k) = f[k]
<1> DEFINE f == CHOOSE f : f = [n \in 0..k |-> IF n = 0 THEN g ELSE UndoLastGoal(f[n - 1])]
<1>1. Undone(g, k) = f[k]
  BY DEF Undone
<1>2. \E h : h = [n \in 0..k |-> IF n = 0 THEN g ELSE UndoLastGoal(h[n - 1])]
  BY DEF Undoes
<1>3. f = [n \in 0..k |-> IF n = 0 THEN g ELSE UndoLastGoal(f[n - 1])]
  BY <1>2
<1> HIDE DEF f
<1> QED
  BY <1>1, <1>3 DEF Undoes

LEMMA UndoneOnce ==
  ASSUME NEW g
  PROVE  Undone(g, 1) = UndoLastGoal(g)
<1> DEFINE F == [n \in 0..1 |-> IF n = 0 THEN g ELSE UndoLastGoal(g)]
<1>1. F[0] = g
  OBVIOUS
<1>2. \A n \in 0..1 : n # 0 => n - 1 = 0
  OBVIOUS
<1>3. F = [n \in 0..1 |-> IF n = 0 THEN g ELSE UndoLastGoal(F[n - 1])]
  BY <1>1, <1>2
<1> HIDE DEF F
<1>4. Undoes(F, g, 1)
  BY <1>3, Zenon DEF Undoes
<1>5. PICK f : Undoes(f, g, 1) /\ Undone(g, 1) = f[1]
  BY <1>4, UndoneIs
<1>6. f[0] = g /\ f[1] = UndoLastGoal(f[0])
  BY <1>5 DEF Undoes
<1> QED
  BY <1>5, <1>6

LEMMA UndoneThrice ==
  ASSUME NEW g, NEW u1, u1 = UndoLastGoal(g), NEW u2, u2 = UndoLastGoal(u1),
         NEW u3, u3 = UndoLastGoal(u2)
  PROVE  Undone(g, 3) = u3
<1> DEFINE F == [n \in 0..3 |-> CASE n = 0 -> g [] n = 1 -> u1 [] n = 2 -> u2 [] OTHER -> u3]
           G == [n \in 0..3 |-> IF n = 0 THEN g ELSE UndoLastGoal(F[n - 1])]
<1>1. F[0] = g /\ F[1] = u1 /\ F[2] = u2 /\ F[3] = u3 /\ DOMAIN F = 0..3
  OBVIOUS
<1>2. F = G
  <2>1. G[0] = g /\ G[1] = UndoLastGoal(F[0]) /\ G[2] = UndoLastGoal(F[1])
        /\ G[3] = UndoLastGoal(F[2]) /\ DOMAIN G = 0..3
    OBVIOUS
  <2>2. F = [n \in 0..3 |-> F[n]] /\ G = [n \in 0..3 |-> G[n]]
    OBVIOUS
  <2> HIDE DEF F, G
  <2>3. \A n \in 0..3 : n = 0 \/ n = 1 \/ n = 2 \/ n = 3
    OBVIOUS
  <2>4. \A n \in 0..3 : F[n] = G[n]
    BY <1>1, <2>1, <2>3
  <2> QED
    BY <2>2, <2>4
<1> HIDE DEF F
<1>3. Undoes(F, g, 3)
  BY <1>2, Zenon DEF Undoes
<1>4. PICK f : Undoes(f, g, 3) /\ Undone(g, 3) = f[3]
  BY <1>3, UndoneIs
<1>5. /\ f[0] = g /\ f[1] = UndoLastGoal(f[0]) /\ f[2] = UndoLastGoal(f[1])
      /\ f[3] = UndoLastGoal(f[2])
  BY <1>4 DEF Undoes
<1> QED
  BY <1>4, <1>5

\* The undo of an event that is a MORE10, or that leaves nobody over the win:
\* the event goes, with its points.
LEMMA UndoOne ==
  ASSUME NEW e, Addition(e), NEW ev, History(ev),
         NEW g, Begun(g), g.events = Append(ev, e),
         NEW b, b = g.blue - (IF e.isBlue THEN e.scoreDiff ELSE 0),
         NEW r, r = g.red - (IF e.isBlue THEN 0 ELSE e.scoreDiff),
         e.type = "MORE10" \/ ~Over(b, r)
  PROVE  LET u == UndoLastGoal(g)
         IN  /\ Begun(u) /\ u.events = ev /\ u.blue = b /\ u.red = r
             /\ u.status = g.status /\ u.enabled = g.enabled
             /\ u.factor = FactorAfter(Last(ev)) /\ TimerRight(u)
<1> DEFINE u == UndoLastGoal(g)
           s == AddScore(g, e.isBlue, -e.scoreDiff)
           d1 == Excess(b, r)
           d2 == Excess(b - d1, r - d1)
<1>1. /\ e \in BabyEvent /\ e.type # "START" /\ e.isBlue \in BOOLEAN /\ e.scoreDiff \in Int
      /\ -e.scoreDiff \in Int /\ ev \in Seq(BabyEvent) /\ g.blue \in Int /\ g.red \in Int
  BY DEF Addition, BabyEvent, History, Begun, Games
<1>2. b \in Int /\ r \in Int
  BY <1>1
<1>3. Last(g.events) = e /\ Front(g.events) = ev
  BY <1>1 DEF Last, Front
<1>4. s = SetScore(g, b, r)
  BY <1>1 DEF AddScore
<1>5. SetsOrCaps(g, b, r, s, d1, d2)
  BY <1>2, <1>4, SetScoreCases
<1>6. Begun(s)
  BY <1>2, <1>4, SetScoreEffect
<1>7. u = [s EXCEPT !.events = Front(s.events), !.factor = FactorAfter(Last(Front(s.events)))]
  BY <1>1, <1>3 DEF UndoLastGoal
<1> HIDE DEF s, d1, d2
<1>8. s.blue = b /\ s.red = r /\ s.events = g.events
  BY <1>3, <1>5 DEF SetsOrCaps, Capping
<1>9. u.blue = s.blue /\ u.red = s.red /\ u.events = Front(s.events)
  BY <1>6, <1>7 DEF Begun, Games
<1>10. /\ Begun(u) /\ u.status = g.status /\ u.enabled = g.enabled
       /\ TimerRight(u) /\ u.factor = FactorAfter(Last(u.events))
  BY <1>1, <1>3, UndoEffect
<1> HIDE DEF u
<1> QED
  BY <1>3, <1>8, <1>9, <1>10 DEF u

\* Two states of the game with the same fields are the same.
LEMMA SameGame ==
  ASSUME NEW g \in Games, NEW h \in Games,
         g.blue = h.blue, g.red = h.red, g.factor = h.factor, g.status = h.status,
         g.events = h.events, g.endPending = h.endPending, g.enabled = h.enabled
  PROVE  g = h
BY DEF Games

\* The goal of a game with nobody over the win adds its event, and the pair of
\* one cap where it takes a team over.
GoalSets(g, h, e, b, r, d) ==
  /\ b \in Int /\ r \in Int /\ d \in Int
  /\ ~Over(b, r) => h.blue = b /\ h.red = r /\ h.events = Append(g.events, e)
  /\ Over(b, r) => /\ h.blue = b - d /\ h.red = r - d
                   /\ h.events = Append(g.events, e) \o More10Pair(d)

LEMMA GoalAdds ==
  ASSUME NEW g, Sound(g), g.status = "STARTED", ~Over(g.blue, g.red), NEW isBlue \in BOOLEAN
  PROVE  LET b == g.blue + (IF isBlue THEN g.factor ELSE 0)
             r == g.red + (IF isBlue THEN 0 ELSE g.factor)
         IN  GoalSets(g, ScoreGoal(g, isBlue), Event("GOAL", isBlue, g.factor),
                      b, r, Excess(b, r))
<1> SUFFICES ASSUME NEW h, h = ScoreGoal(g, isBlue),
                    NEW e, e = Event("GOAL", isBlue, g.factor),
                    NEW b, b = g.blue + (IF isBlue THEN g.factor ELSE 0),
                    NEW r, r = g.red + (IF isBlue THEN 0 ELSE g.factor),
                    NEW d, d = Excess(b, r)
             PROVE  GoalSets(g, h, e, b, r, d)
  OBVIOUS
<1> USE DEF GoalSets
<1> DEFINE f == g.factor
           a == AddEvent(g, e)
           s == AddScore(a, isBlue, f)
           d2 == Excess(b - d, r - d)
<1>1. /\ Begun(g) /\ f \in 1..3 /\ f \in Int /\ g.blue \in Int /\ g.red \in Int
      /\ WinScore \in Int
  BY WinScoreAssumption DEF Sound, Begun, Games
<1>2. b \in Int /\ r \in Int
  BY <1>1
<1>3. d \in Int
  BY <1>1, <1>2 DEF Excess
<1>4. Over(b, r) => ~Over(b - d, r - d)
  <2>1. g.blue <= WinScore /\ g.red <= WinScore
    BY <1>1 DEF Over
  <2>2. b <= WinScore \/ r <= WinScore
    <3>1. isBlue => r = g.red + 0
      OBVIOUS
    <3>2. ~isBlue => b = g.blue + 0
      OBVIOUS
    <3> QED
      BY <1>1, <2>1, <3>1, <3>2
  <2> QED
    BY <1>1, <1>2, <2>2 DEF Over, Excess
<1>5. Addition(e) /\ e.type = "GOAL"
  BY <1>1 DEF Addition, Event, BabyEvent, EventTypes
<1>6. /\ Begun(a) /\ Last(a.events) = e /\ a.events = Append(g.events, e)
      /\ a.blue = g.blue /\ a.red = g.red
  <2>1. a.events = Append(g.events, e)
    BY <1>1 DEF AddEvent, Begun, Games
  <2> HIDE DEF a
  <2> QED
    BY <1>1, <1>5, <2>1, AddEventEffect DEF a
<1> HIDE DEF a
<1>7. s = SetScore(a, b, r)
  <2>1. g.blue + 0 = g.blue /\ g.red + 0 = g.red
    BY <1>1
  <2> QED
    BY <1>6, <2>1, Zenon DEF AddScore
<1>8. SetsOrCaps(a, b, r, s, d, d2) /\ Begun(s)
  BY <1>2, <1>6, <1>7, SetScoreCases, SetScoreEffect
<1>9. h = [s EXCEPT !.factor = 1]
  BY DEF ScoreGoal, a
<1> HIDE DEF s, d2
<1>10. h.blue = s.blue /\ h.red = s.red /\ h.events = s.events
  BY <1>8, <1>9 DEF Begun, Games
<1> QED
  BY <1>2, <1>3, <1>4, <1>5, <1>6, <1>8, <1>10 DEF SetsOrCaps, Capping

\* One goal and an undo for each event it added give the game back, but for the
\* multiplier where the history ends with a MORE10.
LEMMA GoalThenUndos ==
  ASSUME NEW g, Sound(g), g.status = "STARTED", ~Over(g.blue, g.red), NEW isBlue \in BOOLEAN
  PROVE  LET h == ScoreGoal(g, isBlue)
             u == Undone(h, Len(h.events) - Len(g.events))
         IN  \/ u = g
             \/ Last(g.events).type = "MORE10" /\ u = [g EXCEPT !.factor = 1]
<1> DEFINE h == ScoreGoal(g, isBlue)
           f == g.factor
           e == Event("GOAL", isBlue, f)
           b == g.blue + (IF isBlue THEN f ELSE 0)
           r == g.red + (IF isBlue THEN 0 ELSE f)
           d == Excess(b, r)
           ev == g.events
           Back(u) == /\ Begun(u) /\ u.events = ev /\ u.blue = g.blue /\ u.red = g.red
                      /\ u.status = g.status /\ u.enabled = g.enabled
                      /\ u.factor = FactorAfter(Last(ev)) /\ TimerRight(u)
<1>1. /\ Begun(g) /\ g \in Games /\ TimerRight(g) /\ FactorRight(g) /\ History(ev)
      /\ f \in 1..3 /\ f \in Int /\ g.blue \in Int /\ g.red \in Int
  BY DEF Sound, Begun, Games
<1>2. /\ b \in Int /\ r \in Int /\ d \in Int
      /\ ~Over(b, r) => h.blue = b /\ h.red = r /\ h.events = Append(ev, e)
      /\ Over(b, r) => /\ h.blue = b - d /\ h.red = r - d
                       /\ h.events = Append(ev, e) \o More10Pair(d)
  <2>1. GoalSets(g, h, e, b, r, d)
    BY GoalAdds
  <2> HIDE DEF h, e, b, r, d
  <2> QED
    BY <2>1 DEF GoalSets
<1>3. Begun(h) /\ h.status = g.status /\ h.enabled = g.enabled
  BY GoalEffect DEF Sound
<1>4. /\ Addition(e) /\ e.type = "GOAL" /\ e.isBlue = isBlue /\ e.scoreDiff = f
  BY <1>1 DEF Addition, Event, BabyEvent, EventTypes
<1>5. /\ g.blue = b - (IF e.isBlue THEN e.scoreDiff ELSE 0)
      /\ g.red = r - (IF e.isBlue THEN 0 ELSE e.scoreDiff)
  <2>1. CASE isBlue
    <3>1. b = g.blue + f /\ r = g.red + 0
      BY <2>1, Zenon
    <3> HIDE DEF e, b, r
    <3> QED
      BY <1>1, <1>4, <2>1, <3>1
  <2>2. CASE ~isBlue
    <3>1. b = g.blue + 0 /\ r = g.red + f
      BY <2>2, Zenon
    <3> HIDE DEF e, b, r
    <3> QED
      BY <1>1, <1>4, <2>2, <3>1
  <2> QED
    BY <2>1, <2>2
<1>6. ev \in Seq(BabyEvent) /\ e \in BabyEvent /\ Len(ev) \in Nat
  BY <1>1, <1>4 DEF History, Addition
<1> HIDE DEF h, e, b, r, d
\* What is given back is the game.
<1>7. ASSUME NEW u, Back(u)
      PROVE  \/ u = g
             \/ Last(ev).type = "MORE10" /\ u = [g EXCEPT !.factor = 1]
  <2>1. u \in Games /\ u.endPending = g.endPending
    BY <1>1, <1>7 DEF Begun, TimerRight
  <2>2. CASE Last(ev).type # "MORE10"
    <3>1. u.factor = g.factor
      BY <1>1, <1>7, <2>2 DEF FactorRight
    <3> QED
      BY <1>1, <1>7, <2>1, <3>1, SameGame
  <2>3. CASE Last(ev).type = "MORE10"
    <3> DEFINE v == [g EXCEPT !.factor = 1]
    <3>1. u.factor = 1
      BY <1>7, <2>3 DEF FactorAfter
    <3>2. /\ v \in Games /\ v.factor = 1 /\ v.blue = g.blue /\ v.red = g.red
          /\ v.events = g.events /\ v.status = g.status /\ v.enabled = g.enabled
          /\ v.endPending = g.endPending
      BY <1>1 DEF Games
    <3> HIDE DEF v
    <3>3. u = v
      BY <1>7, <2>1, <3>1, <3>2, SameGame
    <3> QED
      BY <2>3, <3>3 DEF v
  <2> QED
    BY <2>2, <2>3
\* The undo of the goal, once what the cap added is undone.
<1>8. ASSUME NEW w, Begun(w), w.events = Append(ev, e), w.blue = b, w.red = r,
             w.status = g.status, w.enabled = g.enabled
      PROVE  Back(UndoLastGoal(w))
  <2> DEFINE x == g.blue
             y == g.red
  <2>1. x = w.blue - (IF e.isBlue THEN e.scoreDiff ELSE 0)
    BY <1>5, <1>8
  <2>2. y = w.red - (IF e.isBlue THEN 0 ELSE e.scoreDiff)
    BY <1>5, <1>8
  <2> QED
    BY <1>1, <1>4, <1>8, <2>1, <2>2, UndoOne
<1>9. CASE ~Over(b, r)
  <2>1. Len(h.events) - Len(ev) = 1
    BY <1>2, <1>6, <1>9
  <2>2. Undone(h, 1) = UndoLastGoal(h)
    BY UndoneOnce
  <2>3. Back(UndoLastGoal(h))
    BY <1>2, <1>3, <1>8, <1>9
  <2> QED
    BY <1>7, <2>1, <2>2, <2>3 DEF h
<1>10. CASE Over(b, r)
  <2> DEFINE m1 == Event("MORE10", TRUE, -d)
             m2 == Event("MORE10", FALSE, -d)
             e0 == Append(ev, e)
             e1 == Append(e0, m1)
             u1 == UndoLastGoal(h)
             u2 == UndoLastGoal(u1)
             u3 == UndoLastGoal(u2)
  <2>1. /\ Addition(m1) /\ m1.type = "MORE10" /\ m1.isBlue = TRUE /\ m1.scoreDiff = -d
        /\ Addition(m2) /\ m2.type = "MORE10" /\ m2.isBlue = FALSE /\ m2.scoreDiff = -d
    BY <1>2 DEF Addition, Event, BabyEvent, EventTypes
  <2>2. h.events = Append(e1, m2) /\ Len(h.events) - Len(ev) = 3
    <3>1. m1 \in BabyEvent /\ m2 \in BabyEvent /\ h.events = e0 \o <<m1, m2>>
      BY <1>2, <1>10, <2>1 DEF More10Pair, Addition
    <3>2. e0 \in Seq(BabyEvent) /\ Len(e0) = Len(ev) + 1
      BY <1>6
    <3> HIDE DEF m1, m2, e0
    <3>3. /\ e0 \o <<m1, m2>> = Append(Append(e0, m1), m2)
          /\ Len(e0 \o <<m1, m2>>) = Len(e0) + 2
      BY <3>1, <3>2
    <3>4. h.events = Append(e1, m2)
      BY <3>1, <3>3, Zenon
    <3>5. Len(h.events) = Len(e0) + 2
      BY <3>1, <3>3, Zenon
    <3> QED
      BY <1>6, <3>2, <3>4, <3>5
  <2>3. History(e0) /\ History(e1)
    <3>1. History(e0)
      BY <1>1, <1>4, AppendHistory
    <3> HIDE DEF e0, m1
    <3> QED
      BY <2>1, <3>1, AppendHistory
  <2> HIDE DEF m1, m2, e0, e1
  <2>4. /\ Begun(u1) /\ u1.events = e1 /\ u1.blue = b - d /\ u1.red = r
        /\ u1.status = g.status /\ u1.enabled = g.enabled
    <3> DEFINE x == b - d
    <3>1. x = h.blue - (IF m2.isBlue THEN m2.scoreDiff ELSE 0)
      BY <1>2, <1>10, <2>1
    <3>2. r = h.red - (IF m2.isBlue THEN 0 ELSE m2.scoreDiff)
      BY <1>2, <1>10, <2>1
    <3> HIDE DEF x
    <3> QED
      BY <1>3, <2>1, <2>2, <2>3, <3>1, <3>2, UndoOne DEF x
  <2> HIDE DEF u1
  <2>5. /\ Begun(u2) /\ u2.events = e0 /\ u2.blue = b /\ u2.red = r
        /\ u2.status = g.status /\ u2.enabled = g.enabled
    <3>1. b = u1.blue - (IF m1.isBlue THEN m1.scoreDiff ELSE 0)
      BY <1>2, <2>1, <2>4
    <3>2. r = u1.red - (IF m1.isBlue THEN 0 ELSE m1.scoreDiff)
      BY <1>2, <2>1, <2>4
    <3>3. u1.events = Append(e0, m1)
      BY <2>4 DEF e1
    <3> QED
      BY <2>1, <2>3, <2>4, <3>1, <3>2, <3>3, UndoOne
  <2> HIDE DEF u2
  <2>6. Back(u3)
    BY <1>8, <2>5 DEF e0
  <2>7. Undone(h, 3) = u3
    BY UndoneThrice DEF u1, u2
  <2> QED
    BY <1>7, <2>2, <2>6, <2>7 DEF h
<1> QED
  BY <1>9, <1>10

\* Undo takes a goal back, in every state of a game with nobody over the win.
THEOREM UndoCorrect == Spec => []UndoRestores
<1>1. IInv => UndoRestores
  <2> SUFFICES ASSUME IInv, NEW isBlue \in BOOLEAN, game.status = "STARTED",
                      ~Over(game.blue, game.red)
               PROVE  LET g == ScoreGoal(game, isBlue)
                          u == Undone(g, Len(g.events) - Len(game.events))
                      IN  \/ u = game
                          \/ Last(game.events).type = "MORE10" /\ u = [game EXCEPT !.factor = 1]
    BY DEF UndoRestores
  <2>1. Sound(game)
    BY DEF IInv, Core
  <2> QED
    BY <2>1, GoalThenUndos
<1> QED
  BY <1>1, SpecInvariant, PTL
=============================================================================
