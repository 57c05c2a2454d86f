----------------------------- MODULE ScoreGame -----------------------------
(***************************************************************************)
(* The scoring screen of the Android application (ScoreActivity.java): the *)
(* two scores, the multiplier the demis build up, the history of the game  *)
(* and the end-of-game timer, driven by the goals the table reports and by *)
(* the buttons of the screen.                                              *)
(*                                                                         *)
(* Everything here runs on the UI thread.  A goal is posted to the         *)
(* activity's Handler; a press of a button is posted by the View and its   *)
(* handler runs later, whatever the state of the button has become.  So    *)
(* both wait in uiQueue, and the timer, the lifecycle callbacks and the    *)
(* posted work interleave between two handlers, never inside one.          *)
(*                                                                         *)
(* The handlers call one another (specialGoalDemi calls undoLastGoal, which*)
(* calls setScore, which calls itself), so each method is an operator from *)
(* the state of the game to the state it leaves, and a handler is the      *)
(* composition its code writes.  The while loop of the special goals is    *)
(* the one thing stepped: running says which handler is inside it.         *)
(***************************************************************************)
EXTENDS SeqFolds, SequencesExt

CONSTANTS WinScore,     \* the 10 of the source: who has it wins
          MaxEvents,    \* bound: nothing that lengthens the history is posted beyond it
          MaxQueue,     \* bound: work waiting for the UI thread
          Slack         \* bound: with a score or an event's points further outside
                        \* 0..WinScore than this, only a new game is accepted

ASSUME WinScoreAssumption == WinScore \in Nat \ {0}

VARIABLES game,         \* the fields of the activity
          uiQueue,      \* goals and clicks posted to the UI thread, oldest first
          running,      \* "idle", or the special goal whose loop is running
          started       \* between onStart and onStop: goals and touches come in

vars == <<game, uiQueue, running, started>>
-----------------------------------------------------------------------------
EventTypes == {"START", "GOAL", "GAMELLE", "DEMI", "TRIMI", "LOB", "FAULT",
               "FANNY", "MORE10", "FINISH"}

BabyEvent == [type : EventTypes, isBlue : BOOLEAN, scoreDiff : Int]

Event(type, isBlue, scoreDiff) ==
  [type |-> type, isBlue |-> isBlue, scoreDiff |-> scoreDiff]

Games == [blue : Int, red : Int,
          factor : Nat,
          status : {"STARTED", "FINISHED"},
          events : Seq(BabyEvent),
          endPending : BOOLEAN,      \* runnableEndMessage is posted and its text shown
          enabled : BOOLEAN]         \* the buttons other than "new game"

\* A fresh activity: onCreate and the first onStart.
FreshGame == [blue |-> 0, red |-> 0, factor |-> 0, status |-> "FINISHED",
              events |-> <<>>, endPending |-> FALSE, enabled |-> FALSE]

Goals      == {"goalBlue", "goalRed"}
Gamelles   == {"gamelleBlue", "gamelleRed"}
GameClicks == {"undo", "lob", "demi"} \cup Gamelles
UiItems    == Goals \cup GameClicks \cup {"newGame"}
-----------------------------------------------------------------------------
AddEvent(g, e) == [g EXCEPT !.events = Append(@, e)]

Over(b, r)   == b > WinScore \/ r > WinScore
Excess(b, r) == IF b > WinScore THEN b - WinScore ELSE r - WinScore
AtWin(b, r)  == b = WinScore \/ r = WinScore

More10Pair(d) == <<Event("MORE10", TRUE, -d), Event("MORE10", FALSE, -d)>>

\* Mutant: setScore without removeCallbacks.
SettleKeepsTimer(g, b, r, more) ==
  [g EXCEPT !.blue = b, !.red = r, !.events = @ \o more,
            !.endPending = @ \/ (g.status = "STARTED" /\ AtWin(b, r))]

\* The tail of setScore: the timer is cancelled, and started again at the win.
Settle(g, b, r, more) ==
  [g EXCEPT !.blue = b, !.red = r, !.events = @ \o more,
            !.endPending = g.status = "STARTED" /\ AtWin(b, r)]

\* setScore.  Its recursion is unrolled: capping one team may leave the other
\* over the win, and nobody is over it after the second cap (TwoCapsSuffice
\* in ScoreGameProofs).  The inner call adds its events first.
SetScore(g, b, r) ==
  LET d1 == Excess(b, r)
      d2 == Excess(b - d1, r - d1)
      caps == Last(g.events).type # "MORE10"
  IN  IF ~Over(b, r) THEN Settle(g, b, r, <<>>)
      ELSE IF g.events = <<>> THEN [g EXCEPT !.blue = b, !.red = r]
      ELSE IF ~caps THEN Settle(g, b, r, <<>>)
      ELSE IF ~Over(b - d1, r - d1) THEN Settle(g, b - d1, r - d1, More10Pair(d1))
      ELSE Settle(g, b - d1 - d2, r - d1 - d2, More10Pair(d2) \o More10Pair(d1))

\* setScore with DONT_CHANGE for the other team.
AddScore(g, isBlue, diff) ==
  IF isBlue THEN SetScore(g, g.blue + diff, g.red)
            ELSE SetScore(g, g.blue, g.red + diff)

\* The multiplier undoLastGoal reads back from the event that is now last.
FactorAfter(e) ==
  CASE e.type = "DEMI"                          -> 2
    [] e.type \in {"TRIMI", "FAULT"}            -> 3
    [] e.type = "GAMELLE" /\ e.scoreDiff < 0    -> -e.scoreDiff
    [] e.type = "GAMELLE" /\ e.scoreDiff >= 0   -> e.scoreDiff
    [] OTHER                                    -> 1

\* Mutant: the event is removed before setScore, which then caps again.
UndoRemovesFirst(g) ==
  LET last == Last(g.events)
      left == [g EXCEPT !.events = Front(@)]
      s    == AddScore(left, last.isBlue, -last.scoreDiff)
  IN  IF last.type = "START" THEN g
      ELSE [s EXCEPT !.factor = FactorAfter(Last(s.events))]

\* Mutant: the multiplier is reset and never read back.
UndoForgetsFactor(g) ==
  LET last == Last(g.events)
      s    == AddScore(g, last.isBlue, -last.scoreDiff)
  IN  IF last.type = "START" THEN g
      ELSE [s EXCEPT !.events = Front(@), !.factor = 1]

\* Mutant: undoing FINISH opens the game again.
UndoReopens(g) ==
  LET last == Last(g.events)
      s    == AddScore(g, last.isBlue, -last.scoreDiff)
      left == Front(s.events)
  IN  IF last.type = "START" THEN g
      ELSE [s EXCEPT !.events = left, !.factor = FactorAfter(Last(left)),
                     !.status = IF last.type = "FINISH" THEN "STARTED" ELSE @]

UndoLastGoal(g) ==
  LET last  == Last(g.events)
      s     == AddScore(g, last.isBlue, -last.scoreDiff)
      left  == Front(s.events)      \* what setScore appended goes first
  IN  IF last.type = "START" THEN g
      ELSE [s EXCEPT !.events = left, !.factor = FactorAfter(Last(left))]

\* Mutant: babyEvents is not cleared.
NewGameKeepsEvents(g) ==
  [SetScore(g, 0, 0) EXCEPT !.factor = 1, !.status = "STARTED", !.enabled = TRUE,
                            !.events = Append(@, Event("START", TRUE, 0))]

StartNewGame(g) ==
  [SetScore(g, 0, 0) EXCEPT !.factor = 1, !.status = "STARTED", !.enabled = TRUE,
                            !.events = <<Event("START", TRUE, 0)>>]

\* Mutant: a goal counts in a finished game.
GoalIgnoresStatus(g, isBlue) ==
  [AddScore(AddEvent(g, Event("GOAL", isBlue, g.factor)), isBlue, g.factor)
     EXCEPT !.factor = 1]

\* Mutant: the score is set before the event is added, as the lob does.
GoalScoresFirst(g, isBlue) ==
  IF g.status = "FINISHED" THEN g
  ELSE [AddEvent(AddScore(g, isBlue, g.factor), Event("GOAL", isBlue, g.factor))
          EXCEPT !.factor = 1]

\* Mutant: the multiplier is not used up by the goal.
GoalKeepsFactor(g, isBlue) ==
  IF g.status = "FINISHED" THEN g
  ELSE AddScore(AddEvent(g, Event("GOAL", isBlue, g.factor)), isBlue, g.factor)

ScoreGoal(g, isBlue) ==
  IF g.status = "FINISHED" THEN g
  ELSE [AddScore(AddEvent(g, Event("GOAL", isBlue, g.factor)), isBlue, g.factor)
          EXCEPT !.factor = 1]

SpecialGoalGamelle(g, isBlue) ==
  AddScore(AddEvent(g, Event("GAMELLE", isBlue, -g.factor)), isBlue, -g.factor)

\* Mutant: the lob's event says what the goal is worth in all.
LobCountsBoth(g) ==
  LET last == Last(g.events)
  IN  IF last.type # "GOAL" THEN g
      ELSE AddEvent(AddScore(g, last.isBlue, last.scoreDiff),
                    Event("LOB", last.isBlue, 2 * last.scoreDiff))

\* What follows the loop of specialGoalLob: the goal counts twice.
LobOfLast(g) ==
  LET last == Last(g.events)
  IN  IF last.type # "GOAL" THEN g
      ELSE AddEvent(AddScore(g, last.isBlue, last.scoreDiff),
                    Event("LOB", last.isBlue, last.scoreDiff))

\* Mutant: past the trimi the multiplier goes on growing.
DemiUnclamped(g) ==
  LET last == Last(g.events)
      u    == UndoLastGoal(g)
      f    == u.factor + 1
      up   == [u EXCEPT !.factor = f]
  IN  IF last.type # "GOAL" THEN g
      ELSE CASE f = 2 -> AddEvent(up, Event("DEMI", last.isBlue, 0))
             [] f = 3 -> AddEvent(up, Event("TRIMI", last.isBlue, 0))
             [] OTHER -> AddEvent(AddScore(up, last.isBlue, -2), Event("FAULT", last.isBlue, -2))

\* What follows the loop of specialGoalDemi: the goal is taken back and the
\* next one is worth more; past the trimi it is a fault.
DemiOfLast(g) ==
  LET last == Last(g.events)
      u    == UndoLastGoal(g)
      f    == u.factor + 1
  IN  IF last.type # "GOAL" THEN g
      ELSE CASE f = 2 -> AddEvent([u EXCEPT !.factor = 2], Event("DEMI", last.isBlue, 0))
             [] f = 3 -> AddEvent([u EXCEPT !.factor = 3], Event("TRIMI", last.isBlue, 0))
             [] f > 3 -> AddEvent(AddScore([u EXCEPT !.factor = 3], last.isBlue, -2),
                                  Event("FAULT", last.isBlue, -2))
             [] OTHER -> [u EXCEPT !.factor = f]

\* runnableEndMessage.
EndMessage(g) ==
  LET shown == [g EXCEPT !.endPending = FALSE]
      fanny == IF g.blue <= 0 \/ g.red <= 0
                 THEN AddEvent(shown, Event("FANNY", FALSE, 0)) ELSE shown
  IN  IF g.blue = WinScore \/ (g.red = WinScore /\ g.status = "STARTED")
        THEN [AddEvent(fanny, Event("FINISH", FALSE, 0))
                EXCEPT !.status = "FINISHED", !.enabled = FALSE]
        ELSE shown
-----------------------------------------------------------------------------
Init == /\ game = FreshGame
        /\ uiQueue = <<>>
        /\ running = "idle"
        /\ started = TRUE

\* The bounds, on what is posted: the handlers themselves are never held back.
InRange == LET diffs == {game.events[i].scoreDiff : i \in DOMAIN game.events}
           IN  {game.blue, game.red} \cup diffs \subseteq -Slack .. WinScore + Slack
Room    == InRange /\ Len(game.events) + Len(uiQueue) < MaxEvents

\* newAccessoryData: the activity is a listener of the service from onStart to onStop.
GoalArrives(goal) ==
  /\ started /\ running = "idle"
  /\ Len(uiQueue) < MaxQueue /\ Room
  /\ uiQueue' = Append(uiQueue, goal)
  /\ UNCHANGED <<game, running, started>>

\* A touch of a button that is enabled now; its handler runs when its turn comes.
Press(button) ==
  /\ started /\ running = "idle"
  /\ Len(uiQueue) < MaxQueue
  /\ button = "newGame" \/ game.enabled
  /\ button = "newGame" \/ (button = "undo" /\ InRange) \/ Room
  /\ uiQueue' = Append(uiQueue, button)
  /\ UNCHANGED <<game, running, started>>

\* The UI thread takes the oldest item, and runs its handler.
Take(item) == /\ running = "idle"
              /\ uiQueue # <<>> /\ Head(uiQueue) = item
              /\ uiQueue' = Tail(uiQueue)
              /\ UNCHANGED started

HandleGoal(goal) == /\ Take(goal)
                    /\ game' = ScoreGoal(game, goal = "goalBlue")
                    /\ UNCHANGED running

ClickNewGame == /\ Take("newGame")
                /\ game' = StartNewGame(game)
                /\ UNCHANGED running

ClickUndo == /\ Take("undo")
             /\ game' = UndoLastGoal(game)
             /\ UNCHANGED running

ClickGamelle(button) == /\ Take(button)
                        /\ game' = SpecialGoalGamelle(game, button = "gamelleBlue")
                        /\ UNCHANGED running

\* The special goals first undo the MORE10 events at the end of the history.
ClickSpecial(button) == /\ Take(button)
                        /\ running' = button
                        /\ UNCHANGED game

StripMore10 == /\ running # "idle"
               /\ Last(game.events).type = "MORE10"
               /\ game' = UndoLastGoal(game)
               /\ UNCHANGED <<uiQueue, running, started>>

FinishSpecial(button) ==
  /\ running = button
  /\ Last(game.events).type # "MORE10"
  /\ game' = IF button = "lob" THEN LobOfLast(game) ELSE DemiOfLast(game)
  /\ running' = "idle"
  /\ UNCHANGED <<uiQueue, started>>

\* Mutant: the end message waits for the screen to be shown.
EndTimerOnScreen == /\ running = "idle" /\ started
                    /\ game.endPending
                    /\ game' = EndMessage(game)
                    /\ UNCHANGED <<uiQueue, running, started>>

\* Ten seconds after setScore posted it; setScore removes it when it is late.
EndTimer == /\ running = "idle"
            /\ game.endPending
            /\ game' = EndMessage(game)
            /\ UNCHANGED <<uiQueue, running, started>>

\* onStop takes the activity off the service's listeners; the timer goes on.
Stop == /\ running = "idle" /\ started
        /\ started' = FALSE
        /\ UNCHANGED <<game, uiQueue, running>>

\* onStart again: both scores are zeroed, the rest of the game is kept.
Restart == /\ running = "idle" /\ ~started
           /\ started' = TRUE
           /\ game' = SetScore(game, 0, 0)
           /\ UNCHANGED <<uiQueue, running>>

\* The activity is destroyed and made anew: the table was unplugged
\* (accessoryDisconnected clears the task), or the screen was turned.
Recreate == /\ running = "idle"
            /\ game' = FreshGame
            /\ uiQueue' = <<>>
            /\ started' = TRUE
            /\ UNCHANGED running

Work == \/ \E goal \in Goals : HandleGoal(goal)
        \/ ClickNewGame
        \/ ClickUndo
        \/ \E button \in Gamelles : ClickGamelle(button)
        \/ \E button \in {"lob", "demi"} : ClickSpecial(button) \/ FinishSpecial(button)
        \/ StripMore10

Next == \/ \E goal \in Goals : GoalArrives(goal)
        \/ \E button \in GameClicks \cup {"newGame"} : Press(button)
        \/ Work
        \/ EndTimer
        \/ Stop
        \/ Restart
        \/ Recreate

\* The score is modified while somebody is at the win, and somebody still is:
\* setScore cancels the end message and posts it for ten seconds later.
Rearm == game.endPending /\ game'.endPending /\ game' # game

\* The Looper takes its messages in the order of their times.  What is posted
\* runs; the delayed message, once due, is not overtaken for ever by what is
\* posted after it, unless it is put off again and again.
Fairness == /\ WF_vars(Work)
            /\ []<><<Rearm>>_vars \/ SF_vars(EndTimer)

Spec == Init /\ [][Next]_vars /\ Fairness
-----------------------------------------------------------------------------
\* Every variable has its type: in particular the multiplier the code keeps
\* in an int is at most 3, and Java's get(size-1) and remove(size-1) always
\* leave a sequence of events.
TypeOK == /\ game \in Games
          /\ game.factor \in 0..3
          /\ uiQueue \in Seq(UiItems)
          /\ running \in {"idle", "lob", "demi"}
          /\ started \in BOOLEAN

\* A history begins with its START event and has no other.  The handlers of the
\* game's buttons read babyEvents.get(size-1) without a test, undoLastGoal once
\* more after removing an event: while such a click is possible, waiting or
\* running there is an event to find, even if the timer closed the game since.
HistoryBegins ==
  /\ game.events # <<>> => game.events[1].type = "START"
  /\ \A i \in 2..Len(game.events) : game.events[i].type # "START"
  /\ (game.enabled \/ running # "idle" \/ \E i \in DOMAIN uiQueue : uiQueue[i] \in GameClicks)
       => game.events # <<>>

\* The end message is posted exactly when a game is on and somebody is at the
\* win: every path through setScore cancels it and posts it again as it should,
\* the nested ones included, and no stale callback outlives a change of score.
EndTimerMatchesScore ==
  game.endPending <=> game.status = "STARTED" /\ AtWin(game.blue, game.red)

\* The multiplier the next goal gets is the one the history shows: the two are
\* kept by different statements (the goal, the demi and the undo), and the undo
\* rebuilds one from the other.  Behind a MORE10 they part: a gamelle that was
\* capped keeps its multiplier, and undoing half of the MORE10 pair makes it 1.
FactorMatchesHistory ==
  game.status = "STARTED" /\ Last(game.events).type # "MORE10"
    => game.factor = FactorAfter(Last(game.events))

\* A goal, a gamelle or a special goal leaves nobody over the win, even one
\* that starts from a capped score whose MORE10 events were undone.  A lob or a
\* demi that finds no goal to change is not one of them.
ScoringCaps ==
  [][(\/ \E goal \in Goals : HandleGoal(goal) /\ game.status = "STARTED"
      \/ \E button \in Gamelles : ClickGamelle(button)
      \/ \E button \in {"lob", "demi"} :
           FinishSpecial(button) /\ Last(game.events).type = "GOAL")
     => ~Over(game'.blue, game'.red)]_vars

\* What the events of a history give one team.
PointsOf(events, isBlue) ==
  Total([i \in DOMAIN events |->
           IF events[i].isBlue = isBlue THEN events[i].scoreDiff ELSE 0])

Drift(g, isBlue) == (IF isBlue THEN g.blue ELSE g.red) - PointsOf(g.events, isBlue)

\* The undo of anything but a MORE10 while somebody is over the win: setScore
\* caps inside undoLastGoal, which then removes the MORE10 and not the event.
UndoMeetsCap(g) ==
  LET last == Last(g.events)
      s    == AddScore(g, last.isBlue, -last.scoreDiff)
  IN  s.events # g.events

\* The score and the history are two accounts of the same game, written by
\* separate statements: every handler moves both by the same amount.  The
\* exceptions are onStart, which zeroes one of them, a new game, which
\* starts both, and the undo that meets the cap.
ScoreFollowsHistory ==
  [][\/ Restart \/ ClickNewGame \/ Recreate
     \/ (ClickUndo \/ FinishSpecial("demi")) /\ UndoMeetsCap(game)
     \/ \A isBlue \in BOOLEAN : Drift(game', isBlue) = Drift(game, isBlue)]_vars

\* A closed game stays as it is: late goals are ignored, the timer does not fire
\* again, and a visit to another screen keeps its history.  Only a new game or
\* a click posted while its button was enabled, which runs after the close and
\* does not look at gameStatus, can change it.
ClosedGameIsSealed ==
  [][(/\ game.status = "FINISHED" /\ game'.status = "FINISHED"
      /\ running = "idle"
      /\ \A i \in DOMAIN uiQueue : uiQueue[i] \notin GameClicks
      /\ ~Recreate)
     => game'.events = game.events /\ ~game'.endPending]_vars

\* A game after k undos.
Undone(g, k) ==
  LET undone[n \in 0..k] == IF n = 0 THEN g ELSE UndoLastGoal(undone[n - 1])
  IN  undone[k]

\* Undo takes a goal back: in any state of a game with nobody over the win, one
\* goal and then one undo for each event it added give back the scores, the
\* history and the timer, and the multiplier unless the history ends with a
\* MORE10 (FactorMatchesHistory).
UndoRestores ==
  \A isBlue \in BOOLEAN :
    LET g == ScoreGoal(game, isBlue)
        u == Undone(g, Len(g.events) - Len(game.events))
    IN  game.status = "STARTED" /\ ~Over(game.blue, game.red)
          => \/ u = game
             \/ Last(game.events).type = "MORE10" /\ u = [game EXCEPT !.factor = 1]

\* Undo removes the last event of the history, as its name says.  (The code does
\* otherwise when the score is over the win: run undo_meets_cap.)
UndoRemovesTheLast ==
  [][ClickUndo /\ Last(game.events).type # "START"
       => game'.events = Front(game.events)]_vars

\* The special goals' loop ends: each round removes an event, and none of the
\* setScore calls it makes adds one.
LoopEnds == running # "idle" ~> running = "idle"

\* Somebody at the win does not keep the game open for ever, whatever screen is
\* shown: once the score is no longer modified the game is closed.
GameCloses == <>[][~Rearm]_vars => (game.endPending ~> ~game.endPending)

\* The life of a game the screen promises, and what stands for it here.
Phase(g) == CASE g.status = "STARTED" /\ g.endPending  -> "closing"
              [] g.status = "STARTED" /\ ~g.endPending -> "playing"
              [] g.status = "FINISHED" /\ g.events = <<>> -> "none"
              [] OTHER -> "over"

Blank(g) == g.events = <<Event("START", TRUE, 0)>>

Lifecycle == INSTANCE GameLifecycle WITH phase <- Phase(game), blank <- Blank(game)

\* The scoring screen implements the life of a game.
ImplementsLifecycle == Lifecycle!Spec
=============================================================================
