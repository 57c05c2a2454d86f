------------------------------ MODULE Firmware ------------------------------
(***************************************************************************)
(* The firmware of the table, babyfoot.cpp, as the simulator runs it: the  *)
(* loop of main.c, the goal sensors that babyfoot.h emulates with the      *)
(* keyboard, and the accessory of SimAccessory.                            *)
(*                                                                         *)
(* The LED is left out: the simulator's digitalWrite is empty, and the     *)
(* command for it changes nothing else.                                    *)
(*                                                                         *)
(* The program is one thread; the keyboard, the bus and the phone move     *)
(* between any two calls it makes into libusb.                             *)
(***************************************************************************)
EXTENDS SimAccessory

CONSTANTS MaxGoals,    \* bound: balls that fall into a goal
          CharRange    \* how many values a char of the message has

ASSUME BoundsAssumption ==
  /\ MaxPlugs \in Nat /\ MaxCommands \in Nat
  /\ Buses \subseteq Seq(Others) /\ <<>> \notin Buses
  /\ MaxGoals \in Nat /\ CharRange \in Nat \ {0}

VARIABLES fw,       \* where the program is, its goal, its global variables
          keys,     \* stdin: what was typed, and all that was ever typed
          history   \* the goals counted and the games begun, in order

fwVars == <<fw, keys, history>>
vars   == <<accVars, fwVars>>
-----------------------------------------------------------------------------
Teams == {"r", "b"}
None  == "none"

\* The calls of the loop the program may be at.  In the first of them it is
\* between two rounds of main.
Places == {"checkGoals", "isConnected", "switchDevice", "reopen", "usbSendGoal",
           "read", "usbSendScoreResp", "crashed", "exited"}

At(place) == fw.pc = place

setup == /\ Init
         /\ fw = [pc |-> "checkGoals", goal |-> None, device |-> Null,
                  score_red |-> 0, score_blue |-> 0]
         /\ keys = [stdin |-> <<>>, typed |-> <<>>]
         /\ history = <<>>

\* Someone types the letter of a goal, and ENTER.
Press(team) == /\ Len(keys.typed) < MaxGoals
               /\ keys' = [typed |-> Append(keys.typed, team),
                           stdin |-> keys.stdin \o <<team, "enter">>]
               /\ UNCHANGED <<accVars, fw, history>>

-----------------------------------------------------------------------------
\* Mutant: the character of the other goal is not put back.
DigitalReadDrops(pin, stdin) ==
  IF stdin = <<>> THEN [low |-> FALSE, rest |-> stdin]
  ELSE [low |-> Head(stdin) = pin, rest |-> Tail(stdin)]

\* Mutant: the character is left in stdin.
DigitalReadPeeks(pin, stdin) ==
  [low |-> stdin # <<>> /\ Head(stdin) = pin,
   rest |-> IF stdin # <<>> /\ Head(stdin) = "enter" THEN Tail(stdin) ELSE stdin]

\* A sensor reads low when its letter is next; the letter of the other is left.
digitalRead(pin, stdin) ==
  IF stdin = <<>> \/ Head(stdin) \in Teams \ {pin}
  THEN [low |-> FALSE, rest |-> stdin]
  ELSE [low |-> Head(stdin) = pin, rest |-> Tail(stdin)]

\* Both sensors are read, and the red one is looked at first.
checkGoals ==
  /\ At("checkGoals")
  /\ LET red  == digitalRead("r", keys.stdin)
         blue == digitalRead("b", red.rest)
         goal == IF red.low THEN "r" ELSE IF blue.low THEN "b" ELSE None
     IN /\ fw' = [fw EXCEPT !.pc = "isConnected", !.goal = goal,
                            !.score_blue = IF goal = "r" THEN @ + 1 ELSE @,
                            !.score_red = IF goal = "b" THEN @ + 1 ELSE @]
        /\ keys' = [keys EXCEPT !.stdin = blue.rest]
        /\ history' = IF goal = None THEN history ELSE Append(history, goal)
  /\ UNCHANGED accVars

Goto(place) == fw' = [fw EXCEPT !.pc = place] /\ UNCHANGED <<keys, history>>

\* The end of loop: its goal is gone.  The second without goals after a goal
\* changes nothing here, as what is typed waits.
EndLoop == [fw EXCEPT !.pc = "checkGoals", !.goal = None, !.device = Null]
Again   == fw' = EndLoop /\ UNCHANGED <<keys, history>>

\* The body of the if of loop begins.
Connected == Goto(IF fw.goal = None THEN "read" ELSE "usbSendGoal")

\* isConnected: nothing to connect to, a device that may be switched, or one in
\* accessory mode.
NotDetected == /\ At("isConnected") /\ ~acc.connected /\ FindsNothing
               /\ Again /\ UNCHANGED accVars

Detect == /\ At("isConnected") /\ ~acc.connected
          /\ FindsPlain \/ Finds("printer")
          /\ fw' = [fw EXCEPT !.pc = "switchDevice",
                              !.device = IF FindsPlain THEN phone.device ELSE Null]
          /\ UNCHANGED <<accVars, keys, history>>

Connect == /\ At("isConnected") /\ ~acc.connected /\ Configure /\ Connected

\* isConnected when it was: an error of the last round disconnects.
StillConnected == /\ At("isConnected") /\ acc.connected /\ ~acc.error
                  /\ Connected /\ UNCHANGED accVars

DropOnError == /\ At("isConnected") /\ acc.connected /\ acc.error
               /\ disconnect /\ Again
               /\ UNCHANGED <<bus, phone, commands, received>>
-----------------------------------------------------------------------------
switchDevice == At("switchDevice") /\ SwitchObeyed(fw.device) /\ Goto("reopen")

NotSwitched == At("switchDevice") /\ SwitchFails /\ Again

\* The second that the phone is given is over: configureAndroid looks again.
Reopen == /\ At("reopen") /\ Configure /\ Connected

LostAfterSwitch == At("reopen") /\ ~FindsAccessory /\ Again /\ UNCHANGED accVars
-----------------------------------------------------------------------------
\* The number of a goal message is the goal's, counted from the first.
Goals(h) == Only(h, Teams)
GoalMsg  == [what |-> "goal", team |-> fw.goal, n |-> Len(Goals(history))]

\* Mutant: a transfer that failed is tried again.
SendGoalUntilDone == /\ At("usbSendGoal") /\ write(GoalMsg)
                     /\ Len(received) < MaxGoals + MaxCommands
                     /\ Goto(IF acc'.error THEN "usbSendGoal" ELSE "read")

usbSendGoal == At("usbSendGoal") /\ write(GoalMsg) /\ Goto("read")

\* Mutant: the scores are put into the message the other way round.
RespSwapped == [what |-> "score", red |-> fw.score_blue % CharRange,
                blue |-> fw.score_red % CharRange, at |-> Len(history)]

ScoreResp == [what |-> "score", red |-> fw.score_red % CharRange,
              blue |-> fw.score_blue % CharRange, at |-> Len(history)]

usbSendScoreResp == At("usbSendScoreResp") /\ write(ScoreResp) /\ Again

\* Nothing was read.
ReadNothing == /\ At("read") /\ acc.usb_handle # Null
               /\ ReadTimesOut \/ ReadFails \/ TransferToNobody
               /\ Again

ReadScoreReq == /\ At("read") /\ ReadCommand /\ Head(commands) = "scoreReq"
                /\ Goto("usbSendScoreResp")

\* Mutant: only one of the scores is reset.
ReadNewGameHalf == /\ At("read") /\ ReadCommand /\ Head(commands) = "newGame"
                   /\ fw' = [EndLoop EXCEPT !.score_blue = 0]
                   /\ history' = Append(history, "newGame")
                   /\ UNCHANGED keys

ReadNewGame == /\ At("read") /\ ReadCommand /\ Head(commands) = "newGame"
               /\ fw' = [EndLoop EXCEPT !.score_red = 0, !.score_blue = 0]
               /\ history' = Append(history, "newGame")
               /\ UNCHANGED keys

\* The write of this round disconnected: read gives libusb a null handle.
ReadCrashes == At("read") /\ acc.usb_handle = Null /\ Goto("crashed") /\ UNCHANGED accVars

\* SIGINT has come in the last round, and main leaves its loop: close.
quit == /\ At("checkGoals")
        /\ IF acc.connected THEN disconnect ELSE UNCHANGED <<acc, open>>
        /\ UNCHANGED <<bus, phone, commands, received>>
        /\ Goto("exited")
-----------------------------------------------------------------------------
loop == \/ checkGoals
        \/ NotDetected \/ Detect \/ Connect \/ StillConnected \/ DropOnError
        \/ switchDevice \/ NotSwitched \/ Reopen \/ LostAfterSwitch
        \/ usbSendGoal
        \/ ReadNothing \/ ReadScoreReq \/ ReadNewGame \/ ReadCrashes
        \/ usbSendScoreResp

Next == \/ loop
        \/ quit
        \/ \E team \in Teams : Press(team)
        \/ BusMoves /\ UNCHANGED fwVars

\* The program runs on, a phone that switches comes back, and one that is asked
\* to switch again and again does once.
Fairness == /\ WF_vars(loop)
            /\ WF_vars(Reenumerate /\ UNCHANGED fwVars)
            /\ SF_vars(switchDevice)

Spec == setup /\ [][Next]_vars /\ Fairness
-----------------------------------------------------------------------------
GoalMsgs  == [what : {"goal"}, team : Teams \cup {None}, n : Nat]
ScoreMsgs == [what : {"score"}, red : 0..(CharRange - 1), blue : 0..(CharRange - 1), at : Nat]

TypeOK ==
  /\ bus \in Seq(Others \cup {"phone"})
  /\ phone \in [mode : {"away", "plain", "switching", "accessory"}, device : 0..(2 * MaxPlugs),
                plugs : 0..MaxPlugs, sent : 0..MaxCommands]
  /\ acc \in [usb_handle : Devices \cup {Null}, connected : BOOLEAN, error : BOOLEAN]
  /\ open \in [Devices -> 0..2]
  /\ commands \in Seq({"scoreReq", "newGame"})
  /\ received \in Seq(GoalMsgs \cup ScoreMsgs)
  /\ fw \in [pc : Places, goal : Teams \cup {None}, device : Devices \cup {Null},
             score_red : 0..MaxGoals, score_blue : 0..MaxGoals]
  /\ keys \in [stdin : Seq(Teams \cup {"enter"}), typed : Seq(Teams)]
  /\ history \in Seq(Teams \cup {"newGame"})

\* Every goal typed as babyfoot.h asks for is counted once, in its order, and
\* none is made up, however the two sensors share the one stdin.
EveryPressCounts ==
  keys.typed = Goals(history) \o Only(keys.stdin, Teams)

\* A phone in accessory mode is open once, in the connection there is; every way
\* out of it (errors, a phone that is gone, the end of the program) closes it.
OneHandle == \A d \in Devices :
  open[d] = IF acc.connected /\ acc.usb_handle = d THEN 1 ELSE 0

\* A SCORE_RESP the phone received gives each team's goals since the last
\* NEW_GAME, as far as a char holds them: the ball in the red goal is blue's.
Since(h) == SubSeq(h, 1 + SelectLastInSeq(h, LAMBDA e : e = "newGame"), Len(h))
Tally(team, h) == Len(Only(Since(h), {team})) % CharRange

ScoreRespIsScore == \A m \in ToSet(received) : m.what = "score" =>
  /\ m.red  = Tally("b", SubSeq(history, 1, m.at))
  /\ m.blue = Tally("r", SubSeq(history, 1, m.at))

\* babyfoot.h says of a GOAL message that <TEAM> is 'r' if the red scored, so
\* with no NEW_GAME the team of a goal on the phone has a score.  (checkGoals
\* counts the ball in the red goal for blue and sends 'r': run goal_team.)
GoalNamesTheScorer == \A m \in ToSet(received) : m.what = "goal" =>
  IF m.team = "r" THEN fw.score_red > 0 ELSE fw.score_blue > 0

\* The goals reach the phone at most once each, and only goals that fell, over
\* any number of connections and whatever a failed transfer did.
ReceivedGoals == Only(received, GoalMsgs)
GoalLink == INSTANCE LossyLink WITH
  sent <- Len(Goals(history)),
  got  <- [i \in DOMAIN ReceivedGoals |-> ReceivedGoals[i].n]
GoalsReachThePhoneOnce == GoalLink!Spec

\* A phone that stays where detectKnownDevice looks is connected again and
\* again, unless the program ends.
Reachable == \/ phone.mode = "switching"
             \/ \E i \in 2..Len(bus) : /\ bus[i] = "phone"
                                       /\ \A j \in (i + 1)..Len(bus) : bus[j] = "hub"
PhoneIsFound == <>[]Reachable => []<>(acc.connected \/ At("crashed") \/ At("exited"))

\* A connection to a phone that is gone is given up, even when the first
\* transfers fail with another error than NO_DEVICE.
GoneIsNoticed ==
  (acc.connected /\ ~Here(acc.usb_handle))
    ~> (~acc.connected \/ At("crashed"))

\* Inside the if of loop "An Android device is connected".
InBlock == fw.pc \in {"usbSendGoal", "read", "usbSendScoreResp"}
BlockIsConnected == InBlock => acc.connected
=============================================================================
