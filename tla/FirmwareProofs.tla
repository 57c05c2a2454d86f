---------------------------- MODULE FirmwareProofs ----------------------------
(***************************************************************************)
(* Proofs about the simulated table, for any number of plugs, goals and    *)
(* commands and any bus: a phone is open once, every goal typed counts,    *)
(* the scores sent are the goals since the game began, and a goal reaches  *)
(* the phone at most once.                                                 *)
(*                                                                         *)
(* The argument for the handle: there is one exactly when there is a       *)
(* connection, a device is configured only while there is none, and the    *)
(* numbers of the devices leave room for the one that comes back switched. *)
(*                                                                         *)
(* The argument for the goals: in stdin an ENTER follows each letter, so   *)
(* the sensor read second never takes a goal that the first one hides; the *)
(* scores count the history since the last new game, which only grows; and *)
(* the goal in the program's hands, until it is written, has a number that *)
(* the phone has not.                                                      *)
(***************************************************************************)
EXTENDS Firmware, SeqFoldsProofs

PhoneOK == phone \in [mode : {"away", "plain", "switching", "accessory"}, device : Nat,
                      plugs : 0..MaxPlugs, sent : Nat]
AccOK   == acc \in [usb_handle : Devices \cup {Null}, connected : BOOLEAN, error : BOOLEAN]
OpenOK  == open \in [Devices -> 0..2]
FwOK    == fw \in [pc : Places, goal : Teams \cup {None}, device : Nat,
                   score_red : Nat, score_blue : Nat]

\* A phone that is yet to be switched has left the number for it.
Numbers == /\ phone.mode \in {"plain", "switching"} => phone.device < 2 * phone.plugs
           /\ phone.device <= 2 * phone.plugs
           /\ OnBus => phone.device > 0

\* There is a handle when there is a connection, and none while a device is
\* looked for.
HandleIsConnection == acc.connected <=> acc.usb_handle # Null
NotYet             == fw.pc \in {"switchDevice", "reopen"} => ~acc.connected

HandleInv == /\ PhoneOK /\ AccOK /\ OpenOK /\ FwOK
             /\ Numbers /\ HandleIsConnection /\ NotYet /\ OneHandle
-----------------------------------------------------------------------------
LEMMA DevicesAreNumbers == Devices \subseteq Nat /\ Null \notin Devices
BY BoundsAssumption DEF Devices, Null

LEMMA InitHandle == setup => HandleInv
<1> SUFFICES ASSUME setup PROVE HandleInv
  OBVIOUS
<1>1. /\ phone = [mode |-> "away", device |-> Null, plugs |-> 0, sent |-> 0]
      /\ acc = [usb_handle |-> Null, connected |-> FALSE, error |-> FALSE]
      /\ open = [d \in Devices |-> 0]
      /\ fw = [pc |-> "checkGoals", goal |-> None, device |-> Null,
               score_red |-> 0, score_blue |-> 0]
  BY DEF setup, Init
<1>2. PhoneOK /\ AccOK /\ OpenOK /\ FwOK
  BY <1>1, BoundsAssumption DEF PhoneOK, AccOK, OpenOK, FwOK, Places, None, Null
<1>3. Numbers /\ HandleIsConnection /\ NotYet /\ OneHandle
  BY <1>1 DEF Numbers, HandleIsConnection, NotYet, OneHandle, OnBus, Null
<1>4. QED
  BY <1>2, <1>3 DEF HandleInv

\* The phone comes and goes, and what is open stays.
LEMMA BusHandle == HandleInv /\ BusMoves /\ UNCHANGED fwVars => HandleInv'
<1> SUFFICES ASSUME HandleInv, BusMoves, UNCHANGED fwVars PROVE HandleInv'
  OBVIOUS
<1>1. UNCHANGED <<acc, open, fw>>
  BY DEF BusMoves, PlugPhone, UnplugPhone, Reenumerate, SendCommand, fwVars
<1>2. AccOK' /\ OpenOK' /\ FwOK' /\ HandleIsConnection' /\ NotYet' /\ OneHandle'
  BY <1>1 DEF HandleInv, AccOK, OpenOK, FwOK, HandleIsConnection, NotYet, OneHandle
<1>3. PhoneOK' /\ Numbers'
  <2>1. CASE PlugPhone
    <3>1. phone.device + 1 \in Nat /\ phone.plugs + 1 \in 0..MaxPlugs
      BY <2>1, BoundsAssumption DEF HandleInv, PlugPhone, PhoneOK
    <3>2. phone' = [mode |-> "plain", device |-> phone.device + 1,
                    plugs |-> phone.plugs + 1, sent |-> phone.sent]
      BY <2>1 DEF HandleInv, PlugPhone, PhoneOK
    <3>3. PhoneOK'
      BY <3>1, <3>2 DEF HandleInv, PhoneOK
    <3>4. phone.device <= 2 * phone.plugs
      BY DEF HandleInv, Numbers
    <3>5. Numbers'
      BY <3>1, <3>2, <3>4 DEF HandleInv, PhoneOK, Numbers, OnBus
    <3>6. QED
      BY <3>3, <3>5
  <2>2. CASE UnplugPhone
    BY <2>2, BoundsAssumption DEF HandleInv, UnplugPhone, PhoneOK, Numbers, OnBus
  <2>3. CASE Reenumerate
    <3>1. phone.device + 1 \in Nat /\ phone.device < 2 * phone.plugs
      BY <2>3 DEF HandleInv, Reenumerate, PhoneOK, Numbers
    <3>2. phone' = [mode |-> "accessory", device |-> phone.device + 1,
                    plugs |-> phone.plugs, sent |-> phone.sent]
      BY <2>3 DEF HandleInv, Reenumerate, PhoneOK
    <3>3. PhoneOK'
      BY <3>1, <3>2 DEF HandleInv, PhoneOK
    <3>4. phone.device \in Nat /\ phone.plugs \in Nat
      BY BoundsAssumption DEF HandleInv, PhoneOK
    <3>5. Numbers'
      BY <3>1, <3>2, <3>4 DEF Numbers, OnBus
    <3>6. QED
      BY <3>3, <3>5
  <2>4. CASE \E c \in {"scoreReq", "newGame"} : SendCommand(c)
    BY <2>4, BoundsAssumption DEF HandleInv, SendCommand, PhoneOK, Numbers, OnBus
  <2>5. QED
    BY <2>1, <2>2, <2>3, <2>4 DEF BusMoves
<1>4. QED
  BY <1>2, <1>3 DEF HandleInv

\* What the calls of the class do to the handle.
LEMMA ConfigureHandle ==
  ASSUME HandleInv, Configure, ~acc.connected
  PROVE  AccOK' /\ OpenOK' /\ HandleIsConnection' /\ OneHandle' /\ phone' = phone
<1> DEFINE d == phone.device
<1>1. phone.mode = "accessory" /\ d \in Devices /\ d # Null
  BY BoundsAssumption DEF Configure, FindsAccessory, HandleInv, PhoneOK, Numbers, OnBus,
     Devices, Null
<1>2. /\ acc'.usb_handle = d /\ acc'.connected = TRUE /\ AccOK'
      /\ open' = [open EXCEPT ![d] = OneMore(@)] /\ phone' = phone
  BY <1>1 DEF Configure, HandleInv, AccOK
<1> HIDE DEF d
<1>3. \A e \in Devices : open[e] = 0
  BY DEF HandleInv, OneHandle
<1>4. OpenOK' /\ \A e \in Devices : open'[e] = IF e = d THEN 1 ELSE 0
  BY <1>1, <1>2, <1>3 DEF HandleInv, OpenOK, OneMore
<1>5. HandleIsConnection' /\ OneHandle'
  BY <1>1, <1>2, <1>4 DEF HandleIsConnection, OneHandle
<1>6. QED
  BY <1>2, <1>4, <1>5

LEMMA DisconnectHandle ==
  ASSUME HandleInv, disconnect
  PROVE  AccOK' /\ OpenOK' /\ HandleIsConnection' /\ OneHandle' /\ ~acc'.connected
<1>1. AccOK' /\ HandleIsConnection' /\ ~acc'.connected
  BY DEF disconnect, AccOK, HandleIsConnection
<1>2. OpenOK' /\ \A d \in Devices : open'[d] = 0
  <2>1. CASE acc.usb_handle = Null
    BY <2>1 DEF disconnect, HandleInv, OpenOK, OneHandle, HandleIsConnection
  <2>2. CASE acc.usb_handle # Null
    BY <2>2 DEF disconnect, HandleInv, AccOK, OpenOK, OneHandle, HandleIsConnection
  <2>3. QED
    BY <2>1, <2>2
<1>3. QED
  BY <1>1, <1>2 DEF OneHandle

\* A call that at most notes an error.
LEMMA ErrorHandle ==
  ASSUME HandleInv, UNCHANGED open,
         acc' = acc \/ \E failed \in BOOLEAN : acc' = [acc EXCEPT !.error = failed]
  PROVE  /\ AccOK' /\ OpenOK' /\ HandleIsConnection' /\ OneHandle'
         /\ acc'.connected = acc.connected
<1>1. /\ AccOK' /\ acc'.connected = acc.connected
      /\ acc'.usb_handle = acc.usb_handle
  BY DEF HandleInv, AccOK
<1>2. QED
  BY <1>1 DEF HandleInv, OpenOK, HandleIsConnection, OneHandle

LEMMA NobodyHandle ==
  ASSUME HandleInv, TransferToNobody
  PROVE  /\ AccOK' /\ OpenOK' /\ HandleIsConnection' /\ OneHandle' /\ phone' = phone
BY DisconnectHandle, ErrorHandle DEF TransferToNobody

LEMMA WriteHandle ==
  ASSUME HandleInv, NEW m, write(m)
  PROVE  /\ AccOK' /\ OpenOK' /\ HandleIsConnection' /\ OneHandle' /\ phone' = phone
BY NobodyHandle, ErrorHandle DEF write, WriteArrives, WriteFails
-----------------------------------------------------------------------------
\* The parts that a step of the program may change.
LEMMA Step ==
  ASSUME HandleInv, PhoneOK', Numbers', AccOK', OpenOK', HandleIsConnection', OneHandle',
         FwOK', NotYet'
  PROVE  HandleInv'
BY DEF HandleInv

LEMMA PhoneStays ==
  ASSUME HandleInv, phone' = phone \/ phone' = [phone EXCEPT !.mode = "switching"],
         phone' # phone => phone.mode = "plain"
  PROVE  PhoneOK' /\ Numbers'
BY DEF HandleInv, PhoneOK, Numbers, OnBus

LEMMA GotoFw ==
  ASSUME HandleInv, NEW place \in Places, Goto(place)
  PROVE  FwOK' /\ fw'.pc = place
BY DEF HandleInv, FwOK, Goto

LEMMA AgainFw ==
  ASSUME HandleInv, Again
  PROVE  FwOK' /\ fw'.pc = "checkGoals"
BY DEF HandleInv, FwOK, Again, EndLoop, Places, None, Null

LEMMA ConnectedFw ==
  ASSUME HandleInv, Connected
  PROVE  FwOK' /\ fw'.pc \in {"read", "usbSendGoal"}
BY GotoFw DEF Connected, Places

\* The program goes round its loop.
LEMMA LoopHandle == HandleInv /\ loop => HandleInv'
<1> SUFFICES ASSUME HandleInv, loop PROVE HandleInv'
  OBVIOUS
<1>1. ASSUME UNCHANGED <<phone, acc, open>>
      PROVE  PhoneOK' /\ Numbers' /\ AccOK' /\ OpenOK' /\ HandleIsConnection' /\ OneHandle'
  BY <1>1 DEF HandleInv, PhoneOK, Numbers, OnBus, AccOK, OpenOK, HandleIsConnection, OneHandle
<1>2. CASE checkGoals
  <2>1. UNCHANGED <<phone, acc, open>>
    BY <1>2 DEF checkGoals, accVars
  <2>2. FwOK' /\ fw'.pc = "isConnected"
    <3>1. PICK goal \in Teams \cup {None} :
            fw' = [fw EXCEPT !.pc = "isConnected", !.goal = goal,
                             !.score_blue = IF goal = "r" THEN @ + 1 ELSE @,
                             !.score_red = IF goal = "b" THEN @ + 1 ELSE @]
      BY <1>2 DEF checkGoals, Teams
    <3> DEFINE red == IF goal = "b" THEN fw.score_red + 1 ELSE fw.score_red
               blue == IF goal = "r" THEN fw.score_blue + 1 ELSE fw.score_blue
    <3>2. red \in Nat /\ blue \in Nat
      BY DEF HandleInv, FwOK
    <3>3. fw' = [pc |-> "isConnected", goal |-> goal, device |-> fw.device,
                 score_red |-> red, score_blue |-> blue]
      BY <3>1 DEF HandleInv, FwOK
    <3> HIDE DEF red, blue
    <3>4. QED
      BY <3>2, <3>3 DEF HandleInv, FwOK, Places
  <2>3. QED
    BY <1>1, <2>1, <2>2, Step DEF NotYet
<1>3. CASE NotDetected \/ LostAfterSwitch
  BY <1>1, <1>3, AgainFw, Step DEF NotDetected, LostAfterSwitch, accVars, NotYet
<1>4. CASE Detect
  <2>1. UNCHANGED <<phone, acc, open>> /\ ~acc.connected
    BY <1>4 DEF Detect, accVars
  <2>2. FwOK'
    BY <1>4 DEF Detect, HandleInv, FwOK, PhoneOK, Places, Null
  <2>3. QED
    BY <1>1, <2>1, <2>2, Step DEF NotYet
<1>5. CASE Connect
  BY <1>5, ConfigureHandle, ConnectedFw, PhoneStays, Step DEF Connect, NotYet
<1>6. CASE StillConnected
  BY <1>1, <1>6, ConnectedFw, Step DEF StillConnected, accVars, NotYet
<1>7. CASE DropOnError
  BY <1>7, DisconnectHandle, AgainFw, PhoneStays, Step DEF DropOnError, NotYet
<1>8. CASE switchDevice
  <2>1. ~acc.connected
    BY <1>8 DEF switchDevice, At, HandleInv, NotYet
  <2>2. PhoneOK' /\ Numbers'
    BY <1>8, PhoneStays DEF switchDevice, SwitchObeyed
  <2>3. /\ AccOK' /\ OpenOK' /\ HandleIsConnection' /\ OneHandle'
        /\ acc'.connected = acc.connected
    BY <1>8, ErrorHandle DEF switchDevice, SwitchObeyed, HandleInv, AccOK
  <2>4. FwOK'
    BY <1>8, GotoFw DEF switchDevice, Places
  <2>5. QED
    BY <2>1, <2>2, <2>3, <2>4, Step DEF NotYet
<1>9. CASE NotSwitched
  <2>1. PhoneOK' /\ Numbers'
    BY <1>9, PhoneStays DEF NotSwitched, SwitchFails
  <2>2. AccOK' /\ OpenOK' /\ HandleIsConnection' /\ OneHandle'
    BY <1>9, ErrorHandle DEF NotSwitched, SwitchFails, HandleInv, AccOK
  <2>3. QED
    BY <1>9, <2>1, <2>2, AgainFw, Step DEF NotSwitched, NotYet
<1>10. CASE Reopen
  <2>1. ~acc.connected
    BY <1>10 DEF Reopen, At, HandleInv, NotYet
  <2>2. QED
    BY <1>10, <2>1, ConfigureHandle, ConnectedFw, PhoneStays, Step DEF Reopen, NotYet
<1>11. CASE usbSendGoal
  BY <1>11, WriteHandle, GotoFw, PhoneStays, Step DEF usbSendGoal, Places, NotYet
<1>12. CASE ReadNothing
  <2>1. AccOK' /\ OpenOK' /\ HandleIsConnection' /\ OneHandle' /\ phone' = phone
    BY <1>12, NobodyHandle, ErrorHandle DEF ReadNothing, ReadTimesOut, ReadFails
  <2>2. QED
    BY <1>12, <2>1, AgainFw, PhoneStays, Step DEF ReadNothing, NotYet
<1>13. ASSUME ReadCommand
       PROVE  AccOK' /\ OpenOK' /\ HandleIsConnection' /\ OneHandle' /\ PhoneOK' /\ Numbers'
  BY <1>13, ErrorHandle, PhoneStays DEF ReadCommand
<1>14. CASE ReadScoreReq
  BY <1>13, <1>14, GotoFw, Step DEF ReadScoreReq, Places, NotYet
<1>15. CASE ReadNewGame
  <2>1. FwOK' /\ fw'.pc = "checkGoals"
    BY <1>15 DEF ReadNewGame, EndLoop, HandleInv, FwOK, Places, None, Null
  <2>2. QED
    BY <1>13, <1>15, <2>1, Step DEF ReadNewGame, NotYet
<1>16. CASE ReadCrashes
  BY <1>1, <1>16, GotoFw, Step DEF ReadCrashes, accVars, Places, NotYet
<1>17. CASE usbSendScoreResp
  BY <1>17, WriteHandle, AgainFw, PhoneStays, Step DEF usbSendScoreResp, NotYet
<1>18. QED
  BY <1>2, <1>3, <1>4, <1>5, <1>6, <1>7, <1>8, <1>9, <1>10, <1>11, <1>12, <1>14, <1>15,
     <1>16, <1>17 DEF loop

\* The program ends: main calls close.
LEMMA QuitHandle == HandleInv /\ quit => HandleInv'
<1> SUFFICES ASSUME HandleInv, quit PROVE HandleInv'
  OBVIOUS
<1>1. AccOK' /\ OpenOK' /\ HandleIsConnection' /\ OneHandle'
  <2>1. CASE acc.connected
    BY <2>1, DisconnectHandle DEF quit
  <2>2. CASE ~acc.connected
    BY <2>2, ErrorHandle DEF quit
  <2>3. QED
    BY <2>1, <2>2
<1>2. PhoneOK' /\ Numbers' /\ FwOK' /\ NotYet'
  BY PhoneStays, GotoFw DEF quit, Places, NotYet
<1>3. QED
  BY <1>1, <1>2, Step

LEMMA HandleSteps == HandleInv /\ [Next]_vars => HandleInv'
<1>1. ASSUME HandleInv, UNCHANGED <<phone, acc, open, fw>> PROVE HandleInv'
  BY <1>1 DEF HandleInv, PhoneOK, AccOK, OpenOK, FwOK, Numbers, OnBus,
     HandleIsConnection, NotYet, OneHandle
<1>2. ASSUME HandleInv, NEW team \in Teams, Press(team) PROVE HandleInv'
  BY <1>1, <1>2 DEF Press, accVars
<1>3. ASSUME HandleInv, UNCHANGED vars PROVE HandleInv'
  BY <1>1, <1>3 DEF vars, accVars, fwVars
<1>4. QED
  BY <1>2, <1>3, BusHandle, LoopHandle, QuitHandle DEF Next
-----------------------------------------------------------------------------
LEMMA MaxOf ==
  ASSUME NEW n \in Nat, NEW S \in SUBSET (1..n), S # {}
  PROVE  Max(S) \in S /\ \A y \in S : Max(S) >= y
<1> DEFINE T == {m \in Nat : \A R \in SUBSET (1..m) :
                               R # {} => \E x \in R : \A y \in R : x >= y}
<1>1. 0 \in T
  <2>1. 1..0 = {}
    OBVIOUS
  <2> QED
    BY <2>1
<1>2. ASSUME NEW m \in T PROVE m + 1 \in T
  <2> SUFFICES ASSUME NEW R \in SUBSET (1..(m + 1)), R # {}
               PROVE  \E x \in R : \A y \in R : x >= y
    OBVIOUS
  <2>1. CASE m + 1 \in R
    BY <2>1
  <2>2. CASE m + 1 \notin R
    <3>1. m \in Nat /\ R \in SUBSET (1..m)
      BY <2>2
    <3> QED
      BY <3>1
  <2> QED
    BY <2>1, <2>2
<1> HIDE DEF T
<1>3. T = Nat
  <2>1. T \in SUBSET Nat
    BY DEF T
  <2> QED
    BY <1>1, <1>2, <2>1, NatInduct
<1>4. \E x \in S : \A y \in S : x >= y
  BY <1>3 DEF T
<1> QED
  BY <1>4 DEF Max

\* The last game that the history begins.
LastNewGame(h) == SelectLastInSeq(h, LAMBDA e : e = "newGame")

LEMMA LastNewGameIs ==
  ASSUME NEW X, NEW h \in Seq(X)
  PROVE  /\ LastNewGame(h) \in 0..Len(h)
         /\ LastNewGame(h) # 0 => h[LastNewGame(h)] = "newGame"
         /\ \A i \in 1..Len(h) : h[i] = "newGame" => i <= LastNewGame(h)
<1> DEFINE I == {i \in 1..Len(h) : h[i] = "newGame"}
<1>1. LastNewGame(h) = IF I # {} THEN Max(I) ELSE 0
  BY DEF LastNewGame, SelectLastInSeq
<1>2. Len(h) \in Nat /\ I \in SUBSET (1..Len(h))
  OBVIOUS
<1>3. I # {} => Max(I) \in I /\ \A y \in I : Max(I) >= y
  <2> HIDE DEF I
  <2> QED
    BY <1>2, MaxOf
<1> QED
  BY <1>1, <1>2, <1>3

LEMMA SinceIs ==
  ASSUME NEW h
  PROVE  Since(h) = SubSeq(h, 1 + LastNewGame(h), Len(h))
BY DEF Since, LastNewGame

\* A goal is one more since the last game began; a new game starts from none.
LEMMA SinceAppend ==
  ASSUME NEW X, NEW e \in X, NEW h \in Seq(X)
  PROVE  Since(Append(h, e)) = IF e = "newGame" THEN <<>> ELSE Append(Since(h), e)
<1> DEFINE t == Append(h, e)
           k == LastNewGame(h)
           l == LastNewGame(t)
<1>1. /\ t \in Seq(X) /\ Len(t) = Len(h) + 1 /\ t[Len(t)] = e /\ Len(h) \in Nat
      /\ \A i \in 1..Len(h) : t[i] = h[i]
  OBVIOUS
<1>2. /\ k \in 0..Len(h)
      /\ k # 0 => h[k] = "newGame"
      /\ \A i \in 1..Len(h) : h[i] = "newGame" => i <= k
  BY LastNewGameIs
<1>t. t = Append(h, e)
  OBVIOUS
<1> HIDE DEF t
<1>3. /\ l \in 0..Len(t)
      /\ l # 0 => t[l] = "newGame"
      /\ \A i \in 1..Len(t) : t[i] = "newGame" => i <= l
  BY <1>1, LastNewGameIs
<1>4. Since(t) = SubSeq(t, 1 + l, Len(t)) /\ Since(h) = SubSeq(h, 1 + k, Len(h))
  BY SinceIs
<1> HIDE DEF k, l
<1>5. CASE e = "newGame"
  <2>1. l = Len(t)
    BY <1>1, <1>3, <1>5
  <2>2. SubSeq(t, 1 + l, Len(t)) = <<>>
    BY <1>1, <2>1
  <2> QED
    BY <1>4, <1>5, <1>t, <2>2
<1>6. CASE e # "newGame"
  <2>1. l = k
    BY <1>1, <1>2, <1>3, <1>6
  <2>2. SubSeq(t, 1 + k, Len(t)) = Append(SubSeq(h, 1 + k, Len(h)), e)
    BY <1>1, <1>2, <1>t, AppendAfter
  <2> QED
    BY <1>4, <1>6, <1>t, <2>1, <2>2
<1> QED
  BY <1>5, <1>6

\* No team has more goals since then than there are goals.
LEMMA SinceGoals ==
  ASSUME NEW X, NEW h \in Seq(X), NEW team \in Teams
  PROVE  /\ Since(h) \in Seq(X)
         /\ Len(Only(Since(h), {team})) \in 0..Len(Goals(h))
<1> DEFINE k == LastNewGame(h)
           a == SubSeq(h, 1, k)
           b == SubSeq(h, 1 + k, Len(h))
<1>1. k \in 0..Len(h)
  BY LastNewGameIs
<1>2. Since(h) = b
  BY SinceIs
<1> HIDE DEF k
<1>3. a \in Seq(X) /\ b \in Seq(X) /\ h = a \o b
  BY <1>1, SplitAt
<1> HIDE DEF a, b
<1>4. Goals(h) = Only(a, Teams) \o Only(b, Teams)
  BY <1>3, OnlyConcat DEF Goals
<1>5. /\ Only(a, Teams) \in Seq(X) /\ Only(b, Teams) \in Seq(X)
      /\ Only(b, {team}) \in Seq(X)
  BY <1>3, OnlySeq
<1>6. Len(Only(b, {team})) <= Len(Only(b, Teams))
  BY <1>3, OnlyFewer
<1> QED
  BY <1>2, <1>3, <1>4, <1>5, <1>6
-----------------------------------------------------------------------------
\* What the program counts, and what the phone has of it.
Kinds   == Others \cup {"phone"}
Letters == Teams \cup {"enter"}
Events  == Teams \cup {"newGame"}
Pending == {"isConnected", "switchDevice", "reopen", "usbSendGoal"}

BusInv == /\ bus \in Seq(Kinds) /\ commands \in Seq({"scoreReq", "newGame"})
          /\ phone.sent <= MaxCommands /\ fw.device <= 2 * MaxPlugs

ListsOK == /\ history \in Seq(Events)
           /\ keys \in [stdin : Seq(Letters), typed : Seq(Teams)]
           /\ received \in Seq(GoalMsgs \cup ScoreMsgs)

\* The sensor read second would take the goal after the one the first has seen,
\* were there no ENTER between them.
EnterFollows(stdin) == \A i \in 1..Len(stdin) :
  stdin[i] \in Teams => i + 1 \in 1..Len(stdin) /\ stdin[i + 1] = "enter"

PressInv == /\ Len(keys.typed) <= MaxGoals
            /\ EnterFollows(keys.stdin)
            /\ EveryPressCounts

ScoreInv == /\ fw.score_red = Len(Only(Since(history), {"b"}))
            /\ fw.score_blue = Len(Only(Since(history), {"r"}))

RespInv == \A m \in ToSet(received) : m.what = "score" =>
  /\ m.at <= Len(history)
  /\ m.red  = Tally("b", SubSeq(history, 1, m.at))
  /\ m.blue = Tally("r", SubSeq(history, 1, m.at))

\* The phone has goals that fell, and the one in the program's hands it has not.
Fell == Len(Goals(history))

GoalsInv ==
  /\ \A i \in 1..Len(ReceivedGoals) : ReceivedGoals[i].n \in 1..Fell
  /\ At("usbSendGoal") => fw.goal # None
  /\ fw.goal # None /\ fw.pc \in Pending =>
       Fell > 0 /\ \A i \in 1..Len(ReceivedGoals) : ReceivedGoals[i].n # Fell

CountInv == BusInv /\ ListsOK /\ PressInv /\ ScoreInv /\ RespInv /\ GoalsInv
-----------------------------------------------------------------------------
\* A sensor takes at most one letter, its own.
LEMMA DigitalReadTakes ==
  ASSUME NEW pin \in Teams, NEW stdin \in Seq(Letters), EnterFollows(stdin)
  PROVE  LET r == digitalRead(pin, stdin)
         IN  /\ r.rest \in Seq(Letters) /\ EnterFollows(r.rest) /\ r.low \in BOOLEAN
             /\ Only(stdin, Teams) = IF r.low THEN <<pin>> \o Only(r.rest, Teams)
                                     ELSE Only(r.rest, Teams)
             /\ r.low => r.rest # <<>> /\ Head(r.rest) = "enter"
<1> DEFINE r == digitalRead(pin, stdin)
<1>1. CASE stdin = <<>> \/ Head(stdin) \in Teams \ {pin}
  <2>1. r.low = FALSE /\ r.rest = stdin
    BY <1>1 DEF digitalRead
  <2> HIDE DEF r
  <2> QED
    BY <2>1 DEF r
<1>2. CASE ~(stdin = <<>> \/ Head(stdin) \in Teams \ {pin})
  <2> DEFINE t == Tail(stdin)
  <2>1. r.low = (Head(stdin) = pin) /\ r.rest = t
    BY <1>2 DEF digitalRead
  <2>2. /\ stdin # <<>> /\ Head(stdin) \in {pin, "enter"} /\ Head(stdin) = stdin[1]
        /\ t \in Seq(Letters) /\ Len(t) = Len(stdin) - 1 /\ Len(stdin) \in Nat \ {0}
        /\ \A i \in 1..Len(t) : t[i] = stdin[i + 1]
    BY <1>2 DEF Letters
  <2>3. Only(stdin, Teams) = IF Head(stdin) \in Teams THEN <<Head(stdin)>> \o Only(t, Teams)
                             ELSE Only(t, Teams)
    BY <2>2, OnlyTail
  <2>h. t # <<>> => Head(t) = t[1]
    BY <2>2
  <2> HIDE DEF t
  <2>4. EnterFollows(t)
    BY <2>2 DEF EnterFollows
  <2>5. Head(stdin) = pin => t # <<>> /\ Head(t) = "enter"
    <3>1. Head(stdin) = pin => 2 \in 1..Len(stdin) /\ stdin[2] = "enter"
      BY <2>2 DEF EnterFollows
    <3> QED
      BY <2>2, <2>h, <3>1
  <2> HIDE DEF r
  <2>6. "enter" \notin Teams
    BY DEF Teams
  <2> QED
    BY <2>1, <2>2, <2>3, <2>4, <2>5, <2>6 DEF r
<1> QED
  BY <1>1, <1>2

\* checkGoals counts the next goal, or none.
LEMMA CheckGoalsTakes ==
  ASSUME HandleInv, CountInv, checkGoals
  PROVE  \E goal \in Teams \cup {None}, rest \in Seq(Letters) :
           /\ fw' = [fw EXCEPT !.pc = "isConnected", !.goal = goal,
                               !.score_blue = IF goal = "r" THEN @ + 1 ELSE @,
                               !.score_red = IF goal = "b" THEN @ + 1 ELSE @]
           /\ keys' = [keys EXCEPT !.stdin = rest]
           /\ history' = IF goal = None THEN history ELSE Append(history, goal)
           /\ EnterFollows(rest)
           /\ Only(keys.stdin, Teams) = IF goal = None THEN Only(rest, Teams)
                                        ELSE <<goal>> \o Only(rest, Teams)
<1> DEFINE stdin == keys.stdin
           red  == digitalRead("r", stdin)
           blue == digitalRead("b", red.rest)
           goal == IF red.low THEN "r" ELSE IF blue.low THEN "b" ELSE None
<1>1. stdin \in Seq(Letters) /\ EnterFollows(stdin) /\ "r" \in Teams /\ "b" \in Teams
  BY DEF CountInv, ListsOK, PressInv, Teams
<1>2. /\ fw' = [fw EXCEPT !.pc = "isConnected", !.goal = goal,
                          !.score_blue = IF goal = "r" THEN @ + 1 ELSE @,
                          !.score_red = IF goal = "b" THEN @ + 1 ELSE @]
      /\ keys' = [keys EXCEPT !.stdin = blue.rest]
      /\ history' = IF goal = None THEN history ELSE Append(history, goal)
  BY DEF checkGoals
<1>s. keys.stdin = stdin
  OBVIOUS
<1> HIDE DEF stdin
<1>3. /\ red.rest \in Seq(Letters) /\ EnterFollows(red.rest) /\ red.low \in BOOLEAN
      /\ Only(stdin, Teams) = IF red.low THEN <<"r">> \o Only(red.rest, Teams)
                              ELSE Only(red.rest, Teams)
      /\ red.low => red.rest # <<>> /\ Head(red.rest) = "enter"
  BY <1>1, DigitalReadTakes
<1>4. /\ blue.rest \in Seq(Letters) /\ EnterFollows(blue.rest) /\ blue.low \in BOOLEAN
      /\ Only(red.rest, Teams) = IF blue.low THEN <<"b">> \o Only(blue.rest, Teams)
                                 ELSE Only(blue.rest, Teams)
  <2> HIDE DEF red
  <2> QED
    BY <1>1, <1>3, DigitalReadTakes
<1>5. red.low => ~blue.low
  <2> HIDE DEF red
  <2> QED
    BY <1>3 DEF digitalRead, Teams
<1> HIDE DEF blue, red
<1>6. /\ goal \in Teams \cup {None}
      /\ Only(stdin, Teams) = IF goal = None THEN Only(blue.rest, Teams)
                              ELSE <<goal>> \o Only(blue.rest, Teams)
  BY <1>3, <1>4, <1>5 DEF Teams, None
<1> HIDE DEF goal
<1> QED
  BY <1>2, <1>4, <1>6, <1>s

LEMMA ScoresSplit == GoalMsgs \cap ScoreMsgs = {}
BY DEF GoalMsgs, ScoreMsgs

\* A step that leaves what is counted and received alone.
Quiet == /\ UNCHANGED <<keys, history, received>>
         /\ fw'.score_red = fw.score_red /\ fw'.score_blue = fw.score_blue
         /\ fw'.goal \in {fw.goal, None}
         /\ fw'.pc = "usbSendGoal" => fw'.goal # None
         /\ fw'.pc \in Pending /\ fw'.goal # None => fw.pc \in Pending

LEMMA QuietCounts ==
  ASSUME CountInv, Quiet
  PROVE  ListsOK' /\ PressInv' /\ ScoreInv' /\ RespInv' /\ GoalsInv'
<1>1. ListsOK' /\ PressInv' /\ ScoreInv' /\ RespInv'
  BY DEF CountInv, Quiet, ListsOK, PressInv, EveryPressCounts, ScoreInv, RespInv
<1>2. Fell' = Fell /\ ReceivedGoals' = ReceivedGoals
  BY DEF Quiet, Fell, ReceivedGoals
<1>3. GoalsInv'
  BY <1>2 DEF CountInv, Quiet, GoalsInv, At
<1> QED
  BY <1>1, <1>3

LEMMA AgainQuiet ==
  ASSUME HandleInv, Again, UNCHANGED received
  PROVE  Quiet /\ fw'.device = 0
<1>1. /\ fw'.pc = "checkGoals" /\ fw'.goal = None /\ fw'.device = 0
      /\ fw'.score_red = fw.score_red /\ fw'.score_blue = fw.score_blue
  BY DEF HandleInv, FwOK, Again, EndLoop, Null
<1> QED
  BY <1>1 DEF Again, Quiet, Pending

LEMMA GotoQuiet ==
  ASSUME HandleInv, NEW place, Goto(place), UNCHANGED received,
         place = "usbSendGoal" => fw.goal # None,
         place \in Pending => fw.pc \in Pending
  PROVE  Quiet /\ fw'.device = fw.device
<1>1. /\ fw'.pc = place /\ fw'.goal = fw.goal /\ fw'.device = fw.device
      /\ fw'.score_red = fw.score_red /\ fw'.score_blue = fw.score_blue
  BY DEF HandleInv, FwOK, Goto
<1> QED
  BY <1>1 DEF Goto, Quiet

LEMMA ConnectedQuiet ==
  ASSUME HandleInv, Connected, UNCHANGED received, fw.pc \in Pending
  PROVE  Quiet /\ fw'.device = fw.device
BY GotoQuiet DEF Connected

\* The calls of the loop that count nothing and send nothing.
QuietSteps == \/ NotDetected \/ Detect \/ Connect \/ StillConnected \/ DropOnError
              \/ switchDevice \/ NotSwitched \/ Reopen \/ LostAfterSwitch
              \/ ReadNothing \/ ReadScoreReq \/ ReadCrashes \/ quit

LEMMA QuietStepsAre ==
  ASSUME HandleInv, CountInv, QuietSteps
  PROVE  Quiet /\ (fw'.device = 0 \/ fw'.device = fw.device \/ fw'.device = phone.device)
<1> USE DEF Pending, At
<1>1. CASE NotDetected \/ LostAfterSwitch
  BY <1>1, AgainQuiet DEF NotDetected, LostAfterSwitch, accVars
<1>2. CASE Detect
  <2>1. /\ fw'.pc = "switchDevice" /\ fw'.goal = fw.goal /\ fw.pc = "isConnected"
        /\ fw'.device \in {phone.device, 0}
        /\ fw'.score_red = fw.score_red /\ fw'.score_blue = fw.score_blue
        /\ UNCHANGED <<keys, history, received>>
    BY <1>2 DEF Detect, HandleInv, FwOK, Null, accVars
  <2> QED
    BY <2>1 DEF Quiet
<1>3. CASE Connect
  BY <1>3, ConnectedQuiet DEF Connect, Configure
<1>4. CASE StillConnected
  BY <1>4, ConnectedQuiet DEF StillConnected, accVars
<1>5. CASE DropOnError
  BY <1>5, AgainQuiet DEF DropOnError
<1>6. CASE switchDevice
  BY <1>6, GotoQuiet DEF switchDevice, SwitchObeyed
<1>7. CASE NotSwitched
  BY <1>7, AgainQuiet DEF NotSwitched, SwitchFails
<1>8. CASE Reopen
  BY <1>8, ConnectedQuiet DEF Reopen, Configure
<1>9. CASE ReadNothing
  BY <1>9, AgainQuiet DEF ReadNothing, ReadTimesOut, ReadFails, TransferToNobody
<1>10. CASE ReadScoreReq
  BY <1>10, GotoQuiet DEF ReadScoreReq, ReadCommand
<1>11. CASE ReadCrashes
  BY <1>11, GotoQuiet DEF ReadCrashes, accVars
<1>12. CASE quit
  BY <1>12, GotoQuiet DEF quit
<1> QED
  BY <1>1, <1>2, <1>3, <1>4, <1>5, <1>6, <1>7, <1>8, <1>9, <1>10, <1>11, <1>12 DEF QuietSteps
-----------------------------------------------------------------------------
\* The bus is a list of what may be on it, and the commands are two.
LEMMA InsertKind ==
  ASSUME bus \in Seq(Kinds), NEW i \in 1..(Len(bus) + 1)
  PROVE  InsertAt(bus, i, "phone") \in Seq(Kinds)
<1>1. "phone" \in Kinds /\ i - 1 \in 0..Len(bus) /\ Len(bus) \in Nat
  BY DEF Kinds
<1>2. <<"phone">> \in Seq(Kinds) /\ SubSeq(bus, 1, i - 1) \in Seq(Kinds)
      /\ SubSeq(bus, i, Len(bus)) \in Seq(Kinds)
  BY <1>1
<1>3. \A a, b \in Seq(Kinds) : a \o b \in Seq(Kinds)
  OBVIOUS
<1> QED
  BY <1>2, <1>3 DEF InsertAt

LEMMA RemovedKind ==
  ASSUME bus \in Seq(Kinds)
  PROVE  Only(bus, Others) \in Seq(Kinds)
BY OnlySeq

\* The numbers that are in the program's hands.
LEMMA DeviceBound == HandleInv => phone.device <= 2 * MaxPlugs
BY BoundsAssumption DEF HandleInv, Numbers, PhoneOK

LEMMA BusMovesBus ==
  ASSUME HandleInv, BusInv, BusMoves, UNCHANGED fwVars
  PROVE  BusInv'
<1>0. bus \in Seq(Kinds) /\ commands \in Seq({"scoreReq", "newGame"}) /\ phone.sent \in Nat
      /\ phone.sent <= MaxCommands /\ fw' = fw
  BY DEF BusInv, HandleInv, PhoneOK, fwVars
<1>1. CASE PlugPhone \/ Reenumerate
  <2>1. phone'.sent = phone.sent /\ commands' = commands
    BY <1>1 DEF PlugPhone, Reenumerate, HandleInv, PhoneOK
  <2>2. bus' \in Seq(Kinds)
    BY <1>0, <1>1, InsertKind DEF PlugPhone, Reenumerate
  <2> QED
    BY <1>0, <2>1, <2>2 DEF BusInv
<1>2. CASE UnplugPhone
  <2>1. phone'.sent = phone.sent /\ commands' = <<>> /\ bus' = Only(bus, Others)
    BY <1>2 DEF UnplugPhone, HandleInv, PhoneOK
  <2> QED
    BY <1>0, <2>1, RemovedKind DEF BusInv
<1>3. ASSUME NEW c \in {"scoreReq", "newGame"}, SendCommand(c) PROVE BusInv'
  <2>1. /\ phone.sent < MaxCommands /\ phone'.sent = phone.sent + 1
        /\ commands' = Append(commands, c) /\ bus' = bus
    BY <1>3 DEF SendCommand, HandleInv, PhoneOK
  <2>2. commands' \in Seq({"scoreReq", "newGame"})
    BY <1>0, <2>1
  <2> QED
    BY <1>0, <2>1, <2>2, BoundsAssumption DEF BusInv
<1> QED
  BY <1>1, <1>2, <1>3 DEF BusMoves

\* What a step of the program leaves of the bus.
LEMMA LoopBus ==
  ASSUME HandleInv, BusInv,
         bus' \in {bus, Only(bus, Others)}, commands' = commands \/ ReadCommand,
         phone'.sent = phone.sent,
         fw'.device = 0 \/ fw'.device = fw.device \/ fw'.device = phone.device
  PROVE  BusInv'
<1>1. bus' \in Seq(Kinds)
  BY RemovedKind DEF BusInv
<1>2. commands' \in Seq({"scoreReq", "newGame"})
  BY DEF BusInv, ReadCommand
<1>3. fw'.device <= 2 * MaxPlugs
  BY DeviceBound, BoundsAssumption DEF BusInv
<1> QED
  BY <1>1, <1>2, <1>3 DEF BusInv
-----------------------------------------------------------------------------
LEMMA LettersAre ==
  /\ Teams \subseteq Letters /\ "enter" \in Letters \ Teams
  /\ Teams \subseteq Events /\ "newGame" \in Events \ Teams /\ None \notin Events
BY DEF Teams, Letters, Events, None

LEMMA EventsConcat ==
  ASSUME NEW X, NEW a \in Seq(X), NEW b \in Seq(X), NEW e \in X
  PROVE  Append(a, e) \o b = a \o (<<e>> \o b)
<1>1. Append(a, e) = a \o <<e>> /\ <<e>> \in Seq(X)
  OBVIOUS
<1> DEFINE u == <<e>>
<1> HIDE DEF u
<1>2. \A s, t \in Seq(X) : (a \o s) \o t = a \o (s \o t)
  BY ConcatAssociative
<1>3. u \in Seq(X) => (a \o u) \o b = a \o (u \o b)
  BY <1>2
<1> QED
  BY <1>1, <1>3 DEF u

\* A letter and ENTER typed are one goal more to come.
LEMMA PressTypes ==
  ASSUME NEW team \in Teams, NEW stdin \in Seq(Letters), EnterFollows(stdin)
  PROVE  LET t == stdin \o <<team, "enter">>
         IN  /\ t \in Seq(Letters) /\ EnterFollows(t)
             /\ Only(t, Teams) = Append(Only(stdin, Teams), team)
<1> DEFINE a == Append(stdin, team)
           t == Append(a, "enter")
<1>1. /\ a \in Seq(Letters) /\ t \in Seq(Letters)
      /\ stdin \o <<team, "enter">> = t
      /\ Len(t) = Len(stdin) + 2 /\ Len(stdin) \in Nat
      /\ t[Len(stdin) + 1] = team /\ t[Len(stdin) + 2] = "enter"
      /\ \A i \in 1..Len(stdin) : t[i] = stdin[i]
  BY LettersAre
<1> HIDE DEF t
<1>2. EnterFollows(t)
  <2> SUFFICES ASSUME NEW i \in 1..Len(t), t[i] \in Teams
               PROVE  i + 1 \in 1..Len(t) /\ t[i + 1] = "enter"
    BY DEF EnterFollows
  <2>1. CASE i \in 1..Len(stdin)
    <3>1. i + 1 \in 1..Len(stdin) /\ stdin[i + 1] = "enter"
      BY <1>1, <2>1 DEF EnterFollows
    <3> QED
      BY <1>1, <3>1
  <2>2. CASE i = Len(stdin) + 1
    BY <1>1, <2>2
  <2>3. i # Len(stdin) + 2
    BY <1>1, LettersAre
  <2> QED
    BY <1>1, <2>1, <2>2, <2>3
<1>3. Only(t, Teams) = Only(a, Teams)
  <2> HIDE DEF a
  <2> QED
    BY <1>1, LettersAre, OnlyAppend DEF t
<1>4. Only(a, Teams) = Append(Only(stdin, Teams), team)
  BY LettersAre, OnlyAppend
<1> QED
  BY <1>1, <1>2, <1>3, <1>4

LEMMA PressCounts ==
  ASSUME HandleInv, CountInv, NEW team \in Teams, Press(team)
  PROVE  CountInv'
<1> DEFINE stdin == keys.stdin
           typed == keys.typed
           g == Goals(history)
           o == Only(stdin, Teams)
           t == stdin \o <<team, "enter">>
<1>1. /\ stdin \in Seq(Letters) /\ typed \in Seq(Teams) /\ history \in Seq(Events)
      /\ EnterFollows(stdin) /\ typed = g \o o /\ Len(typed) < MaxGoals
      /\ keys' = [typed |-> Append(typed, team), stdin |-> t]
      /\ UNCHANGED <<bus, phone, commands, received, fw, history>>
  BY DEF CountInv, ListsOK, PressInv, EveryPressCounts, Press, accVars
<1>2. g \in Seq(Teams) /\ o \in Seq(Teams)
  <2>1. g \in Seq(Events \cap Teams) /\ o \in Seq(Letters \cap Teams)
    BY <1>1, OnlyType DEF Goals
  <2>2. Events \cap Teams = Teams /\ Letters \cap Teams = Teams
    BY LettersAre
  <2> QED
    BY <2>1, <2>2
<1>3. t \in Seq(Letters) /\ EnterFollows(t) /\ Only(t, Teams) = Append(o, team)
  BY <1>1, PressTypes
<1> HIDE DEF t, stdin, typed, g, o
<1>4. /\ Append(typed, team) \in Seq(Teams) /\ Len(Append(typed, team)) = Len(typed) + 1
      /\ Len(typed) \in Nat
  BY <1>1
<1>5. Append(typed, team) = g \o Append(o, team)
  BY <1>1, <1>2, AppendConcat
<1>6. keys'.typed = Append(typed, team) /\ keys'.stdin = t
  BY <1>1
<1>7. ListsOK'
  BY <1>1, <1>3, <1>4 DEF CountInv, ListsOK
<1>8. PressInv'
  <2>1. Goals(history') = g
    BY <1>1 DEF g
  <2> QED
    <3>1. Len(keys'.typed) <= MaxGoals
      BY <1>1, <1>4, <1>6, BoundsAssumption
    <3>2. keys'.typed = Goals(history') \o Only(keys'.stdin, Teams)
      BY <1>3, <1>5, <1>6, <2>1, Zenon
    <3>3. EnterFollows(keys'.stdin)
      BY <1>3, <1>6
    <3> QED
      BY <3>1, <3>2, <3>3 DEF PressInv, EveryPressCounts
<1>9. BusInv' /\ ScoreInv' /\ RespInv'
  BY <1>1 DEF CountInv, BusInv, ScoreInv, RespInv
<1>10. GoalsInv'
  BY <1>1 DEF CountInv, GoalsInv, Fell, ReceivedGoals, At
<1> QED
  BY <1>7, <1>8, <1>9, <1>10 DEF CountInv

\* What the history so far says does not change when it goes on.
LEMMA RespKept ==
  ASSUME CountInv, NEW e \in Events, history' = Append(history, e), received' = received
  PROVE  RespInv'
<1> SUFFICES ASSUME NEW m \in ToSet(received), m.what = "score"
             PROVE  /\ m.at <= Len(history')
                    /\ m.red  = Tally("b", SubSeq(history', 1, m.at))
                    /\ m.blue = Tally("r", SubSeq(history', 1, m.at))
  BY DEF RespInv
<1>1. /\ m.at <= Len(history)
      /\ m.red  = Tally("b", SubSeq(history, 1, m.at))
      /\ m.blue = Tally("r", SubSeq(history, 1, m.at))
  BY DEF CountInv, RespInv
<1>2. m.at \in Nat
  <2>1. PICK i \in 1..Len(received) : m = received[i]
    BY DEF CountInv, ListsOK, ToSet
  <2>2. m \in GoalMsgs \cup ScoreMsgs
    BY <2>1 DEF CountInv, ListsOK
  <2> QED
    BY <2>2 DEF GoalMsgs, ScoreMsgs
<1>3. history \in Seq(Events) /\ m.at \in 0..Len(history) /\ Len(history') = Len(history) + 1
  BY <1>1, <1>2 DEF CountInv, ListsOK
<1>4. SubSeq(history', 1, m.at) = SubSeq(history, 1, m.at)
  BY <1>3, AppendAfter
<1>5. m.at <= Len(history')
  BY <1>1, <1>2, <1>3
<1> QED
  BY <1>1, <1>4, <1>5, Zenon

LEMMA CheckGoalsCounts ==
  ASSUME HandleInv, CountInv, checkGoals
  PROVE  CountInv' /\ Goals(history') \in {Goals(history), Append(Goals(history), fw'.goal)}
         /\ received' = received
<1>1. PICK goal \in Teams \cup {None}, rest \in Seq(Letters) :
           /\ fw' = [fw EXCEPT !.pc = "isConnected", !.goal = goal,
                               !.score_blue = IF goal = "r" THEN @ + 1 ELSE @,
                               !.score_red = IF goal = "b" THEN @ + 1 ELSE @]
           /\ keys' = [keys EXCEPT !.stdin = rest]
           /\ history' = IF goal = None THEN history ELSE Append(history, goal)
           /\ EnterFollows(rest)
           /\ Only(keys.stdin, Teams) = IF goal = None THEN Only(rest, Teams)
                                        ELSE <<goal>> \o Only(rest, Teams)
  BY CheckGoalsTakes
<1>2. /\ history \in Seq(Events) /\ keys.typed \in Seq(Teams)
      /\ keys'.stdin = rest /\ keys'.typed = keys.typed
      /\ keys' \in [stdin : Seq(Letters), typed : Seq(Teams)]
      /\ UNCHANGED <<bus, phone, commands, received>>
  BY <1>1 DEF checkGoals, accVars, CountInv, ListsOK
<1>3. /\ fw'.pc = "isConnected" /\ fw'.goal = goal /\ fw'.device = fw.device
      /\ fw'.score_red = IF goal = "b" THEN fw.score_red + 1 ELSE fw.score_red
      /\ fw'.score_blue = IF goal = "r" THEN fw.score_blue + 1 ELSE fw.score_blue
  BY <1>1 DEF HandleInv, FwOK
<1>4. BusInv'
  BY <1>2, <1>3 DEF CountInv, BusInv
<1>5. \A i \in 1..Len(ReceivedGoals) : ReceivedGoals[i].n \in 1..Fell
  BY DEF CountInv, GoalsInv
<1>6. ReceivedGoals' = ReceivedGoals
  BY <1>2 DEF ReceivedGoals
<1>7. CASE goal = None
  <2>1. history' = history
    BY <1>1, <1>7
  <2>2. ListsOK' /\ PressInv'
    BY <1>1, <1>2, <1>7, <2>1 DEF CountInv, ListsOK, PressInv, EveryPressCounts
  <2>3. ScoreInv' /\ RespInv'
    BY <1>2, <1>3, <1>7, <2>1 DEF CountInv, ScoreInv, RespInv, None
  <2>4. GoalsInv'
    BY <1>3, <1>5, <1>6, <1>7, <2>1 DEF GoalsInv, Fell, At
  <2> QED
    BY <1>2, <1>4, <2>1, <2>2, <2>3, <2>4 DEF CountInv
<1>8. CASE goal # None
  <2> DEFINE g == Goals(history)
             o == Only(rest, Teams)
             c == Since(history)
  <2>1. goal \in Teams /\ goal \in Events /\ history' = Append(history, goal)
    BY <1>1, <1>8, LettersAre
  <2>2. history' \in Seq(Events)
    BY <1>2, <2>1
  <2>3. Goals(history') = Append(g, goal)
    BY <1>2, <2>1, OnlyAppend DEF Goals
  <2>4. Since(history') = Append(c, goal) /\ c \in Seq(Events)
    BY <1>2, <2>1, SinceAppend, SinceGoals, LettersAre
  <2>5. g \in Seq(Teams) /\ o \in Seq(Teams)
    <3>1. g \in Seq(Events \cap Teams) /\ o \in Seq(Letters \cap Teams)
      BY <1>2, OnlyType DEF Goals
    <3>2. Events \cap Teams = Teams /\ Letters \cap Teams = Teams
      BY LettersAre
    <3> QED
      BY <3>1, <3>2
  <2>6. Fell' = Fell + 1 /\ Fell \in Nat
    BY <2>1, <2>3, <2>5 DEF Fell
  <2>7. keys.typed = g \o (<<goal>> \o o)
    BY <1>1, <1>8 DEF CountInv, PressInv, EveryPressCounts
  <2> HIDE DEF g, o
  <2>8. keys'.typed = Goals(history') \o Only(keys'.stdin, Teams)
    BY <1>2, <2>1, <2>3, <2>5, <2>7, EventsConcat DEF o
  <2>9. ListsOK' /\ PressInv'
    BY <1>1, <1>2, <2>2, <2>8 DEF CountInv, ListsOK, PressInv, EveryPressCounts
  <2>10. RespInv'
    BY <1>2, <2>1, RespKept
  <2>11. ScoreInv'
    <3> HIDE DEF c
    <3>1. ASSUME NEW team \in Teams
          PROVE  /\ Only(Append(c, goal), {team}) =
                      IF goal = team THEN Append(Only(c, {team}), goal) ELSE Only(c, {team})
                 /\ Only(c, {team}) \in Seq(Events)
      <4>1. Only(Append(c, goal), {team}) = IF goal \in {team} THEN Append(Only(c, {team}), goal)
                                            ELSE Only(c, {team})
        BY <2>1, <2>4, OnlyAppend
      <4>2. goal \in {team} <=> goal = team
        OBVIOUS
      <4>3. Only(c, {team}) \in Seq(Events)
        BY <2>4, OnlySeq
      <4> QED
        BY <4>1, <4>2, <4>3, Zenon
    <3>2. ASSUME NEW team \in Teams
          PROVE  Len(Only(Since(history'), {team})) =
                   IF goal = team THEN Len(Only(c, {team})) + 1 ELSE Len(Only(c, {team}))
      BY <2>1, <2>4, <3>1
    <3>3. fw.score_red = Len(Only(c, {"b"})) /\ fw.score_blue = Len(Only(c, {"r"}))
      BY DEF CountInv, ScoreInv, c
    <3> QED
      BY <1>3, <3>2, <3>3 DEF ScoreInv, Teams
  <2>12. GoalsInv'
    <3>1. Fell' > 0 /\ \A i \in 1..Len(ReceivedGoals) :
                          ReceivedGoals[i].n \in 1..Fell' /\ ReceivedGoals[i].n # Fell'
      BY <1>5, <2>6
    <3> QED
      BY <1>3, <1>6, <3>1 DEF GoalsInv, At
  <2> QED
    BY <1>2, <1>3, <1>4, <2>3, <2>9, <2>10, <2>11, <2>12 DEF CountInv, g
<1> QED
  BY <1>7, <1>8
-----------------------------------------------------------------------------
\* A write reaches the phone or does not.
LEMMA WriteReceived ==
  ASSUME NEW m, write(m)
  PROVE  /\ received' = received \/ received' = Append(received, m)
         /\ UNCHANGED <<bus, phone, commands>>
BY DEF write, WriteArrives, WriteFails, TransferToNobody

LEMMA ReceivedOne ==
  ASSUME ListsOK, NEW m \in GoalMsgs \cup ScoreMsgs, received' = Append(received, m)
  PROVE  /\ received' \in Seq(GoalMsgs \cup ScoreMsgs)
         /\ ToSet(received') = ToSet(received) \cup {m}
         /\ ReceivedGoals' = IF m \in GoalMsgs THEN Append(ReceivedGoals, m) ELSE ReceivedGoals
         /\ ReceivedGoals \in Seq(GoalMsgs)
<1> DEFINE M == GoalMsgs \cup ScoreMsgs
           t == Append(received, m)
<1>1. received \in Seq(M) /\ m \in M
  BY DEF ListsOK
<1>2. ReceivedGoals' = IF m \in GoalMsgs THEN Append(ReceivedGoals, m) ELSE ReceivedGoals
  BY <1>1, OnlyAppend DEF ReceivedGoals
<1>3. ReceivedGoals \in Seq(GoalMsgs)
  <2>1. M \cap GoalMsgs = GoalMsgs
    OBVIOUS
  <2>2. ReceivedGoals \in Seq(M \cap GoalMsgs)
    <3> HIDE DEF M
    <3> QED
      BY <1>1, OnlyType DEF ReceivedGoals
  <2> QED
    BY <2>1, <2>2
<1> HIDE DEF M
<1>4. t \in Seq(M) /\ DOMAIN t = 1..(Len(received) + 1) /\ t[Len(received) + 1] = m
      /\ DOMAIN received = 1..Len(received) /\ Len(received) \in Nat
      /\ \A i \in 1..Len(received) : t[i] = received[i]
  BY <1>1
<1> HIDE DEF t
<1>5. ToSet(t) = ToSet(received) \cup {m}
  <2>1. ASSUME NEW x \in ToSet(t) PROVE x \in ToSet(received) \cup {m}
    <3>1. PICK i \in 1..(Len(received) + 1) : x = t[i]
      BY <1>4, <2>1 DEF ToSet
    <3>2. CASE i = Len(received) + 1
      BY <1>4, <3>1, <3>2
    <3>3. CASE i \in 1..Len(received)
      BY <1>4, <3>1, <3>3 DEF ToSet
    <3> QED
      BY <1>4, <3>2, <3>3
  <2>2. ASSUME NEW x \in ToSet(received) PROVE x \in ToSet(t)
    <3>1. PICK i \in 1..Len(received) : x = received[i]
      BY <1>4, <2>2 DEF ToSet
    <3>2. i \in DOMAIN t /\ x = t[i]
      BY <1>4, <3>1
    <3> QED
      BY <3>2 DEF ToSet
  <2>3. m \in ToSet(t)
    <3>1. Len(received) + 1 \in DOMAIN t
      BY <1>4
    <3> QED
      BY <1>4, <3>1 DEF ToSet
  <2> QED
    BY <2>1, <2>2, <2>3
<1> QED
  BY <1>2, <1>3, <1>4, <1>5 DEF t, M

LEMMA SendGoalCounts ==
  ASSUME HandleInv, CountInv, usbSendGoal
  PROVE  /\ CountInv'
         /\ history' = history
         /\ \/ received' = received
            \/ /\ received' = Append(received, GoalMsg) /\ GoalMsg \in GoalMsgs
               /\ ReceivedGoals' = Append(ReceivedGoals, GoalMsg)
               /\ ReceivedGoals \in Seq(GoalMsgs)
               /\ Fell \in 1..Fell
               /\ \A i \in 1..Len(ReceivedGoals) : ReceivedGoals[i].n # Fell
<1>1. /\ fw.pc = "usbSendGoal" /\ write(GoalMsg)
      /\ fw' = [fw EXCEPT !.pc = "read"] /\ UNCHANGED <<keys, history>>
  BY DEF usbSendGoal, At, Goto
<1>2. /\ received' = received \/ received' = Append(received, GoalMsg)
      /\ UNCHANGED <<bus, phone, commands>>
  BY <1>1, WriteReceived
<1>3. /\ fw'.pc = "read" /\ fw'.goal = fw.goal /\ fw'.device = fw.device
      /\ fw'.score_red = fw.score_red /\ fw'.score_blue = fw.score_blue
      /\ fw.goal \in Teams
  BY <1>1 DEF HandleInv, FwOK, CountInv, GoalsInv, At
<1>4. BusInv' /\ PressInv' /\ ScoreInv'
  BY <1>1, <1>2, <1>3 DEF CountInv, BusInv, PressInv, EveryPressCounts, ScoreInv
<1>5. /\ fw.goal # None /\ Fell > 0 /\ Fell' = Fell /\ Fell \in Nat
      /\ \A i \in 1..Len(ReceivedGoals) : ReceivedGoals[i].n \in 1..Fell /\ ReceivedGoals[i].n # Fell
  <2>1. Goals(history) \in Seq(Events)
    BY OnlySeq DEF Goals, CountInv, ListsOK
  <2>2. Fell \in Nat /\ Fell' = Fell
    BY <1>1, <2>1 DEF Fell
  <2> QED
    BY <1>1, <2>2 DEF CountInv, GoalsInv, At, Pending
<1>6. CASE received' = received
  <2>1. ListsOK' /\ RespInv'
    BY <1>1, <1>6 DEF CountInv, ListsOK, RespInv
  <2>2. ReceivedGoals' = ReceivedGoals
    BY <1>6 DEF ReceivedGoals
  <2>3. GoalsInv'
    BY <1>3, <1>5, <2>2 DEF GoalsInv, At, Pending
  <2> QED
    BY <1>1, <1>4, <1>6, <2>1, <2>3 DEF CountInv
<1>7. CASE received' = Append(received, GoalMsg)
  <2>1. GoalMsg \in GoalMsgs /\ GoalMsg.n = Fell /\ GoalMsg.what = "goal"
    BY <1>3, <1>5 DEF GoalMsg, GoalMsgs, Fell
  <2>2. /\ received' \in Seq(GoalMsgs \cup ScoreMsgs)
        /\ ToSet(received') = ToSet(received) \cup {GoalMsg}
        /\ ReceivedGoals' = Append(ReceivedGoals, GoalMsg)
        /\ ReceivedGoals \in Seq(GoalMsgs)
    BY <1>7, <2>1, ReceivedOne DEF CountInv
  <2>3. ListsOK'
    BY <1>1, <2>2 DEF CountInv, ListsOK
  <2>4. RespInv'
    BY <1>1, <2>1, <2>2 DEF CountInv, RespInv
  <2>5. GoalsInv'
    <3>1. \A i \in 1..Len(ReceivedGoals') : ReceivedGoals'[i].n \in 1..Fell
      BY <1>5, <2>1, <2>2
    <3> QED
      BY <1>3, <1>5, <3>1 DEF GoalsInv, At, Pending
  <2> QED
    BY <1>1, <1>4, <1>5, <1>7, <2>1, <2>2, <2>3, <2>4, <2>5 DEF CountInv
<1> QED
  BY <1>2, <1>6, <1>7

LEMMA SendScoreCounts ==
  ASSUME HandleInv, CountInv, usbSendScoreResp
  PROVE  CountInv' /\ history' = history /\ ReceivedGoals' = ReceivedGoals
<1>1. write(ScoreResp) /\ Again /\ UNCHANGED <<keys, history>>
  BY DEF usbSendScoreResp, Again
<1>2. /\ received' = received \/ received' = Append(received, ScoreResp)
      /\ UNCHANGED <<bus, phone, commands>>
  BY <1>1, WriteReceived
<1>3. /\ fw'.pc = "checkGoals" /\ fw'.goal = None /\ fw'.device = 0
      /\ fw'.score_red = fw.score_red /\ fw'.score_blue = fw.score_blue
  BY <1>1 DEF HandleInv, FwOK, Again, EndLoop, Null
<1>4. BusInv' /\ PressInv' /\ ScoreInv'
  <2>1. BusInv'
    BY <1>2, <1>3, BoundsAssumption DEF CountInv, BusInv
  <2> QED
    BY <1>1, <1>3, <2>1 DEF CountInv, PressInv, EveryPressCounts, ScoreInv
<1>5. history \in Seq(Events) /\ fw.score_red \in Nat /\ fw.score_blue \in Nat
  BY DEF HandleInv, FwOK, CountInv, ListsOK
<1>6. GoalsInv' /\ ReceivedGoals' = ReceivedGoals /\ ListsOK' /\ RespInv'
  <2>1. Fell' = Fell
    BY <1>1 DEF Fell
  <2>2. CASE received' = received
    <3>1. ListsOK' /\ RespInv' /\ ReceivedGoals' = ReceivedGoals
      BY <1>1, <2>2 DEF CountInv, ListsOK, RespInv, ReceivedGoals
    <3> QED
      BY <1>3, <2>1, <3>1 DEF CountInv, GoalsInv, At, Pending
  <2>3. CASE received' = Append(received, ScoreResp)
    <3>1. ScoreResp \in ScoreMsgs
      BY <1>5, BoundsAssumption DEF ScoreResp, ScoreMsgs
    <3>2. ScoreResp \notin GoalMsgs
      BY DEF ScoreResp, GoalMsgs
    <3>3. /\ received' \in Seq(GoalMsgs \cup ScoreMsgs)
          /\ ToSet(received') = ToSet(received) \cup {ScoreResp}
          /\ ReceivedGoals' = ReceivedGoals
      BY <2>3, <3>1, <3>2, ReceivedOne DEF CountInv
    <3>4. ListsOK'
      BY <1>1, <3>3 DEF CountInv, ListsOK
    <3>5. /\ ScoreResp.at = Len(history)
          /\ ScoreResp.red = fw.score_red % CharRange
          /\ ScoreResp.blue = fw.score_blue % CharRange
      BY DEF ScoreResp
    <3>6. SubSeq(history, 1, Len(history)) = history /\ Len(history) <= Len(history)
      BY <1>5, WholeSeq
    <3>7. /\ ScoreResp.red = Tally("b", history)
          /\ ScoreResp.blue = Tally("r", history)
      BY <3>5 DEF Tally, CountInv, ScoreInv
    <3>8. RespInv'
      <4> SUFFICES ASSUME NEW m \in ToSet(received) \cup {ScoreResp}, m.what = "score"
                   PROVE  /\ m.at <= Len(history)
                          /\ m.red  = Tally("b", SubSeq(history, 1, m.at))
                          /\ m.blue = Tally("r", SubSeq(history, 1, m.at))
        BY <1>1, <3>3 DEF RespInv
      <4>1. CASE m \in ToSet(received)
        BY <4>1 DEF CountInv, RespInv
      <4>2. CASE m = ScoreResp
        BY <3>5, <3>6, <3>7, <4>2, Zenon
      <4> QED
        BY <4>1, <4>2
    <3> QED
      BY <1>3, <2>1, <3>3, <3>4, <3>8 DEF CountInv, GoalsInv, At, Pending
  <2> QED
    BY <1>2, <2>2, <2>3
<1> QED
  BY <1>1, <1>4, <1>6 DEF CountInv

LEMMA NewGameCounts ==
  ASSUME HandleInv, CountInv, ReadNewGame
  PROVE  CountInv' /\ Goals(history') = Goals(history) /\ received' = received
<1>1. /\ ReadCommand /\ history' = Append(history, "newGame") /\ keys' = keys
      /\ fw' = [EndLoop EXCEPT !.score_red = 0, !.score_blue = 0]
      /\ UNCHANGED <<bus, phone, received>>
  BY DEF ReadNewGame, ReadCommand
<1>2. /\ fw'.pc = "checkGoals" /\ fw'.goal = None /\ fw'.device = 0
      /\ fw'.score_red = 0 /\ fw'.score_blue = 0
  BY <1>1 DEF HandleInv, FwOK, EndLoop, Null
<1>3. history \in Seq(Events) /\ "newGame" \in Events /\ "newGame" \notin Teams
  BY LettersAre DEF CountInv, ListsOK
<1>4. Goals(history') = Goals(history)
  BY <1>1, <1>3, OnlyAppend DEF Goals
<1>5. Since(history') = <<>>
  BY <1>1, <1>3, SinceAppend
<1>6. BusInv'
  BY <1>1, <1>2, LoopBus DEF CountInv
<1>7. ListsOK' /\ PressInv'
  <2>1. history' \in Seq(Events)
    BY <1>1, <1>3
  <2> QED
    BY <1>1, <1>4, <2>1 DEF CountInv, ListsOK, PressInv, EveryPressCounts
<1>8. ScoreInv'
  <2>1. \A team : Len(Only(<<>>, {team})) = 0
    BY OnlyEmpty
  <2> QED
    BY <1>2, <1>5, <2>1 DEF ScoreInv
<1>9. RespInv'
  BY <1>1, <1>3, RespKept
<1>10. GoalsInv'
  <2>1. Fell' = Fell /\ ReceivedGoals' = ReceivedGoals
    BY <1>1, <1>4 DEF Fell, ReceivedGoals
  <2> QED
    BY <1>2, <2>1 DEF CountInv, GoalsInv, At
<1> QED
  BY <1>1, <1>4, <1>6, <1>7, <1>8, <1>9, <1>10 DEF CountInv

LEMMA InitCounts == setup => CountInv
<1> SUFFICES ASSUME setup PROVE CountInv
  OBVIOUS
<1>1. /\ bus \in Buses /\ commands = <<>> /\ received = <<>> /\ phone.sent = 0
      /\ fw.pc = "checkGoals" /\ fw.goal = None /\ fw.device = 0
      /\ fw.score_red = 0 /\ fw.score_blue = 0
      /\ keys.stdin = <<>> /\ keys.typed = <<>> /\ history = <<>>
      /\ keys = [stdin |-> <<>>, typed |-> <<>>]
  BY DEF setup, Init, Null
<1>2. BusInv
  <2>1. bus \in Seq(Others)
    BY <1>1, BoundsAssumption
  <2>2. bus \in Seq(Kinds)
    BY <2>1 DEF Kinds
  <2> QED
    BY <1>1, <2>2, BoundsAssumption DEF BusInv
<1>3. ListsOK
  BY <1>1 DEF ListsOK
<1>4. Goals(<<>>) = <<>> /\ Only(<<>>, Teams) = <<>> /\ Only(<<>>, GoalMsgs) = <<>>
      /\ \A team : Len(Only(<<>>, {team})) = 0
  BY OnlyEmpty DEF Goals
<1>5. Since(<<>>) = <<>>
  <2>1. <<>> \in Seq(Events) /\ Len(<<>>) = 0
    OBVIOUS
  <2>2. LastNewGame(<<>>) \in 0..Len(<<>>)
    BY <2>1, LastNewGameIs
  <2>3. LastNewGame(<<>>) = 0
    BY <2>1, <2>2
  <2>4. SubSeq(<<>>, 1 + 0, 0) = <<>>
    OBVIOUS
  <2> QED
    BY <2>1, <2>3, <2>4, SinceIs
<1>6. PressInv /\ ScoreInv /\ RespInv
  <2>1. <<>> \o <<>> = <<>> /\ Len(<<>>) = 0
    OBVIOUS
  <2>2. PressInv
    BY <1>1, <1>4, <2>1, BoundsAssumption DEF PressInv, EveryPressCounts, EnterFollows
  <2>3. ScoreInv
    BY <1>1, <1>4, <1>5 DEF ScoreInv
  <2>4. RespInv
    BY <1>1 DEF RespInv, ToSet
  <2> QED
    BY <2>2, <2>3, <2>4
<1>7. GoalsInv
  BY <1>1, <1>4 DEF GoalsInv, ReceivedGoals, At, Pending
<1> QED
  BY <1>2, <1>3, <1>6, <1>7 DEF CountInv
-----------------------------------------------------------------------------
Got == [i \in DOMAIN ReceivedGoals |-> ReceivedGoals[i].n]

\* A goal more on the phone.
LEMMA GotOne ==
  ASSUME NEW r \in Seq(GoalMsgs), NEW m \in GoalMsgs
  PROVE  LET g == [i \in DOMAIN r |-> r[i].n]
             t == Append(r, m)
         IN  /\ [i \in DOMAIN t |-> t[i].n] = Append(g, m.n)
             /\ \A x \in GoalLink!ToSet(g) : \E i \in 1..Len(r) : x = r[i].n
<1> DEFINE g == [i \in DOMAIN r |-> r[i].n]
           t == Append(r, m)
           h == [i \in DOMAIN t |-> t[i].n]
<1>1. /\ DOMAIN r = 1..Len(r) /\ Len(r) \in Nat /\ m.n \in Nat
      /\ t \in Seq(GoalMsgs) /\ DOMAIN t = 1..(Len(r) + 1) /\ t[Len(r) + 1] = m
      /\ \A i \in 1..Len(r) : t[i] = r[i] /\ r[i].n \in Nat
  <2>1. /\ DOMAIN r = 1..Len(r) /\ Len(r) \in Nat
        /\ t \in Seq(GoalMsgs) /\ DOMAIN t = 1..(Len(r) + 1) /\ t[Len(r) + 1] = m
        /\ \A i \in 1..Len(r) : t[i] = r[i] /\ r[i] \in GoalMsgs
    OBVIOUS
  <2>2. \A e \in GoalMsgs : e.n \in Nat
    BY DEF GoalMsgs
  <2> HIDE DEF t
  <2> QED
    BY <2>1, <2>2
<1> HIDE DEF t
<1>2. g \in [1..Len(r) -> Nat]
  BY <1>1
<1>3. h \in [1..(Len(r) + 1) -> Nat]
  <2>1. \A i \in 1..(Len(r) + 1) : t[i].n \in Nat
    <3> TAKE i \in 1..(Len(r) + 1)
    <3>1. CASE i = Len(r) + 1
      BY <1>1, <3>1
    <3>2. CASE i \in 1..Len(r)
      BY <1>1, <3>2
    <3> QED
      BY <1>1, <3>1, <3>2
  <2> QED
    BY <1>1, <2>1
<1>4. \A f, k : k \in Nat /\ f \in [1..k -> Nat] => f \in Seq(Nat) /\ Len(f) = k
  OBVIOUS
<1>5. g \in Seq(Nat) /\ Len(g) = Len(r) /\ \A i \in 1..Len(r) : g[i] = r[i].n
  BY <1>1, <1>2, <1>4
<1>6. h \in Seq(Nat) /\ Len(h) = Len(r) + 1 /\ \A i \in 1..(Len(r) + 1) : h[i] = t[i].n
  BY <1>1, <1>3, <1>4
<1> HIDE DEF g, h
<1>7. h = Append(g, m.n)
  <2> DEFINE u == Append(g, m.n)
  <2>1. /\ u \in Seq(Nat) /\ Len(u) = Len(r) + 1 /\ u[Len(r) + 1] = m.n
        /\ \A i \in 1..Len(r) : u[i] = r[i].n
    BY <1>1, <1>5
  <2> HIDE DEF u
  <2>2. ASSUME NEW i \in 1..Len(h) PROVE h[i] = u[i]
    <3>1. CASE i = Len(r) + 1
      BY <1>1, <1>6, <2>1, <3>1
    <3>2. CASE i \in 1..Len(r)
      BY <1>1, <1>6, <2>1, <3>2
    <3> QED
      BY <1>1, <1>6, <3>1, <3>2
  <2>3. h = u
    BY <1>6, <2>1, <2>2, SameElements
  <2> QED
    BY <2>3 DEF u
<1>8. \A x \in GoalLink!ToSet(g) : \E i \in 1..Len(r) : x = r[i].n
  <2>1. DOMAIN g = 1..Len(r)
    BY <1>5
  <2> QED
    BY <1>5, <2>1 DEF GoalLink!ToSet
<1> QED
  BY <1>7, <1>8 DEF g, h, t

\* Every step keeps the count, and is one of the link between the table and the
\* phone, or none.
LEMMA CountSteps ==
  ASSUME HandleInv, CountInv, [Next]_vars
  PROVE  CountInv' /\ [GoalLink!Next]_<<Len(Goals(history)), Got>>
<1> DEFINE Link == [GoalLink!Next]_<<Len(Goals(history)), Got>>
<1>1. ASSUME Goals(history') = Goals(history), ReceivedGoals' = ReceivedGoals PROVE Link
  BY <1>1 DEF Got
<1>2. ASSUME Quiet, BusInv' PROVE CountInv' /\ Link
  <2>1. history' = history /\ received' = received
    BY <1>2 DEF Quiet
  <2> QED
    BY <1>1, <1>2, <2>1, QuietCounts DEF CountInv, ReceivedGoals
<1>3. CASE QuietSteps
  <2>1. Quiet /\ (fw'.device = 0 \/ fw'.device = fw.device \/ fw'.device = phone.device)
    BY <1>3, QuietStepsAre
  <2>2. /\ bus' \in {bus, Only(bus, Others)} /\ (commands' = commands \/ ReadCommand)
        /\ phone'.sent = phone.sent
    <3>1. CASE switchDevice
      BY <3>1 DEF switchDevice, SwitchObeyed, HandleInv, PhoneOK
    <3>2. CASE ReadScoreReq
      BY <3>2 DEF ReadScoreReq, ReadCommand
    <3>3. CASE NotDetected \/ Detect \/ StillConnected \/ LostAfterSwitch \/ ReadCrashes
      BY <3>3 DEF NotDetected, Detect, StillConnected, LostAfterSwitch, ReadCrashes, accVars
    <3>4. CASE Connect \/ Reopen \/ NotSwitched
      BY <3>4 DEF Connect, Reopen, Configure, NotSwitched, SwitchFails
    <3>5. CASE DropOnError \/ ReadNothing \/ quit
      BY <3>5 DEF DropOnError, ReadNothing, ReadTimesOut, ReadFails, TransferToNobody, quit
    <3> QED
      BY <1>3, <3>1, <3>2, <3>3, <3>4, <3>5 DEF QuietSteps
  <2> QED
    BY <1>2, <2>1, <2>2, LoopBus DEF CountInv
<1>4. CASE checkGoals
  <2>1. CountInv' /\ Goals(history') \in {Goals(history), Append(Goals(history), fw'.goal)}
        /\ received' = received
    BY <1>4, CheckGoalsCounts
  <2>2. ReceivedGoals' = ReceivedGoals /\ Got' = Got
    BY <2>1 DEF ReceivedGoals, Got
  <2>3. CASE Goals(history') = Append(Goals(history), fw'.goal)
    <3>1. Goals(history) \in Seq(Events)
      BY OnlySeq DEF Goals, CountInv, ListsOK
    <3>2. Len(Goals(history')) = Len(Goals(history)) + 1
      BY <2>3, <3>1
    <3> QED
      BY <2>1, <2>2, <3>2 DEF GoalLink!Next, GoalLink!Send, Got
  <2> QED
    BY <1>1, <2>1, <2>2, <2>3
<1>5. CASE usbSendGoal
  <2>1. /\ CountInv' /\ history' = history
        /\ \/ received' = received
           \/ /\ received' = Append(received, GoalMsg) /\ GoalMsg \in GoalMsgs
              /\ ReceivedGoals' = Append(ReceivedGoals, GoalMsg)
              /\ ReceivedGoals \in Seq(GoalMsgs)
              /\ Fell \in 1..Fell
              /\ \A i \in 1..Len(ReceivedGoals) : ReceivedGoals[i].n # Fell
    BY <1>5, SendGoalCounts
  <2>2. CASE received' = received
    BY <1>1, <2>1, <2>2 DEF ReceivedGoals
  <2>3. CASE received' # received
    <3> DEFINE r == ReceivedGoals
               t == Append(r, GoalMsg)
    <3>1. GoalMsg.n = Fell
      BY DEF GoalMsg, Fell
    <3>2. Got = [i \in DOMAIN r |-> r[i].n] /\ Got' = [i \in DOMAIN t |-> t[i].n]
      BY <2>1, <2>3 DEF Got
    <3>3. /\ GoalMsg \in GoalMsgs /\ r \in Seq(GoalMsgs) /\ \A i \in 1..Len(r) : r[i].n # Fell
          /\ Fell \in 1..Len(Goals(history))
      BY <2>1, <2>3 DEF Fell
    <3> HIDE DEF r
    <3>4. Got' = Append(Got, Fell) /\ \A x \in GoalLink!ToSet(Got) : \E i \in 1..Len(r) : x = r[i].n
      BY <3>1, <3>2, <3>3, GotOne
    <3>5. Fell \notin GoalLink!ToSet(Got)
      BY <3>3, <3>4
    <3>6. GoalLink!Next
      <4>1. \E m \in 1..Len(Goals(history)) :
              m \notin GoalLink!ToSet(Got) /\ Got' = Append(Got, m)
        BY <3>3, <3>4, <3>5
      <4>2. Len(Goals(history))' = Len(Goals(history))
        BY <2>1
      <4> QED
        BY <4>1, <4>2 DEF GoalLink!Next, GoalLink!Deliver, Got
    <3> QED
      BY <2>1, <3>6
  <2> QED
    BY <2>2, <2>3
<1>6. CASE usbSendScoreResp
  BY <1>1, <1>6, SendScoreCounts
<1>7. CASE ReadNewGame
  <2>1. CountInv' /\ Goals(history') = Goals(history) /\ received' = received
    BY <1>7, NewGameCounts
  <2> QED
    BY <1>1, <2>1 DEF ReceivedGoals
<1>8. ASSUME NEW team \in Teams, Press(team) PROVE CountInv' /\ Link
  <2>1. CountInv'
    BY <1>8, PressCounts
  <2>2. history' = history /\ received' = received
    BY <1>8 DEF Press, accVars
  <2> QED
    BY <1>1, <2>1, <2>2 DEF ReceivedGoals
<1>9. CASE BusMoves /\ UNCHANGED fwVars
  <2>1. BusInv'
    BY <1>9, BusMovesBus DEF CountInv
  <2>2. Quiet
    <3>1. received' = received /\ UNCHANGED <<fw, keys, history>>
      BY <1>9 DEF BusMoves, PlugPhone, UnplugPhone, Reenumerate, SendCommand, fwVars
    <3> QED
      BY <3>1 DEF Quiet, CountInv, GoalsInv, At
  <2> QED
    BY <1>2, <2>1, <2>2
<1>10. CASE UNCHANGED vars
  <2>1. BusInv' /\ Quiet
    BY <1>10 DEF vars, accVars, fwVars, CountInv, BusInv, Quiet, GoalsInv, At
  <2> QED
    BY <1>2, <2>1
<1> QED
  BY <1>3, <1>4, <1>5, <1>6, <1>7, <1>8, <1>9, <1>10 DEF Next, loop, QuietSteps

LEMMA CountTypes == HandleInv /\ CountInv => TypeOK
<1> SUFFICES ASSUME HandleInv, CountInv PROVE TypeOK
  OBVIOUS
<1>1. phone \in [mode : {"away", "plain", "switching", "accessory"}, device : 0..(2 * MaxPlugs),
                 plugs : 0..MaxPlugs, sent : 0..MaxCommands]
  <2>1. /\ phone.device \in Nat /\ phone.device <= 2 * MaxPlugs
        /\ phone.sent \in Nat /\ phone.sent <= MaxCommands
    BY DeviceBound DEF HandleInv, PhoneOK, CountInv, BusInv
  <2>2. phone.device \in 0..(2 * MaxPlugs) /\ phone.sent \in 0..MaxCommands
    BY <2>1, BoundsAssumption
  <2> QED
    BY <2>2 DEF HandleInv, PhoneOK
<1>2. fw.device \in Devices \cup {Null}
  BY BoundsAssumption DEF HandleInv, FwOK, CountInv, BusInv, Devices, Null
<1>3. fw.score_red \in 0..MaxGoals /\ fw.score_blue \in 0..MaxGoals
  <2>1. Len(Goals(history)) <= MaxGoals
    <3>1. Goals(history) \in Seq(Events) /\ Only(keys.stdin, Teams) \in Seq(Letters)
      BY OnlySeq DEF Goals, CountInv, ListsOK
    <3>2. Len(keys.typed) = Len(Goals(history)) + Len(Only(keys.stdin, Teams))
      BY <3>1 DEF CountInv, PressInv, EveryPressCounts
    <3>3. Len(Goals(history)) \in Nat /\ Len(Only(keys.stdin, Teams)) \in Nat
      BY <3>1
    <3> QED
      BY <3>2, <3>3, BoundsAssumption DEF CountInv, PressInv
  <2>2. history \in Seq(Events)
    BY DEF CountInv, ListsOK
  <2>3. \A team \in Teams : Len(Only(Since(history), {team})) \in 0..Len(Goals(history))
    BY <2>2, SinceGoals
  <2>4. fw.score_red \in 0..Len(Goals(history)) /\ fw.score_blue \in 0..Len(Goals(history))
    BY <2>3 DEF CountInv, ScoreInv, Teams
  <2>5. Len(Goals(history)) \in Nat
    BY <2>2, OnlySeq DEF Goals
  <2> QED
    BY <2>1, <2>4, <2>5, BoundsAssumption
<1>4. fw \in [pc : Places, goal : Teams \cup {None}, device : Devices \cup {Null},
              score_red : 0..MaxGoals, score_blue : 0..MaxGoals]
  BY <1>2, <1>3 DEF HandleInv, FwOK
<1> QED
  BY <1>1, <1>4 DEF TypeOK, HandleInv, AccOK, OpenOK, CountInv, BusInv, ListsOK,
     Kinds, Letters, Events

LEMMA Counted == Spec => [](HandleInv /\ CountInv)
<1>1. setup => HandleInv /\ CountInv
  BY InitHandle, InitCounts
<1>2. HandleInv /\ CountInv /\ [Next]_vars => (HandleInv /\ CountInv)'
  BY HandleSteps, CountSteps
<1> QED
  BY <1>1, <1>2, PTL DEF Spec
-----------------------------------------------------------------------------
\* A phone in accessory mode is open once, in the connection there is, and every way
\* out of it (an error, a phone that is gone, the end of the program) closes it.
THEOREM HandleCorrect == Spec => []OneHandle
<1>1. HandleInv => OneHandle
  BY DEF HandleInv
<1> QED
  BY <1>1, Counted, PTL

\* Every variable keeps its type: the scores count no more goals than were typed,
\* whatever the phone asks for and however often a game begins.
THEOREM TypeCorrect == Spec => []TypeOK
BY Counted, CountTypes, PTL

\* Every goal typed is counted once and in its order, by two sensors that read one
\* stdin, and none is made up.
THEOREM PressCorrect == Spec => []EveryPressCounts
<1>1. CountInv => EveryPressCounts
  BY DEF CountInv, PressInv
<1> QED
  BY <1>1, Counted, PTL

\* A SCORE_RESP on the phone has each team's goals since the last NEW_GAME before it,
\* as far as a char holds them, over any number of connections.
THEOREM RespCorrect == Spec => []ScoreRespIsScore
<1>1. CountInv => ScoreRespIsScore
  BY DEF CountInv, RespInv, ScoreRespIsScore
<1> QED
  BY <1>1, Counted, PTL

\* The goals reach the phone at most once each and only if they fell: the loop, its
\* accessory and the cable implement LossyLink.
THEOREM GoalsCorrect == Spec => GoalsReachThePhoneOnce
<1>1. setup => GoalLink!Init
  <2> SUFFICES ASSUME setup PROVE GoalLink!Init
    OBVIOUS
  <2>1. history = <<>> /\ received = <<>>
    BY DEF setup, Init
  <2>2. Goals(history) = <<>> /\ ReceivedGoals = <<>>
    BY <2>1, OnlyEmpty DEF Goals, ReceivedGoals
  <2> QED
    BY <2>2 DEF GoalLink!Init
<1>2. HandleInv /\ CountInv /\ [Next]_vars
        => [GoalLink!Next]_<<Len(Goals(history)), [i \in DOMAIN ReceivedGoals |-> ReceivedGoals[i].n]>>
  BY CountSteps DEF Got
<1> QED
  BY <1>1, <1>2, Counted, PTL DEF Spec, GoalsReachThePhoneOnce, GoalLink!Spec
=============================================================================
