--------------------------- MODULE UsbClientsProofs ---------------------------
(***************************************************************************)
(* Proofs about the two activities as clients of the service: an activity  *)
(* that believes it is bound hears the goals, and no disconnected screen   *)
(* that listens is left in the task beside an open accessory, for any      *)
(* number of activities, pluggings and visits of the user.                 *)
(*                                                                         *)
(* The argument: a screen that is launched is nobody's listener yet, and   *)
(* the service tells its listeners whenever it may have an accessory, so   *)
(* that the task is cleared of those that would show the opposite.         *)
(***************************************************************************)
EXTENDS UsbClients, UsbServiceProofs, FiniteSetTheorems

ActType == [kind : Kinds, life : Lives, mBound : BOOLEAN]
UiType  == [task : Seq(Clients), shown : BOOLEAN, acts : [Clients -> ActType]]

ClientsInv == ServiceInv /\ Ui \in UiType /\ BoundHears /\ NotDisconnectedScreen

\* No list of the service has the activity.
Unheard(o) == \A i \in 1..MaxInstances : <<o, i>> \notin listeners

\* What the screens become: every activity is one there was, of the same kind
\* and not bound since, or a new one.
Follows(u) ==
  /\ u \in UiType
  /\ \A o \in Clients :
       \/ u.acts[o].kind = acts[o].kind /\ (u.acts[o].mBound => acts[o].mBound)
       \/ Unheard(o) /\ ~u.acts[o].mBound
  /\ \A o \in ToSet(u.task) : o \in ToSet(task) \/ Unheard(o)
-----------------------------------------------------------------------------
\* The activities of a task.
LEMMA InToSet ==
  ASSUME NEW s \in Seq(Clients)
  PROVE  /\ ToSet(s) \subseteq Clients
         /\ \A o : o \in ToSet(s) <=> \E i \in 1..Len(s) : s[i] = o
<1>1. DOMAIN s = 1..Len(s) /\ \A i \in 1..Len(s) : s[i] \in Clients
  OBVIOUS
<1>2. QED
  BY <1>1 DEF ToSet

LEMMA ToSetAppend ==
  ASSUME NEW s \in Seq(Clients), NEW o \in Clients
  PROVE  Append(s, o) \in Seq(Clients) /\ ToSet(Append(s, o)) = ToSet(s) \cup {o}
<1>1. /\ Append(s, o) \in Seq(Clients) /\ Len(Append(s, o)) = Len(s) + 1 /\ Len(s) \in Nat
      /\ \A i \in 1..Len(s) : Append(s, o)[i] = s[i]
      /\ Append(s, o)[Len(s) + 1] = o
      /\ \A i \in 1..(Len(s) + 1) : i \in 1..Len(s) \/ i = Len(s) + 1
  BY AtEnd
<1>2. ASSUME NEW p PROVE p \in ToSet(Append(s, o)) <=> p \in ToSet(s) \/ p = o
  <2>1. p \in ToSet(Append(s, o)) <=> \E i \in 1..(Len(s) + 1) : Append(s, o)[i] = p
    BY <1>1, InToSet
  <2>2. p \in ToSet(s) <=> \E i \in 1..Len(s) : s[i] = p
    BY InToSet
  <2>3. Len(s) + 1 \in 1..(Len(s) + 1) /\ 1..Len(s) \subseteq 1..(Len(s) + 1)
    BY <1>1
  <2>4. QED
    BY <1>1, <2>1, <2>2, <2>3
<1>3. QED
  BY <1>1, <1>2

LEMMA ToSetFront ==
  ASSUME NEW s \in Seq(Clients), s # <<>>
  PROVE  Front(s) \in Seq(Clients) /\ ToSet(Front(s)) \subseteq ToSet(s)
<1>1. Len(s) \in Nat /\ Len(s) > 0
  BY EmptySeq, LenProperties
<1> DEFINE n == Len(s) - 1
<1>2. /\ Front(s) \in Seq(Clients) /\ Len(Front(s)) = n
      /\ \A i \in 1..n : Front(s)[i] = s[i]
  <2>1. 1 \in Int /\ n \in Int /\ n >= 0 /\ \A i \in 1..n : s[i] \in Clients
    BY <1>1
  <2>2. Front(s) = SubSeq(s, 1, n)
    BY DEF Front
  <2> HIDE DEF n
  <2>3. /\ SubSeq(s, 1, n) \in Seq(Clients)
        /\ Len(SubSeq(s, 1, n)) = IF 1 <= n THEN n - 1 + 1 ELSE 0
        /\ \A i \in 1..(n - 1 + 1) : SubSeq(s, 1, n)[i] = s[1 + i - 1]
    BY <2>1, SubSeqProperties
  <2>4. \A i \in 1..n : i \in 1..(n - 1 + 1) /\ 1 + i - 1 = i
    BY <2>1
  <2>5. QED
    BY <2>1, <2>2, <2>3, <2>4
<1>3. 1..n \subseteq 1..Len(s)
  BY <1>1
<1>4. QED
  BY <1>2, <1>3, InToSet

\* A new activity is in a slot that is free: no list has it.
LEMMA SlotIsFree ==
  ASSUME NEW u, Free(u) # {}
  PROVE  Slot(u) \in Free(u) /\ Slot(u) \in Clients /\ Unheard(Slot(u))
<1>1. Slot(u) \in Free(u)
  BY DEF Slot
<1>2. QED
  BY <1>1 DEF Free, Unheard

LEMMA PushFollows ==
  ASSUME NEW u, Follows(u), Free(u) # {}, NEW kind \in Kinds, NEW below \in Seq(Clients),
         ToSet(below) \subseteq ToSet(u.task)
  PROVE  /\ Follows(Push(u, below, kind))
         /\ ToSet(Push(u, below, kind).task) = ToSet(below) \cup {Slot(u)}
<1> DEFINE s == Slot(u)
           v == Push(u, below, kind)
<1>1. s \in Clients /\ Unheard(s)
  BY SlotIsFree
<1>2. NewAct(kind) \in ActType /\ ~NewAct(kind).mBound
  BY DEF NewAct, ActType, Lives
<1>3. u.acts \in [Clients -> ActType]
  BY DEF Follows, UiType
<1>4. /\ v.task = Append(below, s) /\ v.acts = [u.acts EXCEPT ![s] = NewAct(kind)]
      /\ v = [task |-> Append(below, s), shown |-> TRUE,
              acts |-> [u.acts EXCEPT ![s] = NewAct(kind)]]
  BY DEF Push
<1>5. v.task \in Seq(Clients) /\ ToSet(v.task) = ToSet(below) \cup {s}
  BY <1>1, <1>4, ToSetAppend
<1> HIDE DEF s, v
<1>6. /\ v.acts \in [Clients -> ActType]
      /\ \A o \in Clients : v.acts[o] = IF o = s THEN NewAct(kind) ELSE u.acts[o]
  BY <1>1, <1>2, <1>3, <1>4
<1>7. v \in UiType
  <2>1. ASSUME NEW t \in Seq(Clients), NEW a \in [Clients -> ActType]
        PROVE  [task |-> t, shown |-> TRUE, acts |-> a] \in UiType
    BY DEF UiType
  <2>2. QED
    BY <1>4, <1>5, <1>6, <2>1
<1>8. \A o \in Clients :
        \/ v.acts[o].kind = acts[o].kind /\ (v.acts[o].mBound => acts[o].mBound)
        \/ Unheard(o) /\ ~v.acts[o].mBound
  BY <1>1, <1>2, <1>6 DEF Follows
<1>9. \A o \in ToSet(v.task) : o \in ToSet(task) \/ Unheard(o)
  BY <1>1, <1>5 DEF Follows
<1>10. Follows(v)
  BY <1>7, <1>8, <1>9 DEF Follows
<1>11. QED
  BY <1>5, <1>10 DEF v, s

LEMMA ClearFollows ==
  ASSUME NEW u, Follows(u), Free(u) # {}, NEW kind \in Kinds
  PROVE  /\ Follows(ClearTask(u, kind))
         /\ \A o \in ToSet(ClearTask(u, kind).task) : Unheard(o)
<1>1. <<>> \in Seq(Clients) /\ ToSet(<<>>) = {}
  BY DEF ToSet
<1>2. ASSUME NEW below \in Seq(Clients), ToSet(below) = {}
      PROVE  /\ Follows(Push(u, below, kind))
             /\ ToSet(Push(u, below, kind).task) = {Slot(u)}
  BY <1>2, PushFollows
<1>3. QED
  BY <1>1, <1>2, SlotIsFree DEF ClearTask

LEMMA UiFollows == Ui \in UiType => Follows(Ui)
BY DEF Follows, Ui, UiType, ActType

\* Which slots are free depends on the task and on the lives.
LEMMA FreeSame ==
  ASSUME NEW u, NEW v, v.task = u.task, \A o \in Clients : v.acts[o].life = u.acts[o].life
  PROVE  Free(v) = Free(u)
BY DEF Free, InTask

LEMMA RoomForOne == Room(1) => Free(Ui) # {}
BY FS_EmptySet DEF Room

LEMMA StartScoreFollows ==
  ASSUME Ui \in UiType, Free(Ui) # {}
  PROVE  Follows(StartScore(Ui))
<1>1. Follows(Ui) /\ Free(Ui) # {} /\ Ui.task \in Seq(Clients)
  BY UiFollows DEF UiType
<1>2. Follows([Ui EXCEPT !.shown = TRUE])
  BY <1>1 DEF Follows, UiType
<1>3. Follows(Push(Ui, Ui.task, "score"))
  BY <1>1, PushFollows DEF Kinds
<1>4. QED
  BY <1>2, <1>3 DEF StartScore

\* After the score screen has taken a slot there is one for what is told next.
LEMMA RoomForTwo ==
  ASSUME Ui \in UiType, Room(2)
  PROVE  Free(Ui) # {} /\ Free(StartScore(Ui)) # {}
<1> DEFINE s == Slot(Ui)
           v == Push(Ui, Ui.task, "score")
<1>1. PICK o \in Free(Ui) : o # s
  <2>1. SUFFICES ASSUME Free(Ui) \subseteq {s} PROVE FALSE
    OBVIOUS
  <2>2. Free(Ui) = {} \/ Free(Ui) = {s}
    BY <2>1
  <2>3. Cardinality(Free(Ui)) = 0 \/ Cardinality(Free(Ui)) = 1
    BY <2>2, FS_EmptySet, FS_Singleton
  <2>4. QED
    BY <2>3 DEF Room
<1>2. Free(Ui) # {}
  BY <1>1
<1>3. Ui.task \in Seq(Clients) /\ Ui.acts \in [Clients -> ActType]
  BY DEF UiType
<1>4. /\ s \in Clients /\ o \in Clients /\ o \notin ToSet(Ui.task) /\ Ui.acts[o].life = "none"
      /\ o \notin bound /\ \A i \in 1..MaxInstances : <<o, i>> \notin listeners
  BY <1>1, SlotIsFree DEF Free, InTask
<1>5. v.task = Append(Ui.task, s) /\ v.acts = [Ui.acts EXCEPT ![s] = NewAct("score")]
  BY DEF Push
<1>6. ToSet(v.task) = ToSet(Ui.task) \cup {s}
  BY <1>3, <1>4, <1>5, ToSetAppend
<1>7. o \in Free(v)
  <2> HIDE DEF s, v
  <2>1. v.acts[o] = Ui.acts[o]
    BY <1>1, <1>3, <1>4, <1>5
  <2>2. QED
    BY <1>1, <1>4, <1>6, <2>1 DEF Free, InTask
<1>8. Free([Ui EXCEPT !.shown = TRUE]) = Free(Ui)
  BY FreeSame DEF Ui
<1>9. QED
  BY <1>1, <1>2, <1>7, <1>8 DEF StartScore

\* The listeners are told.
LEMMA TellFollows ==
  ASSUME NEW u, Follows(u), Free(u) # {}, NEW i
  PROVE  Follows(TellConnected(u)) /\ Follows(TellDisconnected(u, i))
BY ClearFollows DEF TellConnected, TellDisconnected, Kinds

\* Once they have been told of an accessory no disconnected screen that listens
\* is in the task.
LEMMA ToldConnected ==
  ASSUME NEW u, Follows(u), Free(u) # {}, service.instance \in 1..MaxInstances,
         NEW o \in ToSet(TellConnected(u).task), o \in Clients,
         <<o, service.instance>> \in listeners
  PROVE  TellConnected(u).acts[o].kind # "disconnected"
<1>1. ~Unheard(o)
  BY DEF Unheard
<1>2. CASE \E p \in Clients : Listens(p, service.instance, "disconnected")
  BY <1>1, <1>2, ClearFollows DEF TellConnected, Kinds
<1>3. CASE ~\E p \in Clients : Listens(p, service.instance, "disconnected")
  <2>1. TellConnected(u) = u
    BY <1>3 DEF TellConnected
  <2>2. acts[o].kind # "disconnected"
    BY <1>3 DEF Listens
  <2>3. QED
    BY <1>1, <2>1, <2>2 DEF Follows
<1>4. QED
  BY <1>2, <1>3

\* Closing leaves room for the screen it may launch.
LEMMA CloseFollows ==
  ASSUME Ui \in UiType, Free(Ui) # {}, NEW i, NEW u \in AfterClose(i)
  PROVE  Follows(u)
<1>1. Follows(TellDisconnected(Ui, i)) /\ Follows(Ui)
  BY UiFollows, TellFollows
<1>2. u = TellDisconnected(Ui, i) \/ u = Ui
  BY DEF AfterClose
<1>3. QED
  BY <1>1, <1>2
-----------------------------------------------------------------------------
\* What the invariant says of the screens.
LEMMA Facts ==
  ASSUME ClientsInv
  PROVE  /\ ServiceInv /\ Ui \in UiType /\ BoundHears /\ NotDisconnectedScreen
         /\ task \in Seq(Clients) /\ shown \in BOOLEAN /\ acts \in [Clients -> ActType]
         /\ Alive /\ ServiceOK /\ ClientsOK
         /\ service.alive => service.instance \in 1..MaxInstances
         /\ Ui.task = task /\ Ui.shown = shown /\ Ui.acts = acts
<1>1. /\ ServiceInv /\ Ui \in UiType /\ BoundHears /\ NotDisconnectedScreen
      /\ Alive /\ ServiceOK /\ ClientsOK
  BY Types DEF ClientsInv, ServiceInv
<1>2. Ui.task = task /\ Ui.shown = shown /\ Ui.acts = acts
  BY DEF Ui
<1>3. service.alive => service.instance \in 1..MaxInstances
  BY <1>1, UsbBounds DEF Alive, ServiceOK
<1>4. QED
  BY <1>1, <1>2, <1>3 DEF UiType

\* A step that launches screens, or lets bindings be: the instance that is alive
\* stays, or comes without an accessory.
LEMMA Launches ==
  ASSUME ClientsInv, ServiceInv', NEW u, Follows(u), Become(u),
         UNCHANGED listeners, bound \subseteq bound',
         service.alive => service'.alive /\ service'.instance = service.instance,
         \/ service'.accessory = Null
         \/ service.alive /\ service'.accessory = service.accessory
         \/ /\ service.alive
            /\ \A o \in ToSet(u.task) : <<o, service.instance>> \in listeners =>
                                          u.acts[o].kind # "disconnected"
  PROVE  ClientsInv'
<1>1. /\ BoundHears /\ NotDisconnectedScreen /\ task \in Seq(Clients)
      /\ acts \in [Clients -> ActType] /\ Alive
      /\ service.alive => service.instance \in 1..MaxInstances
  BY Facts
<1>2. task' = u.task /\ shown' = u.shown /\ acts' = u.acts
  BY DEF Become
<1>3. /\ u.task \in Seq(Clients) /\ u.shown \in BOOLEAN /\ u.acts \in [Clients -> ActType]
  BY DEF Follows, UiType
<1>4. (Ui \in UiType)'
  BY <1>2, <1>3 DEF Ui, UiType
<1>5. BoundHears'
  <2>1. SUFFICES ASSUME NEW o \in Clients, u.acts[o].mBound
                 PROVE  /\ service'.alive /\ o \in bound'
                        /\ <<o, service'.instance>> \in listeners
    BY <1>2 DEF BoundHears
  <2>2. acts[o].mBound
    BY <2>1 DEF Follows
  <2>3. QED
    BY <1>1, <2>2 DEF BoundHears
<1>6. NotDisconnectedScreen'
  <2>1. SUFFICES ASSUME NEW o \in Clients, o \in ToSet(u.task), service'.alive,
                        <<o, service'.instance>> \in listeners,
                        u.acts[o].kind = "disconnected", service'.accessory # Null
                 PROVE  FALSE
    BY <1>2 DEF NotDisconnectedScreen, Live, Listens
  <2>2. /\ service.alive /\ service'.instance = service.instance
        /\ service'.accessory = service.accessory
    BY <2>1
  <2>3. ~Unheard(o)
    BY <1>1, <2>1, <2>2 DEF Unheard
  <2>4. o \in ToSet(task) /\ acts[o].kind = "disconnected"
    BY <2>1, <2>3 DEF Follows
  <2>5. QED
    BY <1>1, <2>1, <2>2, <2>4 DEF NotDisconnectedScreen, Live, Listens
<1>7. QED
  BY <1>4, <1>5, <1>6 DEF ClientsInv

\* A step that leaves the screens alone.
LEMMA ScreensStay ==
  ASSUME ClientsInv, UNCHANGED uiVars
  PROVE  Follows(Ui) /\ Become(Ui)
BY Facts, UiFollows DEF uiVars, Become

\* The steps of the service that its activities are told of.
LEMMA ClosingInv == ClientsInv /\ Closing => ClientsInv'
<1> SUFFICES ASSUME ClientsInv, Closing PROVE ClientsInv'
  OBVIOUS
<1>1. ServiceInv /\ Ui \in UiType /\ BoundHears /\ ServiceOK
  BY Facts
<1>2. HandleError \/ HandleDetached \/ DestroyService
  BY DEF Closing, ErrorCloses, DetachedCloses, Destroy
<1>3. ServiceInv'
  BY <1>1, <1>2, MainThreadInv DEF MainThread
<1>4. PICK i : \E u \in AfterClose(i) : Become(u) /\ Free(Ui) # {}
  BY RoomForOne DEF Closing, ErrorCloses, DetachedCloses, Destroy
<1>5. PICK u : Follows(u) /\ Become(u)
  BY <1>1, <1>4, CloseFollows
<1>6. UNCHANGED listeners /\ UNCHANGED bound
  BY <1>2 DEF HandleError, HandleDetached, DestroyService
<1>7. CASE HandleError \/ HandleDetached
  <2>1. \/ /\ service'.alive = service.alive /\ service'.instance = service.instance
           /\ service'.accessory = Null
        \/ service' = service /\ (service.alive \/ service'.accessory = Null)
    <3>1. service' = Shut(service) \/ service' = service
      BY <1>7 DEF HandleError, HandleDetached
    <3>2. ~service.alive => service.accessory = Null
      BY <1>1 DEF ServiceInv, ConnectedIsOpen, OwnDescriptor
    <3>3. QED
      BY <1>1, <3>1, <3>2 DEF Shut, ServiceOK
  <2>2. QED
    BY <1>3, <1>5, <1>6, <2>1, Launches
<1>8. CASE DestroyService
  <2>1. bound = {} /\ service'.accessory = Null /\ ~service'.alive
    BY <1>1, <1>8 DEF DestroyService, Doomed, Shut, ServiceOK
  <2>2. u \in UiType /\ \A o \in Clients : ~u.acts[o].mBound
    BY <1>1, <1>5, <2>1 DEF Follows, BoundHears
  <2>3. (Ui \in UiType)'
    BY <1>5, <2>2 DEF Become, Ui, UiType
  <2>4. BoundHears' /\ NotDisconnectedScreen'
    BY <1>5, <2>1, <2>2 DEF Become, BoundHears, NotDisconnectedScreen
  <2>5. QED
    BY <1>3, <2>3, <2>4 DEF ClientsInv
<1>9. QED
  BY <1>2, <1>7, <1>8

\* An attempt to attach tells the listeners when there is an accessory.
LEMMA AttachInvClients ==
  ASSUME ClientsInv, ServiceInv', service.alive, NEW outcome \in Outcomes, Attach(outcome),
         UNCHANGED <<listeners, bound>>, NEW v, Follows(v), Free(v) # {},
         Become(AfterOutcome(v, outcome))
  PROVE  ClientsInv'
<1> DEFINE u == AfterOutcome(v, outcome)
<1>1. service.instance \in 1..MaxInstances /\ ServiceOK
  BY Facts
<1>2. service' = AfterAttach(service, outcome)
  BY DEF Attach
<1>3. service'.alive = service.alive /\ service'.instance = service.instance
  BY <1>1, <1>2 DEF AfterAttach, ServiceOK
<1>4. CASE outcome \in {"none", "refused"}
  <2>1. service'.accessory = Null
    BY <1>1, <1>2, <1>4 DEF AfterAttach, ServiceOK
  <2>2. u = v
    BY <1>4 DEF AfterOutcome
  <2>3. QED
    BY <1>3, <2>1, <2>2, Launches
<1>5. CASE outcome \in {"kept", "opened"}
  <2>1. u = TellConnected(v)
    BY <1>5 DEF AfterOutcome
  <2>2. Follows(TellConnected(v))
    BY TellFollows
  <2>3. \A o \in ToSet(TellConnected(v).task) :
          <<o, service.instance>> \in listeners => TellConnected(v).acts[o].kind # "disconnected"
    <3>1. TellConnected(v).task \in Seq(Clients)
      BY <2>2 DEF Follows, UiType
    <3>2. ToSet(TellConnected(v).task) \subseteq Clients
      BY <3>1, InToSet
    <3>3. QED
      BY <1>1, <3>2, ToldConnected
  <2>4. QED
    BY <1>3, <2>1, <2>2, <2>3, Launches
<1>6. QED
  BY <1>4, <1>5 DEF Outcomes

LEMMA AttemptInv ==
  ASSUME ClientsInv, NEW outcome \in Outcomes, Command(outcome) \/ Rebind(outcome)
  PROVE  ClientsInv'
<1>1. ServiceInv /\ Ui \in UiType /\ Alive
  BY Facts
<1>2. HandleCommand(outcome) \/ HandleRebind(outcome)
  BY DEF Command, Rebind
<1>3. ServiceInv'
  BY <1>1, <1>2, MainThreadInv DEF MainThread
<1>4. service.alive /\ Attach(outcome) /\ UNCHANGED <<listeners, bound>>
  BY <1>1, <1>2 DEF HandleCommand, HandleRebind, Alive
<1>5. CASE Command(outcome)
  <2>1. Free(Ui) # {} /\ Free(StartScore(Ui)) # {}
    BY <1>1, <1>5, RoomForTwo DEF Command
  <2>2. Follows(StartScore(Ui)) /\ Become(AfterOutcome(StartScore(Ui), outcome))
    BY <1>1, <1>5, <2>1, StartScoreFollows DEF Command
  <2>3. QED
    BY <1>3, <1>4, <2>1, <2>2, AttachInvClients
<1>6. CASE Rebind(outcome)
  <2>1. Free(Ui) # {} /\ Follows(Ui) /\ Become(AfterOutcome(Ui, outcome))
    BY <1>1, <1>6, RoomForOne, UiFollows DEF Rebind
  <2>2. QED
    BY <1>3, <1>4, <2>1, AttachInvClients
<1>7. QED
  BY <1>5, <1>6

\* The steps of the service that no activity is told of.
LEMMA AloneInv == ClientsInv /\ ServiceAlone => ClientsInv'
<1> SUFFICES ASSUME ClientsInv, ServiceAlone PROVE ClientsInv'
  OBVIOUS
<1>1. ServiceInv /\ ServiceOK /\ Follows(Ui) /\ Become(Ui)
  BY Facts, ScreensStay DEF ServiceAlone
<1>2. Environment \/ (\E c \in Conns : Reader(c)) \/ HandleMessage \/ StartService
  BY DEF ServiceAlone
<1>3. ServiceInv'
  BY <1>1, <1>2, EnvironmentInv, ReaderInv, MainThreadInv DEF MainThread
<1>4. UNCHANGED <<listeners, bound>>
  BY <1>2 DEF Environment, Plug, TableWrites, Unplug, NoticeUnplug, Reader, ReadMessage,
     PostMessage, ReadFails, ReadEnds, HandleMessage, StartService
<1>5. ~service.alive => service.accessory = Null
  BY <1>1 DEF ServiceInv, ConnectedIsOpen, OwnDescriptor
<1>6. CASE StartService
  <2>1. service' = [Created EXCEPT !.started = TRUE]
    BY <1>6 DEF StartService
  <2>2. CASE service.alive
    BY <1>1, <1>3, <1>4, <2>1, <2>2, Launches DEF Created, ServiceOK
  <2>3. CASE ~service.alive
    BY <1>1, <1>3, <1>4, <2>1, <2>3, Launches DEF Created, Fresh
  <2>4. QED
    BY <2>2, <2>3
<1>7. CASE ~StartService
  <2>1. service' = service
    BY <1>2, <1>7 DEF Environment, Plug, TableWrites, Unplug, NoticeUnplug, Reader,
       ReadMessage, PostMessage, ReadFails, ReadEnds, HandleMessage
  <2>2. QED
    BY <1>1, <1>3, <1>4, <1>5, <2>1, Launches
<1>8. QED
  BY <1>6, <1>7
-----------------------------------------------------------------------------
\* One activity changes its record.
LEMMA SetActMoves ==
  ASSUME ClientsInv, NEW o \in Clients, NEW act \in ActType, SetAct(o, act)
  PROVE  /\ UNCHANGED <<task, shown>> /\ (Ui \in UiType)'
         /\ acts'[o] = act /\ \A p \in Clients : p # o => acts'[p] = acts[p]
<1>1. task \in Seq(Clients) /\ shown \in BOOLEAN /\ acts \in [Clients -> ActType]
  BY Facts
<1>2. UNCHANGED <<task, shown>> /\ acts' = [acts EXCEPT ![o] = act]
  BY DEF SetAct
<1>3. acts' \in [Clients -> ActType]
  BY <1>1, <1>2
<1>4. (Ui \in UiType)'
  BY <1>1, <1>2, <1>3 DEF Ui, UiType
<1>5. QED
  BY <1>1, <1>2, <1>4

\* A callback that leaves the service alone, or binds.
LEMMA ActMoves ==
  ASSUME ClientsInv, ServiceInv', NEW o \in Clients, NEW act \in ActType, SetAct(o, act),
         act.kind = acts[o].kind, act.mBound => acts[o].mBound,
         UNCHANGED listeners, bound \subseteq bound',
         service.alive => service'.alive /\ service'.instance = service.instance,
         \/ service'.accessory = Null
         \/ service.alive /\ service'.accessory = service.accessory
  PROVE  ClientsInv'
<1>1. /\ UNCHANGED <<task, shown>> /\ (Ui \in UiType)'
      /\ acts'[o] = act /\ \A p \in Clients : p # o => acts'[p] = acts[p]
  BY SetActMoves
<1> DEFINE u == [task |-> task', shown |-> shown', acts |-> acts']
<1>2. u \in UiType /\ u.task = task' /\ u.shown = shown' /\ u.acts = acts'
  BY <1>1 DEF Ui
<1> HIDE DEF u
<1>3. Follows(u) /\ Become(u)
  BY <1>1, <1>2 DEF Follows, Become
<1>4. QED
  BY <1>3, Launches

\* onStop and onDestroy: the activity unbinds, and is not in the list, or is in
\* one that is not told of it any more.
LEMMA UnbindMoves ==
  ASSUME ClientsInv, ServiceInv', NEW o \in Clients, NEW act \in ActType, SetAct(o, act),
         act.kind = acts[o].kind, ~act.mBound,
         UNCHANGED service, bound' = bound \ {o},
         \/ UNCHANGED listeners
         \/ listeners' = listeners \ {<<o, service.instance>>}
  PROVE  ClientsInv'
<1>1. /\ UNCHANGED <<task, shown>> /\ (Ui \in UiType)'
      /\ acts'[o] = act /\ \A p \in Clients : p # o => acts'[p] = acts[p]
  BY SetActMoves
<1>2. BoundHears /\ NotDisconnectedScreen
  BY Facts
<1>3. BoundHears'
  BY <1>1, <1>2 DEF BoundHears
<1>4. NotDisconnectedScreen'
  BY <1>1, <1>2 DEF NotDisconnectedScreen, Live, Listens
<1>5. QED
  BY <1>1, <1>3, <1>4 DEF ClientsInv

LEMMA OnStartInv ==
  ASSUME ClientsInv, NEW o \in Clients, OnStart(o)
  PROVE  ClientsInv'
<1>1. ServiceInv /\ ServiceOK /\ acts[o] \in ActType
  BY Facts
<1>2. Bind(o) /\ UNCHANGED listeners /\ SetAct(o, [acts[o] EXCEPT !.life = "started"])
  BY DEF OnStart
<1>3. ServiceInv'
  BY <1>1, <1>2, ClientInv DEF Binds
<1>4. /\ [acts[o] EXCEPT !.life = "started"] \in ActType
      /\ [acts[o] EXCEPT !.life = "started"].kind = acts[o].kind
      /\ [acts[o] EXCEPT !.life = "started"].mBound = acts[o].mBound
  BY <1>1 DEF ActType, Lives
<1>5. bound \subseteq bound' /\ service' = Created
  BY <1>2 DEF Bind
<1>6. /\ service.alive => service'.alive /\ service'.instance = service.instance
      /\ \/ service'.accessory = Null
         \/ service.alive /\ service'.accessory = service.accessory
  BY <1>5 DEF Created, Fresh
<1>7. QED
  BY <1>2, <1>3, <1>4, <1>5, <1>6, ActMoves

LEMMA OnStopInv ==
  ASSUME ClientsInv, NEW o \in Clients, OnStop(o) \/ OnDestroy(o)
  PROVE  ClientsInv'
<1>1. ServiceInv /\ acts[o] \in ActType /\ BoundHears
  BY Facts
<1>2. PICK life \in Lives : SetAct(o, [acts[o] EXCEPT !.life = life, !.mBound = FALSE])
  BY DEF OnStop, OnDestroy, Lives
<1> DEFINE act == [acts[o] EXCEPT !.life = life, !.mBound = FALSE]
<1>3. act \in ActType /\ act.kind = acts[o].kind /\ ~act.mBound
  BY <1>1 DEF ActType
<1> HIDE DEF act
<1>4. SetAct(o, act)
  BY <1>2 DEF act
<1>5. CASE Leave(o) \/ Abandon(o)
  <2>1. ServiceInv'
    BY <1>1, <1>5, ClientInv
  <2>2. /\ UNCHANGED service /\ bound' = bound \ {o}
        /\ \/ UNCHANGED listeners
           \/ listeners' = listeners \ {<<o, service.instance>>}
    BY <1>5 DEF Leave, Abandon, Unbind
  <2>3. QED
    BY <1>3, <1>4, <2>1, <2>2, UnbindMoves
<1>6. CASE UNCHANGED usbVars
  <2>1. ServiceInv'
    BY <1>1, <1>6 DEF usbVars, ServiceInv, TypeOK, Plugged, Alive, Numbered, Holding,
       ConnectedIsOpen, OwnDescriptor
  <2>2. UNCHANGED <<service, bound, listeners>>
    BY <1>6 DEF usbVars
  <2>3. ~service.alive => service.accessory = Null
    BY <1>1 DEF ServiceInv, ConnectedIsOpen, OwnDescriptor
  <2>4. QED
    BY <1>3, <1>4, <2>1, <2>2, <2>3, ActMoves
<1>7. QED
  BY <1>5, <1>6 DEF OnStop, OnDestroy

\* onServiceConnected: the activity joins the list of the instance that is alive,
\* and gives way at once when it is the wrong one.
LEMMA ConnectedInv ==
  ASSUME ClientsInv, NEW o \in Clients, OnServiceConnected(o)
  PROVE  ClientsInv'
<1> DEFINE b == [Ui EXCEPT !.acts[o].mBound = TRUE]
<1>1. /\ ServiceInv /\ BoundHears /\ NotDisconnectedScreen /\ Alive /\ ServiceOK
      /\ task \in Seq(Clients) /\ shown \in BOOLEAN /\ acts \in [Clients -> ActType]
      /\ service.alive => service.instance \in 1..MaxInstances
      /\ Ui \in UiType
  BY Facts
<1>2. /\ Listen(o) /\ Room(1) /\ acts[o].life # "none"
      /\ Become(IF service.accessory # Null /\ acts[o].kind = "disconnected"
                THEN ClearTask(b, "score") ELSE b)
  BY DEF OnServiceConnected
<1>3. ServiceInv'
  BY <1>1, <1>2, ClientInv
<1>4. /\ o \in bound /\ listeners' = listeners \cup {<<o, service.instance>>}
      /\ UNCHANGED <<service, bound>> /\ service.alive
      /\ service.instance \in 1..MaxInstances
  BY <1>1, <1>2 DEF Listen, Alive
<1> DEFINE act == [acts[o] EXCEPT !.mBound = TRUE]
<1>5. act \in ActType /\ act.kind = acts[o].kind /\ act.life = acts[o].life
  BY <1>1 DEF ActType
<1>6. /\ b = [task |-> task, shown |-> shown, acts |-> [acts EXCEPT ![o] = act]]
      /\ b.task = task /\ b.shown = shown /\ b.acts = [acts EXCEPT ![o] = act]
  <2>1. b = [Ui EXCEPT !.acts = [Ui.acts EXCEPT ![o] = [Ui.acts[o] EXCEPT !.mBound = TRUE]]]
    OBVIOUS
  <2>2. Ui.task = task /\ Ui.shown = shown /\ Ui.acts = acts
    BY DEF Ui
  <2>3. b = [Ui EXCEPT !.acts = [acts EXCEPT ![o] = act]]
    BY <2>1, <2>2
  <2> HIDE DEF b, act
  <2>4. Ui = [task |-> task, shown |-> shown, acts |-> acts]
    BY DEF Ui
  <2>5. b = [task |-> task, shown |-> shown, acts |-> [acts EXCEPT ![o] = act]]
    BY <2>3, <2>4
  <2>6. QED
    BY <2>5
<1> HIDE DEF b, act
<1>7. /\ b \in UiType /\ b.acts \in [Clients -> ActType]
      /\ b.acts[o] = act /\ \A p \in Clients : p # o => b.acts[p] = acts[p]
  <2>1. [acts EXCEPT ![o] = act] \in [Clients -> ActType]
    BY <1>1, <1>5
  <2>2. QED
    BY <1>1, <1>6, <2>1 DEF UiType
<1>8. CASE ~(service.accessory # Null /\ acts[o].kind = "disconnected")
  <2>1. task' = task /\ shown' = shown /\ acts' = b.acts
    BY <1>2, <1>6, <1>8 DEF Become
  <2>2. (Ui \in UiType)'
    BY <1>1, <1>7, <2>1 DEF Ui, UiType
  <2>3. BoundHears'
    BY <1>1, <1>4, <1>7, <2>1 DEF BoundHears
  <2>4. NotDisconnectedScreen'
    BY <1>1, <1>4, <1>5, <1>7, <1>8, <2>1 DEF NotDisconnectedScreen, Live, Listens
  <2>5. QED
    BY <1>3, <2>2, <2>3, <2>4 DEF ClientsInv
<1>9. CASE service.accessory # Null /\ acts[o].kind = "disconnected"
  <2> DEFINE s == Slot(b)
             v == ClearTask(b, "score")
  <2>1. Free(b) = Free(Ui) /\ Free(Ui) # {}
    <3>1. Ui.task = task /\ Ui.acts = acts
      BY DEF Ui
    <3>2. \A p \in Clients : b.acts[p].life = Ui.acts[p].life
      BY <1>5, <1>7, <3>1
    <3>3. Free(b) = Free(Ui)
      BY <1>6, <3>1, <3>2, FreeSame
    <3>4. QED
      BY <1>2, <3>3, RoomForOne
  <2>2. s \in Clients /\ Unheard(s) /\ b.acts[s].life = "none"
    BY <2>1, SlotIsFree DEF Free
  <2>3. s # o
    BY <1>2, <1>5, <1>7, <2>2
  <2>4. v.task = Append(<<>>, s) /\ v.acts = [b.acts EXCEPT ![s] = NewAct("score")]
        /\ v.shown = TRUE
    BY DEF ClearTask, Push
  <2>5. /\ NewAct("score") \in ActType /\ ~NewAct("score").mBound
    BY DEF NewAct, ActType, Kinds, Lives
  <2>6. task' = v.task /\ shown' = v.shown /\ acts' = v.acts
    BY <1>2, <1>9 DEF Become
  <2> HIDE DEF v, s
  <2>7. /\ v.acts \in [Clients -> ActType]
        /\ \A p \in Clients : v.acts[p] = IF p = s THEN NewAct("score") ELSE b.acts[p]
    BY <1>7, <2>2, <2>4, <2>5
  <2>8. v.task \in Seq(Clients) /\ ToSet(v.task) = {s}
    <3>1. <<>> \in Seq(Clients) /\ ToSet(<<>>) = {}
      BY DEF ToSet
    <3>2. ASSUME NEW e \in Seq(Clients), ToSet(e) = {}
          PROVE  Append(e, s) \in Seq(Clients) /\ ToSet(Append(e, s)) = {s}
      BY <2>2, <3>2, ToSetAppend
    <3>3. QED
      BY <2>4, <3>1, <3>2
  <2>9. (Ui \in UiType)'
    BY <2>4, <2>6, <2>7, <2>8 DEF Ui, UiType
  <2>10. BoundHears'
    BY <1>1, <1>4, <1>7, <2>3, <2>5, <2>6, <2>7 DEF BoundHears
  <2>11. NotDisconnectedScreen'
    <3>1. <<s, service.instance>> \notin listeners'
      BY <1>4, <2>2, <2>3 DEF Unheard
    <3>2. QED
      BY <1>4, <2>6, <2>8, <3>1 DEF NotDisconnectedScreen, Live, Listens
  <2>12. QED
    BY <1>3, <2>9, <2>10, <2>11 DEF ClientsInv
<1>10. QED
  BY <1>8, <1>9

\* What the user does.
LEMMA UserInv == ClientsInv /\ User => ClientsInv'
<1> SUFFICES ASSUME ClientsInv, User PROVE ClientsInv'
  OBVIOUS
<1>1. /\ ServiceInv /\ Ui \in UiType /\ task \in Seq(Clients)
      /\ acts \in [Clients -> ActType] /\ shown \in BOOLEAN
      /\ Ui.task = task /\ Ui.shown = shown /\ Ui.acts = acts
  BY Facts
<1>2. UNCHANGED usbVars
  BY DEF User, OpenApp, OpenNotification, Home, Back
<1>3. ServiceInv' /\ UNCHANGED <<service, bound, listeners>>
  BY <1>1, <1>2 DEF usbVars, ServiceInv, TypeOK, Plugged, Alive, Numbered, Holding,
     ConnectedIsOpen, OwnDescriptor
<1>4. ~service.alive => service.accessory = Null
  BY <1>1 DEF ServiceInv, ConnectedIsOpen, OwnDescriptor
<1>5. Follows(Ui)
  BY <1>1, UiFollows
<1>6. \E u : Follows(u) /\ Become(u)
  <2>1. CASE OpenApp
    <3>1. Free(Ui) # {}
      BY <2>1, RoomForOne DEF OpenApp
    <3>2. Follows(ClearTask(Ui, "disconnected"))
      BY <1>5, <3>1, ClearFollows DEF Kinds
    <3>3. Follows([Ui EXCEPT !.shown = TRUE])
      BY <1>5 DEF Follows, UiType
    <3>4. Follows(Push(Ui, task, "disconnected"))
      BY <1>1, <1>5, <3>1, PushFollows DEF Kinds
    <3>5. QED
      BY <2>1, <3>2, <3>3, <3>4 DEF OpenApp
  <2>2. CASE OpenNotification
    BY <1>1, <2>2, RoomForOne, StartScoreFollows DEF OpenNotification
  <2>3. CASE Home \/ Back
    <3> DEFINE u == [task |-> task', shown |-> shown', acts |-> acts]
    <3>1. task' \in Seq(Clients) /\ ToSet(task') \subseteq ToSet(task) /\ shown' \in BOOLEAN
      <4>1. CASE Home
        BY <1>1, <4>1 DEF Home
      <4>2. CASE Back
        <5>1. task # <<>> /\ task' = Front(task) /\ shown' \in BOOLEAN
          BY <4>2 DEF Back
        <5>2. QED
          BY <1>1, <5>1, ToSetFront
      <4>3. QED
        BY <2>3, <4>1, <4>2
    <3>2. u \in UiType /\ u.task = task' /\ u.acts = acts /\ u.shown = shown'
      BY <1>1, <3>1 DEF UiType
    <3>3. acts' = acts
      BY <2>3 DEF Home, Back
    <3> HIDE DEF u
    <3>4. Follows(u) /\ Become(u)
      BY <3>1, <3>2, <3>3 DEF Follows, Become
    <3>5. QED
      BY <3>4
  <2>4. QED
    BY <2>1, <2>2, <2>3 DEF User
<1>7. QED
  BY <1>3, <1>4, <1>6, Launches
-----------------------------------------------------------------------------
LEMMA StartInv == Start => ClientsInv
<1> SUFFICES ASSUME Start PROVE ClientsInv
  OBVIOUS
<1>1. ServiceInv
  BY InitInv DEF Start
<1>2. /\ task = <<>> /\ shown = FALSE
      /\ acts = [o \in Clients |-> [kind |-> "score", life |-> "none", mBound |-> FALSE]]
  BY DEF Start
<1>3. acts \in [Clients -> ActType] /\ \A o \in Clients : ~acts[o].mBound
  BY <1>2 DEF ActType, Kinds, Lives
<1>4. Ui \in UiType /\ BoundHears
  <2>1. task \in Seq(Clients)
    BY <1>2
  <2>2. shown \in BOOLEAN
    BY <1>2, Zenon
  <2>3. QED
    BY <1>3, <2>1, <2>2 DEF Ui, UiType, BoundHears
<1>5. NotDisconnectedScreen
  BY <1>2 DEF NotDisconnectedScreen, Live, ToSet
<1>6. QED
  BY <1>1, <1>4, <1>5 DEF ClientsInv

LEMMA ClientsInvariance == Behaviour => []ClientsInv
<1>1. ClientsInv /\ [System]_vars => ClientsInv'
  <2>1. ASSUME ClientsInv, UNCHANGED vars PROVE ClientsInv'
    BY <2>1 DEF vars, usbVars, uiVars, ClientsInv, ServiceInv, TypeOK, Plugged, Alive,
       Numbered, Holding, ConnectedIsOpen, OwnDescriptor, Ui, BoundHears,
       NotDisconnectedScreen, Live, Listens
  <2>2. ASSUME ClientsInv, NEW o \in Clients, Callback(o) PROVE ClientsInv'
    BY <2>2, OnStartInv, OnStopInv, ConnectedInv DEF Callback
  <2>3. ASSUME ClientsInv, Work PROVE ClientsInv'
    BY <2>2, <2>3, ClosingInv, AttemptInv DEF Work
  <2>4. QED
    BY <2>1, <2>3, AloneInv, UserInv DEF System
<1>2. QED
  BY <1>1, StartInv, PTL DEF Behaviour

\* An activity that believes it is bound hears the goals: its service is alive and
\* has it in the list, whatever callbacks came in between.
THEOREM BoundCorrect == Behaviour => []BoundHears
<1>1. ClientsInv => BoundHears
  BY DEF ClientsInv
<1>2. QED
  BY <1>1, ClientsInvariance, PTL

\* While the service has the accessory no disconnected screen that listens is in
\* the task: UsbActivity was told, whichever came first.
THEOREM ScreenCorrect == Behaviour => []NotDisconnectedScreen
<1>1. ClientsInv => NotDisconnectedScreen
  BY DEF ClientsInv
<1>2. QED
  BY <1>1, ClientsInvariance, PTL
=============================================================================
