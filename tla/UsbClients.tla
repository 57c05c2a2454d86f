----------------------------- MODULE UsbClients -----------------------------
(***************************************************************************)
(* The two activities of the application as clients of the USB service:    *)
(* UsbActivity.java, which binds, listens and unbinds with the life of an  *)
(* activity, and what ScoreActivity and DisconnectedActivity do when the   *)
(* service tells them that the table is there or gone: each starts the     *)
(* other and clears the task.                                              *)
(*                                                                         *)
(* A client is a slot for an activity object; a slot is used again when    *)
(* its object is destroyed and no list of the service holds it.  Android   *)
(* (external) decides which objects there are and which is in front, at    *)
(* once; the callbacks that take an object there, and onServiceConnected,  *)
(* come one by one, in any order and between any two handlers.             *)
(***************************************************************************)
EXTENDS UsbService

CONSTANTS CloseMayFail,  \* whether closing the descriptor may throw IOException
          MaxVisits      \* bound: how often the user comes, leaves or goes back

ASSUME ClientAssumption == CloseMayFail \in BOOLEAN

VARIABLES task,      \* the activities of the task, the root first
          shown,     \* the task is in front
          acts,      \* the activity object of each client
          visits     \* how often the user has done something, for the bound

uiVars == <<task, shown, acts>>
vars == <<usbVars, uiVars, visits>>

Ui == [task |-> task, shown |-> shown, acts |-> acts]
-----------------------------------------------------------------------------
Kinds == {"score", "disconnected"}
Lives == {"none", "created", "started", "stopped"}

InTask(u)   == ToSet(u.task)
Live(o)     == o \in ToSet(task)
Foreground(o) == shown /\ task # <<>> /\ o = Last(task)

Free(u) == {o \in Clients \ InTask(u) :
              /\ u.acts[o].life = "none" /\ o \notin bound
              /\ \A i \in 1..MaxInstances : <<o, i>> \notin listeners}

Slot(u) == CHOOSE o \in Free(u) : TRUE

NewAct(kind) == [kind |-> kind, life |-> "created", mBound |-> FALSE]

\* startActivity puts a new activity on top of the task, or of a cleared one.
Push(u, below, kind) == [task  |-> Append(below, Slot(u)),
                         shown |-> TRUE,
                         acts  |-> [u.acts EXCEPT ![Slot(u)] = NewAct(kind)]]

\* With FLAG_ACTIVITY_CLEAR_TASK, as the two activities start each other.
ClearTask(u, kind) == Push(u, <<>>, kind)

\* ScoreActivity with FLAG_ACTIVITY_NEW_TASK only: an activity of launch mode
\* singleTop on top of the task gets the intent, a root is brought to the front
\* with what is above it, and otherwise one is made.
StartScore(u) ==
  IF u.task # <<>> /\ "score" \in {u.acts[Head(u.task)].kind, u.acts[Last(u.task)].kind}
    THEN [u EXCEPT !.shown = TRUE]
    ELSE Push(u, u.task, "score")

Listens(o, i, kind) == <<o, i>> \in listeners /\ acts[o].kind = kind

\* accessoryConnected: a DisconnectedActivity starts ScoreActivity.
TellConnected(u) == IF \E o \in Clients : Listens(o, service.instance, "disconnected")
                    THEN ClearTask(u, "score") ELSE u

\* accessoryDisconnected: a ScoreActivity starts DisconnectedActivity.
TellDisconnected(u, i) == IF \E o \in Clients : Listens(o, i, "score")
                          THEN ClearTask(u, "disconnected") ELSE u

\* Mutant: an accessory that is open already is not told again.
AfterOpened(u, outcome) == IF outcome = "opened" THEN TellConnected(u) ELSE u

AfterOutcome(u, outcome) == IF outcome \in {"kept", "opened"} THEN TellConnected(u) ELSE u

\* closeAccessory tells the listeners, unless closing the descriptor throws.
AfterClose(i) ==
  {TellDisconnected(Ui, i)}
    \cup IF CloseMayFail /\ i = service.instance /\ service.fd # Null THEN {Ui} ELSE {}

Become(u) == task' = u.task /\ shown' = u.shown /\ acts' = u.acts

\* Bound: a handler that may start n activities runs while n slots are free.
Room(n) == Cardinality(Free(Ui)) >= n
-----------------------------------------------------------------------------
Start == /\ Init
         /\ task = <<>> /\ shown = FALSE /\ visits = 0
         /\ acts = [o \in Clients |-> [kind |-> "score", life |-> "none",
                                       mBound |-> FALSE]]

ErrorCloses == /\ Room(1)
               /\ HandleError
               /\ \E u \in AfterClose(conns[Head(queue).conn].instance) : Become(u)

DetachedCloses == /\ Room(1)
                  /\ HandleDetached
                  /\ \E u \in AfterClose(service.instance) : Become(u)

\* BabyfootService.onStartCommand: the score screen first, then the accessory.
Command(outcome) == /\ Room(2)
                    /\ HandleCommand(outcome)
                    /\ Become(AfterOutcome(StartScore(Ui), outcome))

Rebind(outcome) == /\ Room(1)
                   /\ HandleRebind(outcome)
                   /\ Become(AfterOutcome(Ui, outcome))

Destroy == /\ Room(1)
           /\ DestroyService
           /\ \E u \in AfterClose(service.instance) : Become(u)

\* The rest of the service leaves the activities alone.
ServiceAlone == /\ Environment \/ (\E c \in Conns : Reader(c)) \/ HandleMessage \/ StartService
                /\ UNCHANGED uiVars
-----------------------------------------------------------------------------
SetAct(o, act) == acts' = [acts EXCEPT ![o] = act] /\ UNCHANGED <<task, shown>>

\* onStart.  onNewIntent binds as well, just before it or of an activity that is
\* started, and binding twice is binding once.
OnStart(o) == /\ Foreground(o) /\ acts[o].life \in {"created", "stopped"}
              /\ Bind(o) /\ UNCHANGED listeners
              /\ SetAct(o, [acts[o] EXCEPT !.life = "started"])

\* onServiceConnected: a listener that joins is told when there is an accessory.
OnServiceConnected(o) ==
  LET bind(u) == [u EXCEPT !.acts[o].mBound = TRUE]
  IN  /\ Room(1)
      /\ acts[o].life # "none" /\ ~acts[o].mBound
      /\ Listen(o)
      /\ Become(IF service.accessory # Null /\ acts[o].kind = "disconnected"
                THEN ClearTask(bind(Ui), "score") ELSE bind(Ui))

\* Mutant: onStop does not reset mBound.
OnStopKeepsBound(o) ==
  /\ acts[o].life = "started" /\ ~Foreground(o)
  /\ IF acts[o].mBound THEN Leave(o) ELSE UNCHANGED usbVars
  /\ SetAct(o, [acts[o] EXCEPT !.life = "stopped"])

\* onStop: without onServiceConnected before it there is no unbinding.
OnStop(o) ==
  /\ acts[o].life = "started" /\ ~Foreground(o)
  /\ IF acts[o].mBound THEN Leave(o) ELSE UNCHANGED usbVars
  /\ SetAct(o, [acts[o] EXCEPT !.life = "stopped", !.mBound = FALSE])

\* onDestroy: Android undoes a binding that was left.
OnDestroy(o) == /\ ~Live(o) /\ acts[o].life \in {"created", "stopped"}
                /\ IF o \in bound THEN Abandon(o) ELSE UNCHANGED usbVars
                /\ SetAct(o, [acts[o] EXCEPT !.life = "none", !.mBound = FALSE])

\* The user opens the application from the launcher, which shows the task there
\* is, goes to the notification's score screen, leaves, or goes back.
OpenApp == /\ Room(1)
           /\ IF task = <<>> THEN Become(ClearTask(Ui, "disconnected"))
              ELSE \/ Become([Ui EXCEPT !.shown = TRUE])
                   \/ /\ acts[Head(task)].kind = "disconnected"
                      /\ acts[Last(task)].kind = "score"
                      /\ Become(Push(Ui, task, "disconnected"))
           /\ UNCHANGED usbVars

OpenNotification == /\ Room(1)
                    /\ service.fd # Null
                    /\ Become(StartScore(Ui))
                    /\ UNCHANGED usbVars

Home == /\ shown
        /\ shown' = FALSE
        /\ UNCHANGED <<usbVars, task, acts>>

Back == /\ shown /\ task # <<>>
        /\ task' = Front(task)
        /\ shown' = (Len(task) > 1)
        /\ UNCHANGED <<usbVars, acts>>

Closing == ErrorCloses \/ DetachedCloses \/ Destroy

Callback(o) == \/ OnStart(o) \/ OnServiceConnected(o)
               \/ OnStop(o) \/ OnDestroy(o)

User == OpenApp \/ OpenNotification \/ Home \/ Back

Work == \/ Closing
        \/ \E outcome \in Outcomes : Command(outcome) \/ Rebind(outcome)
        \/ \E o \in Clients : Callback(o)

System == \/ (ServiceAlone \/ Work) /\ UNCHANGED visits
          \/ User /\ visits < MaxVisits /\ visits' = visits + 1

Behaviour == Start /\ [][System]_vars
-----------------------------------------------------------------------------
\* An activity that believes it is bound is: its service is alive, and has it in
\* the list that the goals are told to.
BoundHears ==
  \A o \in Clients : acts[o].mBound =>
    service.alive /\ o \in bound /\ <<o, service.instance>> \in listeners

\* While the service has the accessory, no screen of the task that listens says
\* it has not: the DisconnectedActivity was told, whichever came first, the
\* accessory, the activity or its binding, and has given way.
NotDisconnectedScreen ==
  \A o \in Clients :
    Live(o) /\ service.alive /\ Listens(o, service.instance, "disconnected")
      => service.accessory = Null

\* Nothing is left to tell, to handle, to read or to call back.
Quiet == /\ android.detached + android.attached + android.commands + android.rebinds = 0
         /\ android.listed = table.attached
         /\ queue = <<>>
         /\ \A c \in Conns : InUse(c) => ~Lost(c) /\ ~Closed(c)
         /\ ~Doomed
         /\ \A o \in Clients : acts[o].life = "started" => acts[o].mBound

\* The disconnected screen says that the table is not detected.  (When everything
\* has settled it may be shown with the table plugged and listed: run
\* not_detected.)
NotDetectedIsTrue ==
  \A o \in Clients : (Foreground(o) /\ acts[o].life = "started"
                      /\ acts[o].kind = "disconnected" /\ Quiet) => ~table.attached
=============================================================================
