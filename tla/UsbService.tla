----------------------------- MODULE UsbService -----------------------------
(***************************************************************************)
(* The Android side of the cable: UsbService.java, which opens the table   *)
(* as a USB accessory, the threads that read it (AccesoryReadThread.java)  *)
(* and the messages they post to the service's Handler.                    *)
(*                                                                         *)
(* The table, the kernel and Android are external: a session is one        *)
(* plugging of the table, and what Android has yet to tell the application *)
(* (the DETACHED broadcast, the activity of ATTACHED, the commands and the *)
(* rebinds of the service) reaches the main thread through queues of its   *)
(* own, in any order.  The Handler's messages keep theirs.  A service that *)
(* is neither started nor bound is destroyed, and a later start or binding *)
(* makes a new instance; a read thread posts to the instance that made it. *)
(*                                                                         *)
(* The clients are any that bind, listen, and leave; UsbClients gives them *)
(* the two activities of the application.                                  *)
(***************************************************************************)
EXTENDS Integers, SequencesExt

CONSTANTS Clients,
          MaxSessions,   \* bound: how often the table is plugged
          MaxConns,      \* bound: how often the accessory is opened
          MaxSent,       \* bound: how many messages the table writes
          MaxInstances,  \* bound: how many instances of the service are made
          MaxRebinds     \* bound: rebinds Android has yet to tell

ASSUME UsbBounds == /\ MaxSessions \in Nat /\ MaxConns \in Nat /\ MaxSent \in Nat
                    /\ MaxInstances \in Nat /\ MaxRebinds \in Nat

VARIABLES table,      \* the cable, and what the table wrote into it
          android,    \* what Android knows, and has yet to tell
          service,    \* the instance of the service that is alive, if any
          conns,      \* each opening of the accessory, with its read thread
          listeners,  \* <<client, instance>>: the instance has the client in its list
          bound,      \* the clients bound to the service
          queue,      \* the messages of the Handler, oldest first
          handled     \* the accessory's messages newMessageFromAccessory has had

usbVars == <<table, android, service, conns, listeners, bound, queue, handled>>
-----------------------------------------------------------------------------
Null == 0             \* no descriptor, no accessory

\* A read thread is inside read, holds a message it has to post, is about to
\* read a descriptor closed under it, or has ended.
ReaderStates == {"reading", "holding", "failing", "done"}

Conns == DOMAIN conns
InUse(c) == conns[c].reader # "done"

\* Neither started nor bound: Android brings the instance down, and a start or
\* a binding from then on is for the next one.
Doomed == service.alive /\ ~service.started /\ bound = {}

Fresh == [alive |-> TRUE, instance |-> service.instance + 1, started |-> FALSE,
          fd |-> Null, accessory |-> Null]

Created  == IF service.alive THEN service ELSE Fresh
MayCreate == ~Doomed /\ (service.alive \/ service.instance < MaxInstances)

Heard(i) == {c \in Clients : <<c, i>> \in listeners}
-----------------------------------------------------------------------------
Init == /\ table = [attached |-> FALSE, session |-> 0, wire |-> <<>>, sent |-> 0]
        /\ android = [listed |-> FALSE, detached |-> 0, attached |-> 0,
                      commands |-> 0, rebinds |-> 0, unbound |-> FALSE]
        /\ service = [alive |-> FALSE, instance |-> 0, started |-> FALSE,
                      fd |-> Null, accessory |-> Null]
        /\ conns = <<>>
        /\ listeners = {}
        /\ bound = {}
        /\ queue = <<>>
        /\ handled = <<>>

\* The table is plugged: Android lists the accessory, and launches the activity
\* that the ATTACHED intent is for.
Plug == /\ ~table.attached /\ ~android.listed
        /\ table.session < MaxSessions
        /\ table' = [table EXCEPT !.attached = TRUE, !.session = @ + 1]
        /\ android' = [android EXCEPT !.listed = TRUE, !.attached = @ + 1]
        /\ UNCHANGED <<service, conns, listeners, bound, queue, handled>>

\* The table writes a message; messages are numbered.
TableWrites == /\ table.attached /\ table.sent < MaxSent
               /\ table' = [table EXCEPT !.sent = @ + 1, !.wire = Append(@, table.sent + 1)]
               /\ UNCHANGED <<android, service, conns, listeners, bound, queue, handled>>

\* The cable is pulled, and what no read had taken is lost.
Unplug == /\ table.attached
          /\ table' = [table EXCEPT !.attached = FALSE, !.wire = <<>>]
          /\ UNCHANGED <<android, service, conns, listeners, bound, queue, handled>>

\* Android notices, and sends DETACHED to the receiver the service registered.
NoticeUnplug == /\ ~table.attached /\ android.listed
                /\ android' = [android EXCEPT !.listed = FALSE,
                                              !.detached = IF service.alive THEN @ + 1 ELSE @]
                /\ UNCHANGED <<table, service, conns, listeners, bound, queue, handled>>
-----------------------------------------------------------------------------
\* The session of a connection is over, or its descriptor was closed.
Lost(c)   == ~table.attached \/ conns[c].session # table.session
Closed(c) == service.fd # c

SetReader(c, state, msg) ==
  conns' = [conns EXCEPT ![c].reader = state, ![c].msg = msg]

\* A read returns the next message.  A read that was waiting when the
\* descriptor was closed is not woken up by that, and may still return one.
ReadMessage(c) == /\ conns[c].reader = "reading"
                  /\ ~Lost(c) /\ table.wire # <<>>
                  /\ SetReader(c, "holding", Head(table.wire))
                  /\ table' = [table EXCEPT !.wire = Tail(@)]
                  /\ UNCHANGED <<android, service, listeners, bound, queue, handled>>

\* Mutant: the thread posts the message of its last read again.
PostAgain(c) == /\ conns[c].reader = "holding"
                /\ queue' = Append(queue, [what |-> "in", conn |-> c, msg |-> conns[c].msg])
                /\ \/ SetReader(c, IF Closed(c) THEN "failing" ELSE "reading", 0)
                   \/ Len(queue) < MaxSent /\ UNCHANGED conns
                /\ UNCHANGED <<table, android, service, listeners, bound, handled>>

\* The thread posts it to the Handler, and goes back to read.
PostMessage(c) == /\ conns[c].reader = "holding"
                  /\ queue' = Append(queue, [what |-> "in", conn |-> c, msg |-> conns[c].msg])
                  /\ SetReader(c, IF Closed(c) THEN "failing" ELSE "reading", 0)
                  /\ UNCHANGED <<table, android, service, listeners, bound, handled>>

\* Mutant: the break is missing, and the thread reads again.
ReadFailsAgain(c) == /\ \/ conns[c].reader = "reading" /\ (Lost(c) \/ Closed(c))
                        \/ conns[c].reader = "failing"
                     /\ Len(queue) < MaxConns
                     /\ queue' = Append(queue, [what |-> "ioError", conn |-> c, msg |-> 0])
                     /\ UNCHANGED <<table, android, service, conns, listeners, bound, handled>>

\* A read throws: the thread posts the error, and ends.
ReadFails(c) == /\ \/ conns[c].reader = "reading" /\ (Lost(c) \/ Closed(c))
                   \/ conns[c].reader = "failing"
                /\ queue' = Append(queue, [what |-> "ioError", conn |-> c, msg |-> 0])
                /\ SetReader(c, "done", 0)
                /\ UNCHANGED <<table, android, service, listeners, bound, handled>>

\* A read returns -1: the thread ends and tells nobody.
ReadEnds(c) == /\ conns[c].reader = "reading" /\ Lost(c)
               /\ SetReader(c, "done", 0)
               /\ UNCHANGED <<table, android, service, listeners, bound, queue, handled>>
-----------------------------------------------------------------------------
\* How attachAccessoryIfAny and openAccessory may end: without an accessory, with
\* the descriptor there was, with a new one, or refused.  The device is opened by
\* one at a time, and a read thread that has not ended still holds it.
Outcomes == {"none", "kept", "opened", "refused"}

MayEnd(outcome) ==
  \/ outcome = "none"    /\ ~android.listed
  \/ outcome = "kept"    /\ android.listed /\ service.fd # Null
  \/ outcome = "opened"  /\ android.listed /\ service.fd = Null /\ Len(conns) < MaxConns
  \/ outcome = "refused" /\ android.listed /\ service.fd = Null
                         /\ \/ ~table.attached
                            \/ \E c \in Conns : InUse(c)
                            \/ Len(conns) = MaxConns

\* Mutant: openAccessory fails and the accessory is not forgotten.
RefusedRemembers(s, outcome) ==
  [s EXCEPT !.accessory = IF outcome = "none" THEN Null ELSE table.session,
            !.fd = IF outcome = "opened" THEN Len(conns) + 1 ELSE @]

AfterAttach(s, outcome) ==
  [s EXCEPT !.accessory = IF outcome \in {"none", "refused"} THEN Null ELSE table.session,
            !.fd = IF outcome = "opened" THEN Len(conns) + 1 ELSE @]

\* The read thread of a connection that is opened.
NewConn == [session |-> table.session, instance |-> service.instance,
            reader |-> "reading", msg |-> 0]

Attach(outcome) == /\ MayEnd(outcome)
                   /\ service' = AfterAttach(service, outcome)
                   /\ conns' = IF outcome = "opened" THEN Append(conns, NewConn) ELSE conns

\* Mutant: the descriptor is closed and the field not reset.
ShutKeepsDescriptor(s) == [s EXCEPT !.accessory = Null, !.started = FALSE]

\* closeAccessory, up to what it tells the listeners.  stopSelf undoes a start.
Shut(s) == [s EXCEPT !.fd = Null, !.accessory = Null, !.started = FALSE]
-----------------------------------------------------------------------------
\* The Looper takes the oldest message of the Handler.
Take(what) == /\ queue # <<>> /\ Head(queue).what = what
              /\ queue' = Tail(queue)

\* newMessageFromAccessory.
HandleMessage == /\ Take("in")
                 /\ handled' = Append(handled, [conn |-> Head(queue).conn, msg |-> Head(queue).msg])
                 /\ UNCHANGED <<table, android, service, conns, listeners, bound>>

\* TYPE_IO_ERROR_MSG closes what its instance has open, whichever connection
\* the error came from.  An instance that is dead has nothing open.
HandleError == /\ Take("ioError")
               /\ service' = IF service.alive /\ conns[Head(queue).conn].instance = service.instance
                             THEN Shut(service) ELSE service
               /\ UNCHANGED <<table, android, conns, listeners, bound, handled>>

\* Mutant: the receiver does not close the accessory.
HandleDetachedIdle == /\ service.alive /\ android.detached > 0
                      /\ android' = [android EXCEPT !.detached = @ - 1]
                      /\ UNCHANGED <<table, service, conns, listeners, bound, queue, handled>>

\* The DETACHED broadcast.
HandleDetached == /\ service.alive /\ android.detached > 0
                  /\ android' = [android EXCEPT !.detached = @ - 1]
                  /\ service' = Shut(service)
                  /\ UNCHANGED <<table, conns, listeners, bound, queue, handled>>

\* onCreate of the activity launched for ATTACHED: it starts the service.
StartService == /\ android.attached > 0 /\ MayCreate
                /\ android' = [android EXCEPT !.attached = @ - 1, !.commands = @ + 1]
                /\ service' = [Created EXCEPT !.started = TRUE]
                /\ UNCHANGED <<table, conns, listeners, bound, queue, handled>>

\* onStartCommand.
HandleCommand(outcome) == /\ android.commands > 0
                          /\ android' = [android EXCEPT !.commands = @ - 1]
                          /\ Attach(outcome)
                          /\ UNCHANGED <<table, listeners, bound, queue, handled>>

\* onRebind.
HandleRebind(outcome) == /\ android.rebinds > 0
                         /\ android' = [android EXCEPT !.rebinds = @ - 1]
                         /\ Attach(outcome)
                         /\ UNCHANGED <<table, listeners, bound, queue, handled>>

\* Mutant: onDestroy leaves the accessory open.
DestroyOnly == /\ Doomed /\ android.commands = 0 /\ android.rebinds = 0
               /\ service' = [service EXCEPT !.alive = FALSE]
               /\ android' = [android EXCEPT !.detached = 0, !.unbound = FALSE]
               /\ UNCHANGED <<table, conns, listeners, bound, queue, handled>>

\* onDestroy, once the commands dispatched to the instance have run.
DestroyService == /\ Doomed /\ android.commands = 0 /\ android.rebinds = 0
                  /\ service' = [Shut(service) EXCEPT !.alive = FALSE]
                  /\ android' = [android EXCEPT !.detached = 0, !.unbound = FALSE]
                  /\ UNCHANGED <<table, conns, listeners, bound, queue, handled>>
-----------------------------------------------------------------------------
\* bindService with BIND_AUTO_CREATE.  onUnbind returns true, so the first
\* binding after the last unbinding is a rebind.
Bind(c) == /\ MayCreate
           /\ android.unbound => android.rebinds < MaxRebinds
           /\ bound' = bound \cup {c}
           /\ service' = Created
           /\ android' = [android EXCEPT !.rebinds = IF android.unbound THEN @ + 1 ELSE @,
                                         !.unbound = FALSE]
           /\ UNCHANGED <<table, conns, queue, handled>>

\* Mutant: the client does not wait for onServiceConnected.
ListenUnbound(c) == /\ listeners' = listeners \cup {<<c, service.instance>>}
                    /\ UNCHANGED <<table, android, service, conns, bound, queue, handled>>

\* onServiceConnected: listenAccessoryEvents.
Listen(c) == /\ c \in bound
             /\ listeners' = listeners \cup {<<c, service.instance>>}
             /\ UNCHANGED <<table, android, service, conns, bound, queue, handled>>

\* unbindService, or Android unbinding what is gone.
Unbind(c) == /\ c \in bound
             /\ bound' = bound \ {c}
             /\ android' = [android EXCEPT !.unbound = bound = {c}]
             /\ UNCHANGED <<table, service, conns, queue, handled>>

Join(c)    == c \notin bound /\ Bind(c) /\ UNCHANGED listeners
Leave(c)   == Unbind(c) /\ listeners' = listeners \ {<<c, service.instance>>}
Abandon(c) == Unbind(c) /\ UNCHANGED listeners

Environment == Plug \/ TableWrites \/ Unplug \/ NoticeUnplug

Reader(c) == ReadMessage(c) \/ PostMessage(c) \/ ReadFails(c) \/ ReadEnds(c)

MainThread == \/ HandleMessage \/ HandleError \/ HandleDetached
              \/ StartService
              \/ \E outcome \in Outcomes : HandleCommand(outcome) \/ HandleRebind(outcome)
              \/ DestroyService

Client(c) == Join(c) \/ (<<c, service.instance>> \notin listeners /\ Listen(c))
             \/ Leave(c) \/ Abandon(c)

Next == \/ Environment
        \/ \E c \in Conns : Reader(c)
        \/ MainThread
        \/ \E c \in Clients : Client(c)

\* A thread whose read can return goes on; Android delivers what it has to tell,
\* and the Looper handles what is posted.  Nothing is promised of the table, the
\* user, or the clients.
Fairness == /\ WF_usbVars(NoticeUnplug)
            /\ \A c \in 1..MaxConns : WF_usbVars(c \in Conns /\ Reader(c))
            /\ WF_usbVars(HandleMessage \/ HandleError)
            /\ WF_usbVars(HandleDetached)
            /\ WF_usbVars(StartService)
            /\ WF_usbVars(\E outcome \in Outcomes : HandleCommand(outcome))
            /\ WF_usbVars(\E outcome \in Outcomes : HandleRebind(outcome))
            /\ WF_usbVars(DestroyService)

Spec == Init /\ [][Next]_usbVars /\ Fairness
-----------------------------------------------------------------------------
\* Every variable has its type.
TypeOK ==
  /\ table \in [attached : BOOLEAN, session : 0..MaxSessions,
                wire : Seq(1..MaxSent), sent : 0..MaxSent]
  /\ android \in [listed : BOOLEAN, detached : Nat, attached : Nat,
                  commands : Nat, rebinds : Nat, unbound : BOOLEAN]
  /\ service \in [alive : BOOLEAN, instance : 0..MaxInstances, started : BOOLEAN,
                  fd : 0..Len(conns), accessory : 0..MaxSessions]
  /\ conns \in Seq([session : 1..MaxSessions, instance : 1..MaxInstances,
                    reader : ReaderStates, msg : 0..MaxSent])
  /\ listeners \subseteq Clients \X (1..MaxInstances)
  /\ bound \subseteq Clients
  /\ queue \in Seq([what : {"in", "ioError"}, conn : 1..Len(conns), msg : 0..MaxSent])
  /\ handled \in Seq([conn : 1..Len(conns), msg : 1..MaxSent])

\* A listener that joins is told it is connected when the field accessory is
\* set.  attachAccessoryIfAny sets it before it knows whether there will be a
\* descriptor: between two handlers it is never set without one, on no path
\* through the two methods, the close and the destruction.
ConnectedIsOpen == service.accessory # Null => service.fd # Null

\* A dead instance holds nothing, and the descriptor the service holds is of a
\* read thread that posts to this instance.
OwnDescriptor == service.fd # Null => /\ service.alive
                                      /\ conns[service.fd].instance = service.instance

\* A message of the table is handled once at most, whatever threads read beside
\* one another and whatever instances come and go; and none is made up.
Link == INSTANCE LossyLink WITH sent <- table.sent,
                                got <- [i \in DOMAIN handled |-> handled[i].msg]
ImplementsLossyLink == Link!Spec

\* Once the cable is pulled the descriptor is closed, or the table plugged again.
DisconnectNoticed == ~table.attached ~> service.fd = Null \/ table.attached

\* A read thread whose session is over ends.
ThreadsEnd == \A c \in 1..MaxConns :
                c \in Conns /\ Lost(c) ~> c \in Conns /\ ~InUse(c)

\* What may still close a new connection: an error or a broadcast left from an
\* older one, a thread that has yet to post its error, or an instance on its way out.
Stale == \/ android.detached > 0
         \/ \E i \in DOMAIN queue : queue[i].what = "ioError"
         \/ \E c \in Conns : InUse(c) /\ (Lost(c) \/ Closed(c))
         \/ Doomed

\* A table that is plugged when nothing stale is left is opened, unless it is
\* pulled again.  (Without the premise it may stay closed for ever.)
PlugServed ==
  (table.attached /\ android.attached + android.commands > 0 /\ ~Stale)
    ~> \/ service.fd # Null /\ ~Lost(service.fd)
       \/ ~table.attached
       \/ Len(conns) = MaxConns \/ service.instance = MaxInstances
=============================================================================
