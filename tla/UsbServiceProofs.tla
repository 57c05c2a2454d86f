--------------------------- MODULE UsbServiceProofs ---------------------------
(***************************************************************************)
(* Proofs about the USB service: its types, that a connection the clients  *)
(* are told of has a descriptor, that the descriptor is of this instance   *)
(* of the service, and that the service implements LossyLink, for any      *)
(* clients and any number of sessions, connections and messages.           *)
(*                                                                         *)
(* The argument for the link: a message is in one place, on the wire, with *)
(* one read thread, in the Handler's queue or handled, and a step moves it *)
(* or loses it.                                                            *)
(***************************************************************************)
EXTENDS UsbService, SequenceTheorems, TLAPS

\* The types, one variable each.
ConnType  == [session : 1..MaxSessions, instance : 1..MaxInstances,
              reader : ReaderStates, msg : 0..MaxSent]
QueueType(n) == [what : {"in", "ioError"}, conn : 1..n, msg : 0..MaxSent]
HandledType(n) == [conn : 1..n, msg : 1..MaxSent]

TableOK   == table \in [attached : BOOLEAN, session : 0..MaxSessions,
                        wire : Seq(1..MaxSent), sent : 0..MaxSent]
AndroidOK == android \in [listed : BOOLEAN, detached : Nat, attached : Nat,
                          commands : Nat, rebinds : Nat, unbound : BOOLEAN]
ServiceOK == service \in [alive : BOOLEAN, instance : 0..MaxInstances, started : BOOLEAN,
                          fd : 0..Len(conns), accessory : 0..MaxSessions]
ConnsOK   == conns \in Seq(ConnType)
ClientsOK == listeners \subseteq Clients \X (1..MaxInstances) /\ bound \subseteq Clients
QueueOK   == queue \in Seq(QueueType(Len(conns)))
HandledOK == handled \in Seq(HandledType(Len(conns)))

\* A table that is plugged or listed has been plugged.
Plugged == table.attached \/ android.listed => table.session > 0

\* Commands, rebinds and bindings are of an instance that is alive.
Alive == /\ bound # {} \/ android.commands > 0 \/ android.rebinds > 0 => service.alive
         /\ service.alive => service.instance > 0

\* The messages that are somewhere, there are.
Holding(c) == conns[c].reader = "holding"
Numbered == /\ \A c \in 1..Len(conns) : Holding(c) => conns[c].msg > 0
            /\ \A i \in 1..Len(queue) : queue[i].what = "in" => queue[i].msg > 0

ServiceInv == /\ TypeOK /\ Plugged /\ Alive /\ Numbered
              /\ ConnectedIsOpen /\ OwnDescriptor
-----------------------------------------------------------------------------
LEMMA Types == TypeOK <=> /\ TableOK /\ AndroidOK /\ ServiceOK /\ ConnsOK
                          /\ ClientsOK /\ QueueOK /\ HandledOK
BY DEF TypeOK, TableOK, AndroidOK, ServiceOK, ConnsOK, ClientsOK, QueueOK, HandledOK,
       ConnType, QueueType, HandledType

\* What refers to the connections may still do so when there is one more.
LEMMA MoreConns ==
  ASSUME NEW m \in Nat, NEW n \in Nat, m <= n
  PROVE  /\ Seq(QueueType(m)) \subseteq Seq(QueueType(n))
         /\ Seq(HandledType(m)) \subseteq Seq(HandledType(n))
<1>1. QueueType(m) \subseteq QueueType(n) /\ HandledType(m) \subseteq HandledType(n)
  BY DEF QueueType, HandledType
<1>2. ASSUME NEW S, NEW T, S \subseteq T PROVE Seq(S) \subseteq Seq(T)
  BY <1>2
<1>3. QED
  BY <1>1, <1>2

\* A step of a read thread changes its record and no other.
LEMMA ReaderMoves ==
  ASSUME ConnsOK, NEW c \in 1..Len(conns), NEW state \in ReaderStates,
         NEW msg \in 0..MaxSent, SetReader(c, state, msg)
  PROVE  /\ ConnsOK' /\ Len(conns') = Len(conns)
         /\ conns'[c].reader = state /\ conns'[c].msg = msg
         /\ conns'[c].instance = conns[c].instance
         /\ \A d \in 1..Len(conns) : d # c => conns'[d] = conns[d]
<1> DEFINE new == [conns[c] EXCEPT !.reader = state, !.msg = msg]
<1>1. conns[c] \in ConnType
  BY DEF ConnsOK
<1>2. /\ new \in ConnType /\ new.reader = state /\ new.msg = msg
      /\ new.instance = conns[c].instance
  BY <1>1 DEF ConnType
<1>3. conns' = [conns EXCEPT ![c] = new]
  BY DEF SetReader, ConnsOK
<1>4. /\ conns' \in Seq(ConnType) /\ Len(conns') = Len(conns)
      /\ \A d \in 1..Len(conns) : conns'[d] = IF d = c THEN new ELSE conns[d]
  <2> HIDE DEF new
  <2> QED
    BY <1>2, <1>3 DEF ConnsOK
<1>5. QED
  BY <1>2, <1>4 DEF ConnsOK

LEMMA InitInv == Init => ServiceInv
<1> SUFFICES ASSUME Init PROVE ServiceInv
  OBVIOUS
<1>1. TypeOK
  BY UsbBounds DEF Init, TypeOK, Null
<1>2. Plugged /\ Alive /\ Numbered
  BY DEF Init, Plugged, Alive, Numbered
<1>3. ConnectedIsOpen /\ OwnDescriptor
  BY DEF Init, ConnectedIsOpen, OwnDescriptor, Null
<1>4. QED
  BY <1>1, <1>2, <1>3 DEF ServiceInv
-----------------------------------------------------------------------------
\* The steps of the cable and of Android.
LEMMA EnvironmentInv == ServiceInv /\ Environment => ServiceInv'
<1> SUFFICES ASSUME ServiceInv, Environment PROVE ServiceInv'
  OBVIOUS
<1> USE UsbBounds
<1>1. /\ TableOK /\ AndroidOK /\ ServiceOK /\ ConnsOK /\ ClientsOK /\ QueueOK /\ HandledOK
      /\ Plugged /\ Alive /\ Numbered /\ ConnectedIsOpen /\ OwnDescriptor
  BY Types DEF ServiceInv
<1>2. UNCHANGED <<service, conns, listeners, bound, queue, handled>>
  BY DEF Environment, Plug, TableWrites, Unplug, NoticeUnplug
<1>3. ServiceOK' /\ ConnsOK' /\ ClientsOK' /\ QueueOK' /\ HandledOK'
  BY <1>1, <1>2 DEF ServiceOK, ConnsOK, ClientsOK, QueueOK, HandledOK
<1>4. Numbered' /\ ConnectedIsOpen' /\ OwnDescriptor'
  BY <1>1, <1>2 DEF Numbered, Holding, ConnectedIsOpen, OwnDescriptor
<1>5. TableOK' /\ AndroidOK' /\ Plugged' /\ Alive'
  <2>1. /\ table.wire \in Seq(1..MaxSent) /\ <<>> \in Seq(1..MaxSent)
        /\ table.session \in 0..MaxSessions /\ table.sent \in 0..MaxSent
    BY <1>1 DEF TableOK
  <2>2. Append(table.wire, table.sent + 1) \in Seq(1..MaxSent) \/ ~TableWrites
    <3>1. ASSUME TableWrites PROVE table.sent + 1 \in 1..MaxSent
      BY <2>1, <3>1 DEF TableWrites
    <3>2. QED
      BY <2>1, <3>1
  <2>3. TableOK'
    <3>1. CASE Plug
      <4>1. table.session + 1 \in 0..MaxSessions
        BY <2>1, <3>1 DEF Plug
      <4>2. table' = [table EXCEPT !.attached = TRUE, !.session = table.session + 1]
        BY <3>1 DEF Plug
      <4>3. QED
        BY <1>1, <4>1, <4>2 DEF TableOK
    <3>2. CASE TableWrites
      <4>1. table.sent + 1 \in 0..MaxSent
        BY <2>1, <3>2 DEF TableWrites
      <4>2. QED
        BY <1>1, <2>1, <2>2, <3>2, <4>1 DEF TableWrites, TableOK
    <3>3. CASE Unplug
      BY <1>1, <2>1, <3>3 DEF Unplug, TableOK
    <3>4. CASE NoticeUnplug
      BY <1>1, <3>4 DEF NoticeUnplug, TableOK
    <3>5. QED
      BY <3>1, <3>2, <3>3, <3>4 DEF Environment
  <2>4. AndroidOK' /\ android'.commands = android.commands /\ android'.rebinds = android.rebinds
    <3>1. CASE Plug
      <4>1. android' = [android EXCEPT !.listed = TRUE, !.attached = android.attached + 1]
        BY <3>1 DEF Plug
      <4>2. android.attached + 1 \in Nat
        BY <1>1 DEF AndroidOK
      <4>3. QED
        BY <1>1, <4>1, <4>2 DEF AndroidOK
    <3>2. CASE NoticeUnplug
      <4> DEFINE n == IF service.alive THEN android.detached + 1 ELSE android.detached
      <4>1. n \in Nat
        BY <1>1 DEF AndroidOK
      <4>2. android' = [android EXCEPT !.listed = FALSE, !.detached = n]
        BY <3>2 DEF NoticeUnplug
      <4> HIDE DEF n
      <4>3. QED
        BY <1>1, <4>1, <4>2 DEF AndroidOK
    <3>3. CASE TableWrites \/ Unplug
      BY <1>1, <3>3 DEF TableWrites, Unplug, AndroidOK
    <3>4. QED
      BY <3>1, <3>2, <3>3 DEF Environment
  <2>5. Plugged'
    <3>1. CASE Plug
      BY <1>1, <2>1, <3>1 DEF Plug, TableOK, Plugged
    <3>2. CASE ~Plug
      <4>1. /\ table'.session = table.session
            /\ table'.attached => table.attached
            /\ android'.listed => android.listed
        BY <1>1, <3>2 DEF Environment, TableWrites, Unplug, NoticeUnplug, TableOK, AndroidOK
      <4>2. QED
        BY <1>1, <4>1 DEF Plugged
    <3>3. QED
      BY <3>1, <3>2
  <2>6. Alive'
    BY <1>1, <1>2, <2>4 DEF Alive
  <2>7. QED
    BY <2>3, <2>4, <2>5, <2>6
<1>6. QED
  BY <1>3, <1>4, <1>5, Types DEF ServiceInv, TypeOK, TableOK, AndroidOK, ServiceOK, ConnsOK,
     ClientsOK, QueueOK, HandledOK, ConnType, QueueType, HandledType

\* The steps of a read thread.
LEMMA ReaderInv == ServiceInv /\ (\E c \in Conns : Reader(c)) => ServiceInv'
<1> SUFFICES ASSUME ServiceInv, NEW c \in Conns, Reader(c) PROVE ServiceInv'
  OBVIOUS
<1>1. /\ TableOK /\ AndroidOK /\ ServiceOK /\ ConnsOK /\ ClientsOK /\ QueueOK /\ HandledOK
      /\ Plugged /\ Alive /\ Numbered /\ ConnectedIsOpen /\ OwnDescriptor
  BY Types DEF ServiceInv
<1>2. c \in 1..Len(conns) /\ conns[c] \in ConnType
  BY <1>1 DEF Conns, ConnsOK
<1>3. UNCHANGED <<android, service, listeners, bound, handled>>
  BY DEF Reader, ReadMessage, PostMessage, ReadFails, ReadEnds
<1>4. PICK state \in ReaderStates, msg \in 0..MaxSent :
        /\ SetReader(c, state, msg)
        /\ state = "holding" => msg > 0 /\ ReadMessage(c)
  <2>1. CASE ReadMessage(c)
    <3>1. table.wire \in Seq(1..MaxSent) /\ table.wire # <<>>
      BY <1>1, <2>1 DEF ReadMessage, TableOK
    <3>2. Head(table.wire) \in 1..MaxSent
      BY <3>1, HeadTailProperties
    <3>3. QED
      BY <2>1, <3>2, UsbBounds DEF ReadMessage, ReaderStates
  <2>2. CASE ~ReadMessage(c)
    BY <2>2, UsbBounds DEF Reader, PostMessage, ReadFails, ReadEnds, ReaderStates
  <2>3. QED
    BY <2>1, <2>2
<1>5. /\ ConnsOK' /\ Len(conns') = Len(conns)
      /\ conns'[c].reader = state /\ conns'[c].msg = msg
      /\ \A d \in 1..Len(conns) : conns'[d].instance = conns[d].instance
      /\ \A d \in 1..Len(conns) : d # c => conns'[d] = conns[d]
  BY <1>1, <1>2, <1>4, ReaderMoves
<1>6. ServiceOK' /\ AndroidOK' /\ ClientsOK' /\ HandledOK'
  BY <1>1, <1>3, <1>5 DEF ServiceOK, AndroidOK, ClientsOK, HandledOK
<1>7. TableOK' /\ table'.session = table.session /\ table'.attached = table.attached
  <2>1. CASE ReadMessage(c)
    <3>1. Tail(table.wire) \in Seq(1..MaxSent)
      BY <1>1, <2>1 DEF ReadMessage, TableOK
    <3>2. QED
      BY <1>1, <2>1, <3>1 DEF ReadMessage, TableOK
  <2>2. CASE ~ReadMessage(c)
    BY <1>1, <2>2 DEF Reader, PostMessage, ReadFails, ReadEnds, TableOK
  <2>3. QED
    BY <2>1, <2>2
<1>8. QueueOK' /\ \A i \in 1..Len(queue') : queue'[i].what = "in" => queue'[i].msg > 0
  <2>1. CASE queue' = queue
    BY <1>1, <1>5, <2>1 DEF QueueOK, Numbered
  <2>2. ASSUME NEW m \in QueueType(Len(conns)), m.what = "in" => m.msg > 0,
               queue' = Append(queue, m)
        PROVE  QueueOK' /\ \A i \in 1..Len(queue') : queue'[i].what = "in" => queue'[i].msg > 0
    <3>1. /\ queue' \in Seq(QueueType(Len(conns))) /\ Len(queue') = Len(queue) + 1
          /\ \A i \in 1..Len(queue) : queue'[i] = queue[i]
          /\ queue'[Len(queue) + 1] = m
      BY <1>1, <2>2 DEF QueueOK
    <3>2. \A i \in 1..Len(queue') : i \in 1..Len(queue) \/ i = Len(queue) + 1
      BY <1>1, <3>1 DEF QueueOK
    <3>3. QED
      BY <1>1, <1>5, <2>2, <3>1, <3>2 DEF QueueOK, Numbered
  <2>3. CASE PostMessage(c)
    <3>1. conns[c].msg \in 0..MaxSent /\ conns[c].msg > 0
      BY <1>1, <1>2, <2>3 DEF PostMessage, Numbered, Holding, ConnType
    <3>2. [what |-> "in", conn |-> c, msg |-> conns[c].msg] \in QueueType(Len(conns))
      BY <1>2, <3>1 DEF QueueType
    <3>3. QED
      BY <2>2, <2>3, <3>1, <3>2 DEF PostMessage
  <2>4. CASE ReadFails(c)
    <3>1. [what |-> "ioError", conn |-> c, msg |-> 0] \in QueueType(Len(conns))
      BY <1>2, UsbBounds DEF QueueType
    <3>2. QED
      BY <2>2, <2>4, <3>1 DEF ReadFails
  <2>5. CASE ReadMessage(c) \/ ReadEnds(c)
    BY <2>1, <2>5 DEF ReadMessage, ReadEnds
  <2>6. QED
    BY <2>3, <2>4, <2>5 DEF Reader
<1>9. Numbered'
  BY <1>1, <1>4, <1>5, <1>8 DEF Numbered, Holding
<1>10. Plugged' /\ Alive' /\ ConnectedIsOpen'
  BY <1>1, <1>3, <1>7 DEF Plugged, Alive, ConnectedIsOpen
<1>11. OwnDescriptor'
  BY <1>1, <1>3, <1>5 DEF OwnDescriptor, ServiceOK, Null
<1>12. QED
  BY <1>5, <1>6, <1>7, <1>8, <1>9, <1>10, <1>11 DEF ServiceInv, TypeOK, TableOK, AndroidOK,
     ServiceOK, ConnsOK, ClientsOK, QueueOK, HandledOK, ConnType, QueueType, HandledType

-----------------------------------------------------------------------------
\* The parts of the invariant the main thread changes, and the ones it leaves.
MainInv == /\ AndroidOK /\ ServiceOK /\ ConnsOK /\ QueueOK /\ HandledOK
           /\ Alive /\ Numbered /\ ConnectedIsOpen /\ OwnDescriptor

LEMMA Parts == ServiceInv <=> TableOK /\ ClientsOK /\ Plugged /\ MainInv
BY Types DEF ServiceInv, MainInv

LEMMA PartsPrimed == ServiceInv' <=> TableOK' /\ ClientsOK' /\ Plugged' /\ MainInv'
BY DEF ServiceInv, MainInv, TypeOK, TableOK, AndroidOK, ServiceOK, ConnsOK, ClientsOK,
       QueueOK, HandledOK, ConnType, QueueType, HandledType

\* attachAccessoryIfAny, when a command or a rebind called it: the instance is
\* alive, and what is opened is opened for it.
LEMMA AttachInv ==
  ASSUME ServiceInv, NEW outcome \in Outcomes, Attach(outcome), service.alive,
         UNCHANGED <<table, queue, handled>>
  PROVE  /\ ServiceOK' /\ ConnsOK' /\ QueueOK' /\ HandledOK'
         /\ Numbered' /\ ConnectedIsOpen' /\ OwnDescriptor'
         /\ service'.alive = service.alive /\ service'.instance = service.instance
<1>1. /\ TableOK /\ ServiceOK /\ ConnsOK /\ QueueOK /\ HandledOK
      /\ Plugged /\ Alive /\ Numbered /\ ConnectedIsOpen /\ OwnDescriptor
  BY Parts DEF MainInv
<1>2. /\ MayEnd(outcome)
      /\ service' = AfterAttach(service, outcome)
      /\ conns' = IF outcome = "opened" THEN Append(conns, NewConn) ELSE conns
  BY DEF Attach
<1>3. /\ service \in [alive : BOOLEAN, instance : 0..MaxInstances, started : BOOLEAN,
                      fd : 0..Len(conns), accessory : 0..MaxSessions]
      /\ Len(conns) \in Nat /\ service.instance > 0 /\ table.session \in 0..MaxSessions
  BY <1>1 DEF ServiceOK, ConnsOK, Alive, TableOK
<1>4. CASE outcome = "opened"
  <2>1. table.session > 0
    BY <1>1, <1>2, <1>4 DEF MayEnd, Plugged
  <2>2. NewConn \in ConnType /\ NewConn.instance = service.instance /\ NewConn.reader = "reading"
    BY <1>3, <2>1, UsbBounds DEF NewConn, ConnType, ReaderStates
  <2>3. /\ conns' \in Seq(ConnType) /\ Len(conns') = Len(conns) + 1
        /\ conns'[Len(conns) + 1] = NewConn
        /\ \A c \in 1..Len(conns) : conns'[c] = conns[c]
    BY <1>1, <1>2, <1>4, <2>2 DEF ConnsOK
  <2>4. service' = [service EXCEPT !.accessory = table.session, !.fd = Len(conns) + 1]
    BY <1>2, <1>4 DEF AfterAttach
  <2>5. /\ service'.fd = Len(conns) + 1 /\ service'.accessory = table.session
        /\ service'.alive = service.alive /\ service'.instance = service.instance
    BY <1>3, <2>4
  <2>6. ServiceOK'
    <3> DEFINE n == Len(conns) + 1
    <3>1. /\ n \in 0..n /\ table.session \in 0..MaxSessions
          /\ \A i \in 0..Len(conns) : i \in 0..n
      BY <1>3
    <3>2. service' = [alive |-> service.alive, instance |-> service.instance,
                      started |-> service.started, fd |-> n, accessory |-> table.session]
      BY <1>3, <2>4
    <3>3. Len(conns') = n
      BY <2>3
    <3> HIDE DEF n
    <3>4. QED
      BY <1>3, <3>1, <3>2, <3>3 DEF ServiceOK
  <2>7. QueueOK' /\ HandledOK'
    <3> DEFINE m == Len(conns)
               n == Len(conns) + 1
    <3>1. m \in Nat /\ n \in Nat /\ m <= n
      BY <1>3
    <3>2. queue \in Seq(QueueType(m)) /\ handled \in Seq(HandledType(m))
      BY <1>1 DEF QueueOK, HandledOK
    <3>3. Len(conns') = n
      BY <2>3
    <3> HIDE DEF m, n
    <3>4. /\ Seq(QueueType(m)) \subseteq Seq(QueueType(n))
          /\ Seq(HandledType(m)) \subseteq Seq(HandledType(n))
      BY <3>1, MoreConns
    <3>5. queue' \in Seq(QueueType(n)) /\ handled' \in Seq(HandledType(n))
      BY <3>2, <3>4
    <3>6. QED
      BY <3>3, <3>5 DEF QueueOK, HandledOK
  <2>8. Numbered'
    <3>1. \A c \in 1..Len(conns') : c \in 1..Len(conns) \/ c = Len(conns) + 1
      BY <1>3, <2>3
    <3>2. QED
      BY <1>1, <2>2, <2>3, <3>1 DEF Numbered, Holding
  <2>9. ConnectedIsOpen' /\ OwnDescriptor'
    BY <1>3, <2>2, <2>3, <2>5 DEF ConnectedIsOpen, OwnDescriptor, Null
  <2>10. QED
    BY <2>3, <2>5, <2>6, <2>7, <2>8, <2>9 DEF ConnsOK
<1>5. CASE outcome # "opened"
  <2>1. PICK a \in 0..MaxSessions :
          service' = [service EXCEPT !.accessory = a] /\ (a # Null => service.fd # Null)
    <3>1. CASE outcome \in {"none", "refused"}
      <4>1. service' = [service EXCEPT !.accessory = Null, !.fd = service.fd]
        BY <1>2, <1>5, <3>1 DEF AfterAttach
      <4>2. service' = [service EXCEPT !.accessory = Null]
        BY <1>3, <4>1
      <4>3. QED
        BY <4>2, UsbBounds DEF Null
    <3>2. CASE outcome = "kept"
      <4>1. service' = [service EXCEPT !.accessory = table.session, !.fd = service.fd]
        BY <1>2, <3>2 DEF AfterAttach
      <4>2. service' = [service EXCEPT !.accessory = table.session]
        BY <1>3, <4>1
      <4>3. QED
        BY <1>2, <1>3, <3>2, <4>2 DEF MayEnd
    <3>3. QED
      BY <1>5, <3>1, <3>2 DEF Outcomes
  <2>2. conns' = conns
    BY <1>2, <1>5
  <2>3. /\ service'.fd = service.fd /\ service'.accessory = a
        /\ service'.alive = service.alive /\ service'.instance = service.instance
    BY <1>3, <2>1
  <2>4. ServiceOK'
    BY <1>3, <2>1, <2>2 DEF ServiceOK
  <2>5. ConnsOK' /\ QueueOK' /\ HandledOK' /\ Numbered'
    BY <1>1, <2>2 DEF ConnsOK, QueueOK, HandledOK, Numbered, Holding
  <2>6. ConnectedIsOpen' /\ OwnDescriptor'
    BY <1>1, <2>1, <2>2, <2>3 DEF ConnectedIsOpen, OwnDescriptor
  <2>7. QED
    BY <2>3, <2>4, <2>5, <2>6
<1>6. QED
  BY <1>4, <1>5

\* closeAccessory: nothing is open.
LEMMA ShutInv ==
  ASSUME MainInv, service' = Shut(service), UNCHANGED conns
  PROVE  /\ ServiceOK' /\ ConnsOK' /\ ConnectedIsOpen' /\ OwnDescriptor'
         /\ service'.alive = service.alive /\ service'.instance = service.instance
<1>1. /\ service \in [alive : BOOLEAN, instance : 0..MaxInstances, started : BOOLEAN,
                      fd : 0..Len(conns), accessory : 0..MaxSessions]
      /\ Len(conns) \in Nat /\ ConnsOK
  BY DEF MainInv, ServiceOK, ConnsOK
<1>2. service' = [alive |-> service.alive, instance |-> service.instance,
                  started |-> FALSE, fd |-> Null, accessory |-> Null]
  BY <1>1 DEF Shut
<1>3. Null \in 0..Len(conns) /\ Null \in 0..MaxSessions
  BY <1>1, UsbBounds DEF Null
<1>4. ServiceOK'
  BY <1>1, <1>2, <1>3 DEF ServiceOK
<1>5. QED
  BY <1>1, <1>2, <1>4 DEF ConnsOK, ConnectedIsOpen, OwnDescriptor

\* onCreate of a service, or the one there is: what Bind and StartService start from.
LEMMA CreatedInv ==
  ASSUME MainInv, MayCreate
  PROVE  /\ Created \in [alive : BOOLEAN, instance : 0..MaxInstances, started : BOOLEAN,
                         fd : 0..Len(conns), accessory : 0..MaxSessions]
         /\ Created.alive /\ Created.instance > 0
         /\ Created.accessory # Null => Created.fd # Null
         /\ Created.fd # Null => conns[Created.fd].instance = Created.instance
<1>1. /\ service \in [alive : BOOLEAN, instance : 0..MaxInstances, started : BOOLEAN,
                      fd : 0..Len(conns), accessory : 0..MaxSessions]
      /\ Len(conns) \in Nat /\ Alive /\ ConnectedIsOpen /\ OwnDescriptor
  BY DEF MainInv, ServiceOK, ConnsOK
<1>2. CASE service.alive
  BY <1>1, <1>2 DEF Created, Alive, ConnectedIsOpen, OwnDescriptor
<1>3. CASE ~service.alive
  <2>1. Created = [alive |-> TRUE, instance |-> service.instance + 1, started |-> FALSE,
                   fd |-> Null, accessory |-> Null]
    BY <1>3 DEF Created, Fresh
  <2>2. service.instance + 1 \in 0..MaxInstances /\ service.instance + 1 > 0
    BY <1>1, <1>3, UsbBounds DEF MayCreate
  <2>3. Null \in 0..Len(conns) /\ Null \in 0..MaxSessions
    BY <1>1, UsbBounds DEF Null
  <2>4. QED
    BY <2>1, <2>2, <2>3 DEF Null
<1>4. QED
  BY <1>2, <1>3

LEMMA MainThreadInv == ServiceInv /\ MainThread => ServiceInv'
<1> SUFFICES ASSUME ServiceInv, MainThread PROVE ServiceInv'
  OBVIOUS
<1>1. /\ TableOK /\ ClientsOK /\ Plugged /\ MainInv
      /\ AndroidOK /\ ServiceOK /\ ConnsOK /\ QueueOK /\ HandledOK
      /\ Alive /\ Numbered /\ ConnectedIsOpen /\ OwnDescriptor
  BY Parts DEF MainInv
<1>2. /\ UNCHANGED <<table, listeners, bound>>
      /\ android'.listed = android.listed
  BY <1>1 DEF MainThread, HandleMessage, HandleError, HandleDetached, StartService,
     HandleCommand, HandleRebind, DestroyService, AndroidOK
<1>3. TableOK' /\ ClientsOK' /\ Plugged'
  BY <1>1, <1>2 DEF TableOK, ClientsOK, Plugged
<1>4. ASSUME NEW what, Take(what), UNCHANGED conns
      PROVE  /\ QueueOK'
             /\ \A i \in 1..Len(queue') : queue'[i].what = "in" => queue'[i].msg > 0
             /\ Head(queue) \in QueueType(Len(conns)) /\ Head(queue).what = what
             /\ what = "in" => Head(queue).msg > 0
  <2>1. queue \in Seq(QueueType(Len(conns))) /\ queue # <<>> /\ queue' = Tail(queue)
    BY <1>1, <1>4 DEF Take, QueueOK
  <2>2. /\ Head(queue) \in QueueType(Len(conns)) /\ Head(queue) = queue[1]
        /\ Tail(queue) \in Seq(QueueType(Len(conns)))
        /\ Len(Tail(queue)) = Len(queue) - 1 /\ Len(queue) \in Nat /\ Len(queue) > 0
        /\ \A i \in 1..Len(Tail(queue)) : Tail(queue)[i] = queue[i + 1]
    BY <2>1, HeadTailProperties, EmptySeq, LenProperties
  <2>3. QED
    BY <1>1, <1>4, <2>1, <2>2 DEF Take, QueueOK, Numbered
<1>5. CASE HandleMessage
  <2>1. /\ Take("in") /\ UNCHANGED <<android, service, conns>>
        /\ handled' = Append(handled, [conn |-> Head(queue).conn, msg |-> Head(queue).msg])
    BY <1>5 DEF HandleMessage
  <2>2. [conn |-> Head(queue).conn, msg |-> Head(queue).msg] \in HandledType(Len(conns))
    BY <1>4, <2>1 DEF QueueType, HandledType
  <2>3. HandledOK'
    BY <1>1, <2>1, <2>2 DEF HandledOK
  <2>4. QueueOK' /\ Numbered'
    BY <1>1, <1>4, <2>1 DEF Numbered, Holding
  <2>5. AndroidOK' /\ ServiceOK' /\ ConnsOK' /\ Alive' /\ ConnectedIsOpen' /\ OwnDescriptor'
    BY <1>1, <1>2, <2>1 DEF AndroidOK, ServiceOK, ConnsOK, Alive, ConnectedIsOpen, OwnDescriptor
  <2>6. QED
    BY <1>3, <2>3, <2>4, <2>5, PartsPrimed DEF MainInv
<1>6. CASE HandleError
  <2>1. Take("ioError") /\ UNCHANGED <<android, conns, handled>>
    BY <1>6 DEF HandleError
  <2>2. service' = Shut(service) \/ service' = service
    BY <1>6 DEF HandleError
  <2>3. /\ ServiceOK' /\ ConnsOK' /\ ConnectedIsOpen' /\ OwnDescriptor'
        /\ service'.alive = service.alive /\ service'.instance = service.instance
    <3>1. CASE service' = Shut(service)
      BY <1>1, <2>1, <3>1, ShutInv
    <3>2. CASE service' = service
      BY <1>1, <2>1, <3>2 DEF ServiceOK, ConnsOK, ConnectedIsOpen, OwnDescriptor
    <3>3. QED
      BY <2>2, <3>1, <3>2
  <2>4. QueueOK' /\ HandledOK' /\ Numbered'
    BY <1>1, <1>4, <2>1 DEF Numbered, Holding, HandledOK
  <2>5. AndroidOK' /\ Alive'
    BY <1>1, <1>2, <2>1, <2>3 DEF AndroidOK, Alive
  <2>6. QED
    BY <1>3, <2>3, <2>4, <2>5, PartsPrimed DEF MainInv
<1>7. ASSUME UNCHANGED <<queue, handled>>, AndroidOK',
             bound # {} \/ android'.commands > 0 \/ android'.rebinds > 0 => service'.alive,
             service'.alive => service'.instance > 0,
             ServiceOK', UNCHANGED conns, ConnectedIsOpen', OwnDescriptor'
      PROVE  ServiceInv'
  <2>1. QueueOK' /\ HandledOK' /\ Numbered' /\ ConnsOK'
    BY <1>1, <1>7 DEF QueueOK, HandledOK, Numbered, Holding, ConnsOK
  <2>2. Alive'
    BY <1>2, <1>7 DEF Alive
  <2>3. QED
    BY <1>3, <1>7, <2>1, <2>2, PartsPrimed DEF MainInv
<1>8. CASE HandleDetached
  <2>1. /\ android' = [android EXCEPT !.detached = @ - 1] /\ android.detached > 0
        /\ service.alive /\ service' = Shut(service) /\ UNCHANGED <<conns, queue, handled>>
    BY <1>8 DEF HandleDetached
  <2>2. AndroidOK' /\ android'.commands = android.commands /\ android'.rebinds = android.rebinds
    BY <1>1, <2>1 DEF AndroidOK
  <2>3. /\ ServiceOK' /\ ConnectedIsOpen' /\ OwnDescriptor'
        /\ service'.alive = service.alive /\ service'.instance = service.instance
    BY <1>1, <2>1, ShutInv
  <2>4. QED
    BY <1>1, <1>7, <2>1, <2>2, <2>3 DEF Alive
<1>9. CASE StartService
  <2>1. /\ android' = [android EXCEPT !.attached = @ - 1, !.commands = @ + 1]
        /\ android.attached > 0 /\ MayCreate
        /\ service' = [Created EXCEPT !.started = TRUE]
        /\ UNCHANGED <<conns, queue, handled>>
    BY <1>9 DEF StartService
  <2>2. AndroidOK'
    <3>1. android.attached - 1 \in Nat /\ android.commands + 1 \in Nat
      BY <1>1, <2>1 DEF AndroidOK
    <3>2. android' = [listed |-> android.listed, detached |-> android.detached,
                      attached |-> android.attached - 1, commands |-> android.commands + 1,
                      rebinds |-> android.rebinds, unbound |-> android.unbound]
      BY <1>1, <2>1 DEF AndroidOK
    <3>3. QED
      BY <1>1, <3>1, <3>2 DEF AndroidOK
  <2>3. /\ service'.alive = Created.alive /\ service'.instance = Created.instance
        /\ service'.fd = Created.fd /\ service'.accessory = Created.accessory
        /\ ServiceOK'
    BY <1>1, <2>1, CreatedInv DEF ServiceOK
  <2>4. ConnectedIsOpen' /\ OwnDescriptor' /\ service'.alive /\ service'.instance > 0
    BY <1>1, <2>1, <2>3, CreatedInv DEF ConnectedIsOpen, OwnDescriptor
  <2>5. QED
    BY <1>7, <1>9, <2>1, <2>2, <2>3, <2>4
<1>10. ASSUME NEW outcome \in Outcomes, HandleCommand(outcome) \/ HandleRebind(outcome)
       PROVE  ServiceInv'
  <2>1. Attach(outcome) /\ service.alive /\ UNCHANGED <<queue, handled>>
    BY <1>1, <1>10 DEF HandleCommand, HandleRebind, Alive
  <2>2. /\ ServiceOK' /\ ConnsOK' /\ QueueOK' /\ HandledOK'
        /\ Numbered' /\ ConnectedIsOpen' /\ OwnDescriptor'
        /\ service'.alive = service.alive /\ service'.instance = service.instance
    BY <1>2, <1>10, <2>1, AttachInv
  <2>3. AndroidOK'
    BY <1>1, <1>10 DEF HandleCommand, HandleRebind, AndroidOK
  <2>4. Alive'
    BY <1>1, <2>1, <2>2 DEF Alive
  <2>5. QED
    BY <1>3, <2>2, <2>3, <2>4, PartsPrimed DEF MainInv
<1>11. CASE DestroyService
  <2>1. /\ Doomed /\ android.commands = 0 /\ android.rebinds = 0
        /\ service' = [Shut(service) EXCEPT !.alive = FALSE]
        /\ android' = [android EXCEPT !.detached = 0, !.unbound = FALSE]
        /\ UNCHANGED <<conns, queue, handled>>
    BY <1>11 DEF DestroyService
  <2>2. AndroidOK' /\ android'.commands = 0 /\ android'.rebinds = 0
    BY <1>1, <2>1 DEF AndroidOK
  <2>3. service' = [alive |-> FALSE, instance |-> service.instance, started |-> FALSE,
                    fd |-> Null, accessory |-> Null]
    BY <1>1, <2>1 DEF Shut, ServiceOK
  <2>4. /\ Null \in 0..Len(conns') /\ Null \in 0..MaxSessions
        /\ service.instance \in 0..MaxInstances
    BY <1>1, <2>1, UsbBounds DEF Null, ConnsOK, ServiceOK
  <2>5. ServiceOK'
    BY <2>3, <2>4 DEF ServiceOK
  <2>6. ConnectedIsOpen' /\ OwnDescriptor' /\ bound = {}
    BY <2>1, <2>3 DEF ConnectedIsOpen, OwnDescriptor, Doomed
  <2>7. QED
    BY <1>7, <2>1, <2>2, <2>3, <2>5, <2>6
<1>12. QED
  BY <1>5, <1>6, <1>8, <1>9, <1>10, <1>11 DEF MainThread

\* The steps of a client, bound or on its way: it may bind again.
Binds(c) == Bind(c) /\ UNCHANGED listeners

LEMMA ClientInv ==
  ASSUME ServiceInv, NEW c \in Clients, Binds(c) \/ Listen(c) \/ Leave(c) \/ Abandon(c)
  PROVE  ServiceInv'
<1>1. /\ TableOK /\ ClientsOK /\ Plugged /\ MainInv
      /\ AndroidOK /\ ServiceOK /\ ConnsOK /\ QueueOK /\ HandledOK
      /\ Alive /\ Numbered /\ ConnectedIsOpen /\ OwnDescriptor
  BY Parts DEF MainInv
<1>2. UNCHANGED <<table, conns, queue, handled>>
  BY DEF Binds, Leave, Abandon, Bind, Listen, Unbind
<1>3. TableOK' /\ ConnsOK' /\ QueueOK' /\ HandledOK' /\ Numbered'
  BY <1>1, <1>2 DEF TableOK, ConnsOK, QueueOK, HandledOK, Numbered, Holding
<1>4. ClientsOK' /\ AndroidOK' /\ ServiceOK' /\ Plugged' /\ Alive' /\ ConnectedIsOpen'
      /\ OwnDescriptor'
  <2>1. CASE Binds(c)
    <3>1. /\ MayCreate /\ bound' = bound \cup {c} /\ UNCHANGED listeners
          /\ service' = Created
          /\ android' = [android EXCEPT !.rebinds = IF android.unbound THEN @ + 1 ELSE @,
                                        !.unbound = FALSE]
      BY <2>1 DEF Binds, Bind
    <3> DEFINE n == IF android.unbound THEN android.rebinds + 1 ELSE android.rebinds
    <3>2. n \in Nat /\ android' = [android EXCEPT !.rebinds = n, !.unbound = FALSE]
      BY <1>1, <3>1 DEF AndroidOK
    <3>3. AndroidOK' /\ android'.listed = android.listed
      <4> HIDE DEF n
      <4>1. QED
        BY <1>1, <3>2 DEF AndroidOK
    <3>4. ServiceOK' /\ Alive' /\ ConnectedIsOpen' /\ OwnDescriptor'
      BY <1>1, <1>2, <3>1, CreatedInv DEF ServiceOK, Alive, ConnectedIsOpen, OwnDescriptor
    <3>5. ClientsOK' /\ Plugged'
      BY <1>1, <1>2, <3>1, <3>3 DEF ClientsOK, Plugged
    <3>6. QED
      BY <3>3, <3>4, <3>5
  <2>2. CASE Listen(c)
    <3>1. /\ c \in bound /\ listeners' = listeners \cup {<<c, service.instance>>}
          /\ UNCHANGED <<android, service, bound>>
      BY <2>2 DEF Listen
    <3>2. service.instance \in 1..MaxInstances
      BY <1>1, <3>1 DEF Alive, ServiceOK
    <3>3. ClientsOK'
      BY <1>1, <3>1, <3>2 DEF ClientsOK
    <3>4. QED
      BY <1>1, <1>2, <3>1, <3>3 DEF AndroidOK, ServiceOK, Plugged, Alive, ConnectedIsOpen,
         OwnDescriptor
  <2>3. CASE Leave(c) \/ Abandon(c)
    <3>1. /\ bound' = bound \ {c} /\ listeners' \subseteq listeners /\ UNCHANGED service
          /\ c \in bound
          /\ android' = [android EXCEPT !.unbound = (bound = {c})]
      BY <2>3 DEF Leave, Abandon, Unbind
    <3> DEFINE last == bound = {c}
    <3>2. last \in BOOLEAN /\ android' = [android EXCEPT !.unbound = last]
      BY <3>1
    <3>3. /\ AndroidOK' /\ android'.listed = android.listed
          /\ android'.commands = android.commands /\ android'.rebinds = android.rebinds
      <4> HIDE DEF last
      <4>1. QED
        BY <1>1, <3>2 DEF AndroidOK
    <3>4. QED
      BY <1>1, <1>2, <3>1, <3>3 DEF ClientsOK, ServiceOK, Plugged, Alive, ConnectedIsOpen,
         OwnDescriptor
  <2>4. QED
    BY <2>1, <2>2, <2>3
<1>5. QED
  BY <1>1, <1>3, <1>4, PartsPrimed DEF MainInv

\* The invariant holds in every behaviour of the service.
LEMMA Invariance == Spec => []ServiceInv
<1>1. ServiceInv /\ [Next]_usbVars => ServiceInv'
  <2>1. ASSUME ServiceInv, UNCHANGED usbVars PROVE ServiceInv'
    BY <2>1 DEF usbVars, ServiceInv, TypeOK, Plugged, Alive, Numbered, Holding,
       ConnectedIsOpen, OwnDescriptor
  <2>2. QED
    BY <2>1, EnvironmentInv, ReaderInv, MainThreadInv, ClientInv DEF Next, Client, Join, Binds
<1>2. QED
  BY <1>1, InitInv, PTL DEF Spec

\* The fields of the service, its threads and the queue keep their types.
THEOREM ServiceTypeCorrect == Spec => []TypeOK
<1>1. ServiceInv => TypeOK
  BY DEF ServiceInv
<1>2. QED
  BY <1>1, Invariance, PTL

\* No listener is told of an accessory that is not open: attachAccessoryIfAny
\* leaves the field accessory set only with a descriptor.
THEOREM ConnectedCorrect == Spec => []ConnectedIsOpen
<1>1. ServiceInv => ConnectedIsOpen
  BY DEF ServiceInv
<1>2. QED
  BY <1>1, Invariance, PTL

\* The descriptor the service holds is of a thread that posts to this instance,
\* however often it was destroyed and made again.
THEOREM DescriptorCorrect == Spec => []OwnDescriptor
<1>1. ServiceInv => OwnDescriptor
  BY DEF ServiceInv
<1>2. QED
  BY <1>1, Invariance, PTL
-----------------------------------------------------------------------------
\* Where a message is.
OnWire(m)  == \E i \in 1..Len(table.wire) : table.wire[i] = m
Held(m)    == \E c \in 1..Len(conns) : Holding(c) /\ conns[c].msg = m
Queued(m)  == \E i \in 1..Len(queue) : queue[i].what = "in" /\ queue[i].msg = m
Handled(m) == \E i \in 1..Len(handled) : handled[i].msg = m

OnePlace == \A m : /\ OnWire(m) \/ Held(m) \/ Queued(m) \/ Handled(m) => m \in 1..table.sent
                   /\ ~(OnWire(m) /\ (Held(m) \/ Queued(m) \/ Handled(m)))
                   /\ ~(Held(m) /\ (Queued(m) \/ Handled(m)))
                   /\ ~(Queued(m) /\ Handled(m))

\* And once in each place that a step takes it from.
OnceOnWire == \A i, j \in 1..Len(table.wire) : table.wire[i] = table.wire[j] => i = j
OnceHeld   == \A c, d \in 1..Len(conns) :
                Holding(c) /\ Holding(d) /\ conns[c].msg = conns[d].msg => c = d
OnceQueued == \A i, j \in 1..Len(queue) :
                /\ queue[i].what = "in" /\ queue[j].what = "in"
                /\ queue[i].msg = queue[j].msg
                => i = j

LinkInv == OnePlace /\ OnceOnWire /\ OnceHeld /\ OnceQueued

\* Taking the head off a sequence, and putting an element at its end.
LEMMA OffHead ==
  ASSUME NEW S, NEW s \in Seq(S), s # <<>>
  PROVE  /\ Tail(s) \in Seq(S) /\ Len(Tail(s)) = Len(s) - 1 /\ Len(s) \in Nat /\ Len(s) > 0
         /\ Head(s) = s[1]
         /\ \A i \in 1..Len(Tail(s)) : Tail(s)[i] = s[i + 1] /\ i + 1 \in 1..Len(s)
<1>1. /\ Len(s) \in Nat /\ Len(s) > 0 /\ Tail(s) \in Seq(S)
      /\ Len(Tail(s)) = Len(s) - 1
      /\ \A i \in 1..Len(Tail(s)) : Tail(s)[i] = s[i + 1]
  BY HeadTailProperties, EmptySeq, LenProperties
<1>2. Head(s) = s[1]
  OBVIOUS
<1>3. QED
  BY <1>1, <1>2

LEMMA AtEnd ==
  ASSUME NEW S, NEW s \in Seq(S), NEW e \in S
  PROVE  /\ Append(s, e) \in Seq(S) /\ Len(Append(s, e)) = Len(s) + 1 /\ Len(s) \in Nat
         /\ \A i \in 1..Len(s) : Append(s, e)[i] = s[i]
         /\ Append(s, e)[Len(s) + 1] = e
         /\ \A i \in 1..(Len(s) + 1) : i \in 1..Len(s) \/ i = Len(s) + 1
<1>1. Len(s) \in Nat
  OBVIOUS
<1>2. \A i \in 1..(Len(s) + 1) : i \in 1..Len(s) \/ i = Len(s) + 1
  BY <1>1
<1>3. QED
  BY <1>1, <1>2, AppendProperties

\* A step that leaves the wire, or empties it, leaves a message where it was.
LEMMA KeepsOnWire ==
  ASSUME TableOK, OnceOnWire, table'.wire \in {table.wire, <<>>}
  PROVE  OnceOnWire' /\ \A m : OnWire(m)' => OnWire(m)
<1>1. CASE table'.wire = table.wire
  BY <1>1 DEF OnceOnWire, OnWire
<1>2. CASE table'.wire = <<>>
  BY <1>2 DEF OnceOnWire, OnWire
<1>3. QED
  BY <1>1, <1>2

LEMMA KeepsHeld ==
  ASSUME OnceHeld, ConnsOK, ConnsOK',
         \A c \in 1..Len(conns') : conns'[c].reader = "holding" =>
           c \in 1..Len(conns) /\ conns'[c] = conns[c]
  PROVE  OnceHeld' /\ \A m : Held(m)' => Held(m)
BY DEF OnceHeld, Held, Holding

LEMMA KeepsQueued ==
  ASSUME OnceQueued, NEW n, queue \in Seq(QueueType(n)),
         \/ queue' = queue
         \/ queue # <<>> /\ queue' = Tail(queue)
         \/ \E e \in QueueType(n) : e.what # "in" /\ queue' = Append(queue, e)
  PROVE  OnceQueued' /\ \A m : Queued(m)' => Queued(m)
<1>1. CASE queue' = queue
  BY <1>1 DEF OnceQueued, Queued
<1>2. CASE queue # <<>> /\ queue' = Tail(queue)
  BY <1>2, OffHead DEF OnceQueued, Queued
<1>3. CASE \E e \in QueueType(n) : e.what # "in" /\ queue' = Append(queue, e)
  <2>1. PICK e \in QueueType(n) : e.what # "in" /\ queue' = Append(queue, e)
    BY <1>3
  <2>2. /\ Len(queue') = Len(queue) + 1 /\ queue'[Len(queue) + 1] = e
        /\ \A i \in 1..Len(queue) : queue'[i] = queue[i]
        /\ \A i \in 1..Len(queue') : i \in 1..Len(queue) \/ i = Len(queue) + 1
    BY <2>1, AtEnd
  <2>3. QED
    BY <2>1, <2>2 DEF OnceQueued, Queued
<1>4. QED
  BY <1>1, <1>2, <1>3

\* A step that only loses messages.
LEMMA Loses ==
  ASSUME LinkInv, OnceOnWire', OnceHeld', OnceQueued', table'.sent = table.sent,
         UNCHANGED handled,
         \A m : (OnWire(m)' => OnWire(m)) /\ (Held(m)' => Held(m)) /\ (Queued(m)' => Queued(m))
  PROVE  LinkInv'
<1>1. \A m : Handled(m)' <=> Handled(m)
  BY DEF Handled
<1>2. OnePlace'
  BY <1>1 DEF LinkInv, OnePlace
<1>3. QED
  BY <1>2 DEF LinkInv

LEMMA Keeps ==
  ASSUME ServiceInv, ServiceInv', LinkInv, UNCHANGED handled,
         table'.sent = table.sent, table'.wire \in {table.wire, <<>>},
         \A c \in 1..Len(conns') : conns'[c].reader = "holding" =>
           c \in 1..Len(conns) /\ conns'[c] = conns[c],
         \/ queue' = queue
         \/ queue # <<>> /\ queue' = Tail(queue)
         \/ \E e \in QueueType(Len(conns)) : e.what # "in" /\ queue' = Append(queue, e)
  PROVE  LinkInv'
<1>1. TableOK /\ ConnsOK /\ ConnsOK' /\ queue \in Seq(QueueType(Len(conns)))
  BY Types DEF ServiceInv, TypeOK, ConnsOK, QueueOK, ConnType
<1>2. OnceOnWire' /\ \A m : OnWire(m)' => OnWire(m)
  BY <1>1, KeepsOnWire DEF LinkInv
<1>3. OnceHeld' /\ \A m : Held(m)' => Held(m)
  BY <1>1, KeepsHeld DEF LinkInv
<1>4. OnceQueued' /\ \A m : Queued(m)' => Queued(m)
  BY <1>1, KeepsQueued DEF LinkInv
<1>5. QED
  BY <1>2, <1>3, <1>4, Loses

LEMMA InitLink == Init => LinkInv
BY DEF Init, LinkInv, OnePlace, OnceOnWire, OnceHeld, OnceQueued,
       OnWire, Held, Queued, Handled

\* The table's message is new, and nowhere else.
LEMMA TableWritesLink ==
  ASSUME ServiceInv, LinkInv, TableWrites
  PROVE  LinkInv'
<1> DEFINE new == table.sent + 1
<1>1. TableOK /\ table.sent \in Nat /\ new \in 1..MaxSent
  BY Types, UsbBounds DEF ServiceInv, TableOK, TableWrites
<1>2. /\ table'.sent = new /\ table'.wire = Append(table.wire, new)
      /\ table.wire \in Seq(1..MaxSent) /\ UNCHANGED <<conns, queue, handled>>
  BY <1>1 DEF TableWrites, TableOK
<1>3. /\ Len(table'.wire) = Len(table.wire) + 1 /\ Len(table.wire) \in Nat
      /\ \A i \in 1..Len(table.wire) : table'.wire[i] = table.wire[i]
      /\ table'.wire[Len(table.wire) + 1] = new
      /\ \A i \in 1..(Len(table.wire) + 1) : i \in 1..Len(table.wire) \/ i = Len(table.wire) + 1
  BY <1>1, <1>2, AtEnd
<1>4. \A m : OnWire(m)' => OnWire(m) \/ m = new
  BY <1>3 DEF OnWire
<1>5. \A m : /\ Held(m)' <=> Held(m)
             /\ Queued(m)' <=> Queued(m)
             /\ Handled(m)' <=> Handled(m)
  BY <1>2 DEF Held, Holding, Queued, Handled
<1>6. ~OnWire(new) /\ ~Held(new) /\ ~Queued(new) /\ ~Handled(new)
  BY <1>1 DEF LinkInv, OnePlace
<1>7. \A m : m \in 1..table.sent => m \in 1..new
  BY <1>1
<1>8. OnePlace'
  <2>1. new \in 1..new
    BY <1>1
  <2> HIDE DEF new
  <2>2. QED
    BY <1>2, <1>4, <1>5, <1>6, <1>7, <2>1 DEF LinkInv, OnePlace
<1>9. OnceOnWire'
  <2>1. \A i \in 1..Len(table.wire) : table.wire[i] # new
    BY <1>6 DEF OnWire
  <2> HIDE DEF new
  <2>2. QED
    BY <1>3, <2>1 DEF LinkInv, OnceOnWire
<1>10. OnceHeld' /\ OnceQueued'
  BY <1>2 DEF LinkInv, OnceHeld, OnceQueued, Holding
<1>11. QED
  BY <1>8, <1>9, <1>10 DEF LinkInv

\* From the wire to the thread that reads it.
LEMMA ReadMessageLink ==
  ASSUME ServiceInv, LinkInv, NEW c \in Conns, ReadMessage(c)
  PROVE  LinkInv'
<1> DEFINE new == Head(table.wire)
<1>1. TableOK /\ ConnsOK /\ c \in 1..Len(conns)
  BY Types DEF ServiceInv, Conns, ConnsOK
<1>2. table.wire \in Seq(1..MaxSent) /\ table.wire # <<>>
  BY <1>1 DEF ReadMessage, TableOK
<1>3. /\ Len(Tail(table.wire)) = Len(table.wire) - 1 /\ Len(table.wire) \in Nat
      /\ Len(table.wire) > 0 /\ new = table.wire[1] /\ new \in 1..MaxSent
      /\ \A i \in 1..Len(Tail(table.wire)) :
           Tail(table.wire)[i] = table.wire[i + 1] /\ i + 1 \in 1..Len(table.wire)
  BY <1>2, OffHead, HeadTailProperties
<1>4. /\ table'.sent = table.sent /\ table'.wire = Tail(table.wire)
      /\ UNCHANGED <<queue, handled>>
  BY <1>1 DEF ReadMessage, TableOK
<1>5. /\ Len(conns') = Len(conns) /\ conns'[c].reader = "holding" /\ conns'[c].msg = new
      /\ \A d \in 1..Len(conns) : d # c => conns'[d] = conns[d]
  BY <1>1, <1>3, ReaderMoves DEF ReadMessage, ReaderStates
<1>6. OnWire(new)
  BY <1>3 DEF OnWire
<1>7. ~Held(new) /\ ~Queued(new) /\ ~Handled(new)
  BY <1>6 DEF LinkInv, OnePlace
<1>8. \A m : OnWire(m)' => OnWire(m) /\ m # new
  BY <1>3, <1>4 DEF OnWire, LinkInv, OnceOnWire
<1>9. \A m : Held(m)' => Held(m) \/ m = new
  BY <1>5 DEF Held, Holding
<1>10. \A m : (Queued(m)' <=> Queued(m)) /\ (Handled(m)' <=> Handled(m))
  BY <1>4 DEF Queued, Handled
<1>11. OnePlace'
  <2> HIDE DEF new
  <2> QED
    BY <1>4, <1>6, <1>7, <1>8, <1>9, <1>10 DEF LinkInv, OnePlace
<1>12. OnceOnWire'
  <2>1. ASSUME NEW i \in 1..Len(Tail(table.wire)), NEW j \in 1..Len(Tail(table.wire)),
               Tail(table.wire)[i] = Tail(table.wire)[j]
        PROVE  i = j
    <3>1. i + 1 \in 1..Len(table.wire) /\ j + 1 \in 1..Len(table.wire)
      BY <1>3
    <3>2. table.wire[i + 1] = table.wire[j + 1]
      BY <1>3, <2>1
    <3>3. i + 1 = j + 1
      BY <3>1, <3>2 DEF LinkInv, OnceOnWire
    <3>4. QED
      BY <1>3, <3>3
  <2>2. QED
    BY <1>4, <2>1 DEF OnceOnWire
<1>13. OnceHeld'
  <2>1. \A d \in 1..Len(conns) : Holding(d) => conns[d].msg # new
    BY <1>7 DEF Held
  <2> HIDE DEF new
  <2>2. QED
    BY <1>5, <2>1 DEF LinkInv, OnceHeld, Holding
<1>14. OnceQueued'
  BY <1>4 DEF LinkInv, OnceQueued
<1>15. QED
  BY <1>11, <1>12, <1>13, <1>14 DEF LinkInv

\* From the thread to the Handler's queue.
LEMMA PostMessageLink ==
  ASSUME ServiceInv, LinkInv, NEW c \in Conns, PostMessage(c)
  PROVE  LinkInv'
<1> DEFINE new == conns[c].msg
           e == [what |-> "in", conn |-> c, msg |-> new]
<1>1. /\ ConnsOK /\ c \in 1..Len(conns) /\ conns[c] \in ConnType
      /\ queue \in Seq(QueueType(Len(conns)))
  BY Types DEF ServiceInv, Conns, ConnsOK, QueueOK
<1>2. e \in QueueType(Len(conns)) /\ e.what = "in" /\ e.msg = new
  BY <1>1 DEF QueueType, ConnType
<1>3. queue' = Append(queue, e) /\ Holding(c) /\ UNCHANGED <<table, handled>>
  BY DEF PostMessage, Holding
<1> HIDE DEF e
<1>4. /\ Len(queue') = Len(queue) + 1 /\ Len(queue) \in Nat
      /\ \A i \in 1..Len(queue) : queue'[i] = queue[i]
      /\ queue'[Len(queue) + 1] = e
      /\ \A i \in 1..(Len(queue) + 1) : i \in 1..Len(queue) \/ i = Len(queue) + 1
  BY <1>1, <1>2, <1>3, AtEnd
<1>5. /\ Len(conns') = Len(conns) /\ conns'[c].reader # "holding"
      /\ \A d \in 1..Len(conns) : d # c => conns'[d] = conns[d]
  <2>1. PICK state \in {"failing", "reading"} : SetReader(c, state, 0)
    BY DEF PostMessage
  <2>2. QED
    BY <1>1, <2>1, ReaderMoves, UsbBounds DEF ReaderStates
<1>6. Held(new)
  BY <1>1, <1>3 DEF Held
<1>7. ~OnWire(new) /\ ~Queued(new) /\ ~Handled(new)
  BY <1>6 DEF LinkInv, OnePlace
<1>8. \A m : Held(m)' => Held(m) /\ m # new
  BY <1>1, <1>3, <1>5 DEF Held, Holding, LinkInv, OnceHeld
<1>9. \A m : Queued(m)' => Queued(m) \/ m = new
  BY <1>2, <1>4 DEF Queued
<1>10. \A m : (OnWire(m)' <=> OnWire(m)) /\ (Handled(m)' <=> Handled(m))
  BY <1>3 DEF OnWire, Handled
<1>11. OnePlace'
  <2> HIDE DEF new
  <2> QED
    BY <1>3, <1>6, <1>7, <1>8, <1>9, <1>10 DEF LinkInv, OnePlace
<1>12. OnceQueued'
  <2>1. \A i \in 1..Len(queue) : queue[i].what = "in" => queue[i].msg # new
    BY <1>7 DEF Queued
  <2> HIDE DEF new
  <2>2. QED
    BY <1>2, <1>4, <2>1 DEF LinkInv, OnceQueued
<1>13. OnceHeld'
  BY <1>5 DEF LinkInv, OnceHeld, Holding
<1>14. OnceOnWire'
  BY <1>3 DEF LinkInv, OnceOnWire
<1>15. QED
  BY <1>11, <1>12, <1>13, <1>14 DEF LinkInv

\* From the queue to newMessageFromAccessory.
LEMMA HandleMessageLink ==
  ASSUME ServiceInv, LinkInv, HandleMessage
  PROVE  /\ LinkInv'
         /\ Head(queue).msg \in 1..table.sent /\ ~Handled(Head(queue).msg)
         /\ Len(handled') = Len(handled) + 1 /\ Len(handled) \in Nat
         /\ \A i \in 1..Len(handled) : handled'[i] = handled[i]
         /\ handled'[Len(handled) + 1].msg = Head(queue).msg
<1> DEFINE new == Head(queue).msg
           e == [conn |-> Head(queue).conn, msg |-> new]
<1>1. /\ queue \in Seq(QueueType(Len(conns))) /\ queue # <<>> /\ Head(queue).what = "in"
      /\ handled \in Seq(HandledType(Len(conns)))
      /\ \A i \in 1..Len(queue) : queue[i].what = "in" => queue[i].msg > 0
  BY Types DEF ServiceInv, QueueOK, HandledOK, HandleMessage, Take, Numbered
<1>2. /\ Len(Tail(queue)) = Len(queue) - 1 /\ Len(queue) \in Nat /\ Len(queue) > 0
      /\ Head(queue) = queue[1] /\ Head(queue) \in QueueType(Len(conns))
      /\ \A i \in 1..Len(Tail(queue)) : Tail(queue)[i] = queue[i + 1] /\ i + 1 \in 1..Len(queue)
  BY <1>1, OffHead, HeadTailProperties
<1>3. /\ queue' = Tail(queue) /\ UNCHANGED <<table, conns>>
      /\ handled' = Append(handled, e)
  BY DEF HandleMessage, Take
<1>4. e \in HandledType(Len(conns)) /\ e.msg = new
  BY <1>1, <1>2 DEF QueueType, HandledType
<1> HIDE DEF e
<1>5. /\ Len(handled') = Len(handled) + 1 /\ Len(handled) \in Nat
      /\ \A i \in 1..Len(handled) : handled'[i] = handled[i]
      /\ handled'[Len(handled) + 1] = e
      /\ \A i \in 1..(Len(handled) + 1) : i \in 1..Len(handled) \/ i = Len(handled) + 1
  BY <1>1, <1>3, <1>4, AtEnd
<1>6. Queued(new)
  BY <1>1, <1>2 DEF Queued
<1>7. ~OnWire(new) /\ ~Held(new) /\ ~Handled(new) /\ new \in 1..table.sent
  BY <1>6 DEF LinkInv, OnePlace
<1>8. \A m : Queued(m)' => Queued(m) /\ m # new
  BY <1>1, <1>2, <1>3 DEF Queued, LinkInv, OnceQueued
<1>9. \A m : Handled(m)' => Handled(m) \/ m = new
  BY <1>4, <1>5 DEF Handled
<1>10. \A m : (OnWire(m)' <=> OnWire(m)) /\ (Held(m)' <=> Held(m))
  BY <1>3 DEF OnWire, Held, Holding
<1>11. OnePlace'
  <2> HIDE DEF new
  <2> QED
    BY <1>3, <1>6, <1>7, <1>8, <1>9, <1>10 DEF LinkInv, OnePlace
<1>12. OnceQueued'
  BY <1>2, <1>3 DEF LinkInv, OnceQueued
<1>13. OnceOnWire' /\ OnceHeld'
  BY <1>3 DEF LinkInv, OnceOnWire, OnceHeld, Holding
<1>14. QED
  BY <1>4, <1>5, <1>7, <1>11, <1>12, <1>13 DEF LinkInv

\* Every other step leaves the messages where they are, or loses them.
LEMMA MainQuiet ==
  ASSUME ServiceInv, ServiceInv', LinkInv, MainThread, ~HandleMessage
  PROVE  LinkInv' /\ table' = table /\ handled' = handled
<1>1. /\ table \in [attached : BOOLEAN, session : 0..MaxSessions,
                    wire : Seq(1..MaxSent), sent : 0..MaxSent]
      /\ ConnsOK
  BY Types DEF ServiceInv, TableOK
<1>2. table' = table /\ handled' = handled
  BY DEF MainThread, HandleError, HandleDetached, StartService,
     HandleCommand, HandleRebind, DestroyService
<1>3. queue' = queue \/ (queue # <<>> /\ queue' = Tail(queue))
  BY DEF MainThread, HandleError, HandleDetached, StartService,
     HandleCommand, HandleRebind, DestroyService, Take
<1>4. conns' = conns \/ conns' = Append(conns, NewConn)
  BY DEF MainThread, HandleError, HandleDetached, StartService,
     HandleCommand, HandleRebind, DestroyService, Attach
<1>5. ASSUME NEW c \in 1..Len(conns'), conns'[c].reader = "holding"
      PROVE  c \in 1..Len(conns) /\ conns'[c] = conns[c]
  <2>1. CASE conns' = conns
    BY <1>5, <2>1
  <2>2. CASE conns' = Append(conns, NewConn)
    <3>1. /\ Len(conns) \in Nat /\ Len(conns') = Len(conns) + 1
          /\ \A d \in 1..Len(conns) : conns'[d] = conns[d]
          /\ conns'[Len(conns) + 1] = NewConn
      BY <1>1, <2>2 DEF ConnsOK
    <3>2. c # Len(conns) + 1
      BY <1>5, <3>1 DEF NewConn
    <3>3. QED
      BY <3>1, <3>2
  <2>3. QED
    BY <1>4, <2>1, <2>2
<1>6. QED
  BY <1>2, <1>3, <1>5, Keeps

LEMMA ReaderQuiet ==
  ASSUME ServiceInv, ServiceInv', LinkInv, NEW c \in Conns, ReadFails(c) \/ ReadEnds(c)
  PROVE  LinkInv' /\ table' = table /\ handled' = handled
<1>1. ConnsOK /\ c \in 1..Len(conns)
  BY Types DEF ServiceInv, Conns, ConnsOK
<1>2. table' = table /\ handled' = handled /\ SetReader(c, "done", 0)
  BY DEF ReadFails, ReadEnds
<1>3. /\ Len(conns') = Len(conns) /\ conns'[c].reader = "done"
      /\ \A d \in 1..Len(conns) : d # c => conns'[d] = conns[d]
  BY <1>1, <1>2, ReaderMoves, UsbBounds DEF ReaderStates
<1>4. queue' = queue \/ \E e \in QueueType(Len(conns)) :
                          e.what # "in" /\ queue' = Append(queue, e)
  <2>1. [what |-> "ioError", conn |-> c, msg |-> 0] \in QueueType(Len(conns))
    BY <1>1, UsbBounds DEF QueueType
  <2>2. QED
    BY <2>1 DEF ReadFails, ReadEnds
<1>5. QED
  BY <1>2, <1>3, <1>4, Keeps

LEMMA CableQuiet ==
  ASSUME ServiceInv, ServiceInv', LinkInv,
         Plug \/ Unplug \/ NoticeUnplug \/ \E c \in Clients : Client(c)
  PROVE  LinkInv' /\ table'.sent = table.sent /\ handled' = handled
<1>1. UNCHANGED <<conns, queue, handled>>
  BY DEF Plug, Unplug, NoticeUnplug, Client, Join, Bind, Listen, Leave, Abandon, Unbind
<1>2. TableOK
  BY Types DEF ServiceInv
<1>3. table'.sent = table.sent /\ table'.wire \in {table.wire, <<>>}
  BY <1>2 DEF Plug, Unplug, NoticeUnplug, Client, Join, Bind, Listen, Leave, Abandon, Unbind,
     TableOK
<1>4. QED
  BY <1>1, <1>3, Keeps
-----------------------------------------------------------------------------
\* What the link has of the messages handled.
LEMMA Messages ==
  ASSUME NEW n, NEW h \in Seq(HandledType(n))
  PROVE  /\ [i \in DOMAIN h |-> h[i].msg] \in Seq(1..MaxSent)
         /\ Len([i \in DOMAIN h |-> h[i].msg]) = Len(h)
         /\ \A j \in 1..Len(h) : [i \in DOMAIN h |-> h[i].msg][j] = h[j].msg
<1>1. Len(h) \in Nat /\ DOMAIN h = 1..Len(h)
  OBVIOUS
<1>2. \A i \in 1..Len(h) : h[i].msg \in 1..MaxSent
  <2>1. \A i \in 1..Len(h) : h[i] \in HandledType(n)
    OBVIOUS
  <2>2. QED
    BY <2>1 DEF HandledType
<1> DEFINE g == [i \in DOMAIN h |-> h[i].msg]
<1>3. g \in [1..Len(h) -> 1..MaxSent]
  BY <1>1, <1>2
<1>4. \A f, k, S : k \in Nat /\ f \in [1..k -> S] => f \in Seq(S) /\ Len(f) = k
  OBVIOUS
<1>5. g \in Seq(1..MaxSent) /\ Len(g) = Len(h)
  BY <1>1, <1>3, <1>4
<1>6. QED
  BY <1>1, <1>5

\* The steps of the link.
LEMMA LinkSteps ==
  ASSUME ServiceInv, ServiceInv', LinkInv, [Next]_usbVars
  PROVE  LinkInv' /\ [Link!Next]_<<table.sent, [i \in DOMAIN handled |-> handled[i].msg]>>
<1> DEFINE got == [i \in DOMAIN handled |-> handled[i].msg]
<1>1. handled \in Seq(HandledType(Len(conns))) /\ TableOK /\ table.sent \in Nat
  BY Types, UsbBounds DEF ServiceInv, HandledOK, TableOK
<1>2. CASE TableWrites
  <2>1. LinkInv'
    BY <1>2, TableWritesLink
  <2>2. table'.sent = table.sent + 1 /\ handled' = handled
    BY <1>1, <1>2 DEF TableWrites, TableOK
  <2>3. QED
    BY <2>1, <2>2 DEF Link!Next, Link!Send
<1>3. CASE HandleMessage
  <2> DEFINE m == Head(queue).msg
  <2>1. /\ LinkInv'
        /\ m \in 1..table.sent /\ ~Handled(m)
        /\ Len(handled') = Len(handled) + 1 /\ Len(handled) \in Nat
        /\ \A i \in 1..Len(handled) : handled'[i] = handled[i]
        /\ handled'[Len(handled) + 1].msg = m
    BY <1>3, HandleMessageLink
  <2>2. table' = table /\ handled' \in Seq(HandledType(Len(conns')))
    BY <1>3, Types DEF HandleMessage, ServiceInv, TypeOK, HandledType
  <2> HIDE DEF m
  <2>3. /\ got \in Seq(1..MaxSent) /\ Len(got) = Len(handled)
        /\ \A i \in 1..Len(handled) : got[i] = handled[i].msg
    BY <1>1, Messages
  <2>4. /\ got' \in Seq(1..MaxSent) /\ Len(got') = Len(handled')
        /\ \A i \in 1..Len(handled') : got'[i] = handled'[i].msg
    BY <2>2, Messages
  <2>5. m \notin {got[i] : i \in 1..Len(got)}
    BY <2>1, <2>3 DEF Handled
  <2>6. got' = Append(got, m)
    BY <2>1, <2>3, <2>4
  <2>7. m \notin Link!ToSet(got)
    BY <2>3, <2>5 DEF Link!ToSet
  <2>8. Link!Next
    BY <2>1, <2>2, <2>6, <2>7 DEF Link!Next, Link!Deliver
  <2>9. QED
    BY <2>1, <2>8
<1>4. CASE MainThread /\ ~HandleMessage
  BY <1>4, MainQuiet
<1>5. ASSUME NEW c \in Conns, Reader(c) PROVE LinkInv' /\ table'.sent = table.sent /\ handled' = handled
  <2>1. CASE ReadMessage(c)
    BY <1>1, <2>1, ReadMessageLink DEF ReadMessage, TableOK
  <2>2. CASE PostMessage(c)
    BY <2>2, PostMessageLink DEF PostMessage
  <2>3. CASE ReadFails(c) \/ ReadEnds(c)
    BY <2>3, ReaderQuiet
  <2>4. QED
    BY <1>5, <2>1, <2>2, <2>3 DEF Reader
<1>6. CASE Plug \/ Unplug \/ NoticeUnplug \/ \E c \in Clients : Client(c)
  BY <1>6, CableQuiet
<1>7. CASE UNCHANGED usbVars
  BY <1>7 DEF usbVars, LinkInv, OnePlace, OnceOnWire, OnceHeld, OnceQueued,
     OnWire, Held, Holding, Queued, Handled
<1>8. QED
  BY <1>2, <1>3, <1>4, <1>5, <1>6, <1>7 DEF Next, Environment

\* A message of the table is handled once at most, and none is made up: the
\* service implements LossyLink.
THEOREM LinkCorrect == Spec => ImplementsLossyLink
<1>1. Init => Link!Init
  BY DEF Init, Link!Init
<1>2. ServiceInv /\ ServiceInv' /\ LinkInv /\ [Next]_usbVars
        => LinkInv' /\ [Link!Next]_<<table.sent, [i \in DOMAIN handled |-> handled[i].msg]>>
  BY LinkSteps
<1>3. QED
  BY <1>1, <1>2, Invariance, InitLink, PTL DEF Spec, ImplementsLossyLink, Link!Spec
=============================================================================
