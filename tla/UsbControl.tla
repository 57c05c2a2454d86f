----------------------------- MODULE UsbControl -----------------------------
(***************************************************************************)
(* The control requests a phone is enumerated and switched with (ctrlReq,  *)
(* ctrlData, ctrlStatus and inTransfer, Usb.cpp), stage by stage and       *)
(* packet by packet, and the rounds of UsbTransfer that follow once a      *)
(* SET_CONFIGURATION has returned 0.                                       *)
(*                                                                         *)
(* The phone's endpoint 0 keeps to USB (external): a SETUP begins a        *)
(* request whatever it was in, the data begins with toggle 1, and the      *)
(* status ends the request.  The code sets the toggle to 1 as the data     *)
(* stage begins: no toggle of an earlier transfer is used.                 *)
(*                                                                         *)
(* The packets of a data stage are numbered.  The phone sends as much as   *)
(* it is asked for.                                                        *)
(***************************************************************************)
EXTENDS UsbTransfer

CONSTANT DataPackets   \* bound: packets of a data stage

ASSUME ControlBounds == DataPackets \in Nat \ {0}

VARIABLES req,    \* the request: what is asked, the data read, what ctrlReq returns
          step,   \* the packet that is dispatched, of which stage, and its retries
          pipe    \* the phone's endpoint 0

ctlVars     == <<req, step, pipe>>
controlVars == <<transferVars, ctlVars>>
-----------------------------------------------------------------------------
\* getDevDescr, getConfDescr and getProtocol read; sendString writes; setAddr and
\* START have no data, nor has setConf.
Kinds == {"get", "put", "set", "setConf"}

\* How many packets the data of a request may take.
DataOf(kind) == IF kind \in {"get", "put"} THEN 1..DataPackets ELSE {0}

\* The packets outTransfer gave up are dropped; unheard is whether the phone did
\* not hear the status acknowledged.
Request(kind, n) == [kind |-> kind, n |-> n, data |-> <<>>, dropped |-> {},
                     unheard |-> FALSE, result |-> "none"]

\* The phone in a request it has just been given.
Listening == [kind |-> req.kind, toggle |-> 1, next |-> 1, heard |-> {}, done |-> FALSE]

ControlInit == /\ Init /\ chip = [snd |-> 0, rcv |-> 0]
               /\ req = Request("set", 0) /\ step = Idle
               /\ pipe = [Listening EXCEPT !.kind = "none"]

Configured == req.kind = "setConf" /\ req.result = "ok"

\* ctrlReq begins with the setup stage.
ctrlReq == /\ step = Idle /\ ~Configured
           /\ \E kind \in Kinds : \E n \in DataOf(kind) : req' = Request(kind, n)
           /\ step' = Begin("setup", 0, FALSE)
           /\ UNCHANGED <<pipe, transferVars>>

Returns(result) == step' = Idle /\ req' = [req EXCEPT !.result = result]

TimeIsOver == /\ step # Idle /\ ~step.late
              /\ step' = [step EXCEPT !.late = TRUE]
              /\ UNCHANGED <<req, pipe, transferVars>>
-----------------------------------------------------------------------------
\* Mutant: the toggle is what the chip was left with.
BeginDataAnyToggle == UNCHANGED chip

\* The toggle a data stage begins with.
BeginData == chip' = IF req.kind = "get" THEN [chip EXCEPT !.rcv = 1]
                                         ELSE [chip EXCEPT !.snd = 1]

\* The setup is acknowledged: the data stage, if there is one, or the status.
SetupAcked == /\ step.fn = "setup"
              /\ pipe' = Listening
              /\ IF req.n = 0
                   THEN step' = Begin("status", 0, FALSE) /\ UNCHANGED chip
                   ELSE step' = Begin(req.kind, req.n, FALSE) /\ BeginData
              /\ UNCHANGED <<req, ep, call, phone, outVars, taken>>

\* The status of a request that reads is sent to the phone; that of another comes
\* from it, and the phone may not hear it acknowledged.
StatusAcked == /\ step.fn = "status"
               /\ \E heard \in IF req.kind = "get" THEN {TRUE} ELSE BOOLEAN :
                    /\ pipe' = [pipe EXCEPT !.done = heard]
                    /\ req' = [req EXCEPT !.result = "ok", !.unheard = ~heard]
               /\ step' = Idle
               /\ UNCHANGED transferVars

\* What the phone may be left with by a packet that failed: a setup, or the status
\* of a request that reads, may have arrived.
Left(failure) == {pipe} \cup
  CASE failure = "NAK"    -> {}
    [] step.fn = "setup"  -> {Listening}
    [] step.fn = "status" -> IF req.kind = "get" THEN {[pipe EXCEPT !.done = TRUE]} ELSE {}
    [] OTHER              -> {}

\* dispatchPkt sends the token again, or returns the failure, and ctrlReq with it.
Dispatches == step.fn \in {"setup", "get", "status"}

DispatchAgain(failure) == /\ Dispatches
                          /\ ~step.late /\ ~Fatal(step, failure, NakLimit)
                          /\ step' = Counted(step, failure)
                          /\ pipe' \in Left(failure)
                          /\ UNCHANGED <<req, transferVars>>

DispatchFails(failure) == /\ Dispatches
                          /\ step.late \/ Fatal(step, failure, NakLimit)
                          /\ Returns("error")
                          /\ pipe' \in Left(failure)
                          /\ UNCHANGED transferVars
-----------------------------------------------------------------------------
\* The phone sends a packet of the data, and hears the acknowledgement or not.
Sent == {pipe, [pipe EXCEPT !.toggle = Flip(@), !.next = @ + 1]}

\* inTransfer has all that it was asked for.
LastOne == Len(req.data) + 1 = req.n

\* inTransfer receives a packet: the data goes on, or the status follows.
Receive == /\ step.fn = "get" /\ pipe.toggle = chip.rcv /\ pipe.next <= req.n
           /\ pipe' \in Sent
           /\ req' = [req EXCEPT !.data = Append(@, pipe.next)]
           /\ chip' = [chip EXCEPT !.rcv = Flip(@)]
           /\ step' = IF LastOne THEN Begin("status", 0, FALSE)
                                 ELSE Begin("get", step.left - 1, FALSE)
           /\ UNCHANGED <<ep, call, phone, outVars, taken>>

\* A packet with the other toggle is acknowledged and not received: inTransfer
\* returns 0xf0.
ReceiveError == /\ step.fn = "get" /\ pipe.toggle # chip.rcv /\ pipe.next <= req.n
                /\ pipe' \in Sent
                /\ Returns("error")
                /\ UNCHANGED transferVars
-----------------------------------------------------------------------------
\* outTransfer sends a packet of the data: the phone takes one with the toggle it
\* expects.
PutNumber == req.n - step.left + 1

Heard == IF pipe.toggle = chip.snd
           THEN [pipe EXCEPT !.heard = @ \cup {PutNumber}, !.toggle = Flip(@)]
           ELSE pipe

HeardOrNot(failure) == {pipe} \cup (IF failure = "NAK" THEN {} ELSE {Heard})

NextPut == IF step.left > 1 THEN Begin("put", step.left - 1, step.late)
                            ELSE Begin("status", 0, FALSE)

PutAcked == /\ step.fn = "put"
            /\ pipe' = Heard
            /\ chip' = [chip EXCEPT !.snd = Flip(@)]
            /\ step' = NextPut
            /\ UNCHANGED <<req, ep, call, phone, outVars, taken>>

PutAgain(failure) == /\ step.fn = "put"
                     /\ ~step.late /\ ~Fatal(step, failure, NakLimit)
                     /\ step' = Counted(step, failure)
                     /\ pipe' \in HeardOrNot(failure)
                     /\ UNCHANGED <<req, transferVars>>

\* It failed for the last time, or it is the last packet and the time is over:
\* the failure is returned.
PutFails(failure) == /\ step.fn = "put"
                     /\ IF step.late THEN step.left = 1 ELSE Fatal(step, failure, NakLimit)
                     /\ Returns("error")
                     /\ pipe' \in HeardOrNot(failure)
                     /\ UNCHANGED transferVars

\* The time is over and it is not the last: the loop goes on with the next one.
PutGoesOn(failure) == /\ step.fn = "put" /\ step.late /\ step.left > 1
                      /\ step' = NextPut
                      /\ req' = [req EXCEPT !.dropped = @ \cup {PutNumber}]
                      /\ pipe' \in HeardOrNot(failure)
                      /\ UNCHANGED transferVars
-----------------------------------------------------------------------------
ControlPacket == \/ SetupAcked \/ StatusAcked \/ Receive \/ ReceiveError \/ PutAcked
                 \/ \E failure \in Failures :
                      \/ DispatchAgain(failure) \/ DispatchFails(failure)
                      \/ PutAgain(failure) \/ PutFails(failure) \/ PutGoesOn(failure)

\* The rounds begin once the phone is configured.
Bulk(action) == Configured /\ action /\ UNCHANGED ctlVars

ControlNext == ctrlReq \/ TimeIsOver \/ ControlPacket \/ Bulk(Next)

ControlFairness == /\ WF_controlVars(ControlPacket) /\ WF_controlVars(TimeIsOver)
                   /\ WF_controlVars(Bulk(Packet)) /\ WF_controlVars(Bulk(TimeOut))

ControlSpec == ControlInit /\ [][ControlNext]_controlVars /\ ControlFairness
-----------------------------------------------------------------------------
ControlTypeOK ==
  /\ req \in [kind : Kinds, n : 0..DataPackets, data : Seq(1..DataPackets),
              dropped : SUBSET (1..DataPackets), unheard : BOOLEAN,
              result : {"none", "ok", "error"}]
  /\ step \in [fn : {"none", "setup", "get", "put", "status"}, left : 0..DataPackets,
               late : BOOLEAN, retries : 0..(RetryLimit - 1), naks : 0..(NakLimit - 1)]
  /\ pipe \in [kind : Kinds \cup {"none"}, toggle : Toggles, next : 1..(DataPackets + 1),
               heard : SUBSET (1..DataPackets), done : BOOLEAN]

\* A request that returned 0 is the one the phone has and was carried out, unless
\* the phone did not hear the status acknowledged: what it read is all that was
\* asked, each packet once and in order, and what it wrote arrived but for one
\* packet for each that the time was over for.
RequestCarriedOut ==
  req.result = "ok" =>
    /\ pipe.kind = req.kind /\ pipe.done = ~req.unheard
    /\ req.kind = "get" => req.data = [i \in 1..req.n |-> i]
    /\ req.kind = "put" =>
         Cardinality(1..req.n \ pipe.heard) <= Cardinality(req.dropped)

\* ctrlReq and the transfers return, whatever the phone does.
CallsReturn == (step # Idle \/ call # Idle) ~> (step = Idle /\ call = Idle)
=============================================================================
