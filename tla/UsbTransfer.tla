---------------------------- MODULE UsbTransfer ----------------------------
(***************************************************************************)
(* The transfers of a round on the board (Usb.cpp): outTransfer, which the *)
(* goals and the scores are written with, and newInTransfer, which the     *)
(* commands are read with, packet by packet, with the retries of           *)
(* dispatchPkt and the data toggles of the two bulk endpoints.             *)
(*                                                                         *)
(* The MAX3421E and the phone keep to USB (external): each packet carries  *)
(* a toggle; who receives one with the toggle it expects takes it and      *)
(* expects the other, and acknowledges any.  A packet or its               *)
(* acknowledgement may be lost, and the phone may be busy.  The code       *)
(* starts a transfer with the toggle it saved and saves the chip's at the  *)
(* end of one that went well: the two ends agree as long as it does.       *)
(*                                                                         *)
(* The packets of the messages are numbered through; a command is one      *)
(* packet shorter than the endpoint's, as all of the application's are.    *)
(***************************************************************************)
EXTENDS Integers, FiniteSets, Sequences

CONSTANTS Packets,       \* how many packets a message is written in
          RetryLimit,    \* USB_RETRY_LIMIT
          NakLimit,      \* USB_NAK_LIMIT
          ReadNakLimit,  \* the nak_limit the firmware reads with
          MaxMessages,   \* bound: messages written
          MaxCommands    \* bound: commands the phone sends

ASSUME TransferBounds ==
  /\ {Packets, RetryLimit, NakLimit, ReadNakLimit} \subseteq Nat \ {0}
  /\ MaxMessages \in Nat /\ MaxCommands \in Nat

VARIABLES ep,       \* sndToggle and rcvToggle of the two endpoint records
          call,     \* the call that runs and its local variables
          chip,     \* the toggles of the MAX3421E
          phone,    \* the toggles of the phone, and the command it sends next
          begun,    \* history: how many packets were begun
          givenUp,  \* and how many were given up
          acked,    \* history: the packets acknowledged
          got,      \* and those the phone took
          taken     \* history: the commands that newInTransfer returned

outVars      == <<begun, givenUp, acked, got>>
transferVars == <<ep, call, chip, phone, outVars, taken>>
-----------------------------------------------------------------------------
Toggles == {0, 1}

Flip(toggle) == 1 - toggle

LastPacket == MaxMessages * Packets

\* A call, before the next attempt to send or receive a packet.
Begin(fn, left, late) == [fn |-> fn, left |-> left, retries |-> 0, naks |-> 0, late |-> late]

Idle == Begin("none", 0, FALSE)

\* Both ends start at 0 once the phone is configured; what was transferred before
\* left the chip at any toggle.
Init == /\ ep = [snd |-> 0, rcv |-> 0]
        /\ call = Idle
        /\ chip \in [snd : Toggles, rcv : Toggles]
        /\ phone = [rcv |-> 0, snd |-> 0, command |-> 1]
        /\ begun = 0 /\ givenUp = 0 /\ acked = {} /\ got = {}
        /\ taken = <<>>

\* The toggle is set, and the first packet filled.
outTransfer == /\ call = Idle /\ begun + Packets <= LastPacket
               /\ call' = Begin("out", Packets, FALSE)
               /\ chip' = [chip EXCEPT !.snd = ep.snd]
               /\ begun' = begun + 1
               /\ UNCHANGED <<ep, phone, givenUp, acked, got, taken>>

newInTransfer == /\ call = Idle
                 /\ call' = Begin("in", 1, FALSE)
                 /\ chip' = [chip EXCEPT !.rcv = ep.rcv]
                 /\ UNCHANGED <<ep, phone, outVars, taken>>

\* USB_XFER_TIMEOUT is over.
TimeOut == /\ call.fn # "none" /\ ~call.late
           /\ call' = [call EXCEPT !.late = TRUE]
           /\ UNCHANGED <<ep, chip, phone, outVars, taken>>
-----------------------------------------------------------------------------
\* What HRSL says of a packet that failed.
Failures == {"NAK", "TIMEOUT", "other"}

\* The failure that returns at once, or is one too many.
Fatal(c, failure, nakLimit) ==
  \/ failure = "NAK" /\ c.naks + 1 = nakLimit
  \/ failure = "TIMEOUT" /\ c.retries + 1 = RetryLimit
  \/ failure = "other"

\* Mutant: the limits are passed over.
CountedAgain(c, failure) ==
  [c EXCEPT !.naks = IF failure = "NAK" THEN @ + 2 ELSE @,
               !.retries = IF failure = "TIMEOUT" THEN @ + 2 ELSE @]

Counted(c, failure) ==
  [c EXCEPT !.naks = IF failure = "NAK" THEN @ + 1 ELSE @,
               !.retries = IF failure = "TIMEOUT" THEN @ + 1 ELSE @]

\* What the phone has and expects after an attempt: it takes a packet with the
\* toggle it expects.  A packet that failed may have arrived, but not with a NAK.
Arrived == IF chip.snd = phone.rcv
             THEN [got |-> got \cup {begun}, phone |-> [phone EXCEPT !.rcv = Flip(@)]]
             ELSE [got |-> got, phone |-> phone]

Fates(failure) == {[got |-> got, phone |-> phone]}
                    \cup (IF failure = "NAK" THEN {} ELSE {Arrived})

\* Mutant: the toggle is not saved.
NextPacketUnsaved(snd) ==
  IF call.left > 1
    THEN /\ call' = Begin("out", call.left - 1, call.late)
         /\ begun' = begun + 1
         /\ UNCHANGED ep
    ELSE call' = Idle /\ UNCHANGED <<ep, begun>>

\* The loop over the packets: the next is filled, or the toggle saved.
NextPacket(snd) ==
  IF call.left > 1
    THEN /\ call' = Begin("out", call.left - 1, call.late)
         /\ begun' = begun + 1
         /\ UNCHANGED ep
    ELSE /\ call' = Idle
         /\ ep' = [ep EXCEPT !.snd = snd]
         /\ UNCHANGED begun

\* The packet is acknowledged.
OutAcked == /\ call.fn = "out"
            /\ phone' = Arrived.phone
            /\ chip' = [chip EXCEPT !.snd = Flip(@)]
            /\ got' = Arrived.got
            /\ acked' = acked \cup {begun}
            /\ NextPacket(Flip(chip.snd))
            /\ UNCHANGED <<givenUp, taken>>

\* It failed and is sent again.
OutAgain(failure) == /\ call.fn = "out" /\ ~call.late /\ ~Fatal(call, failure, NakLimit)
                     /\ call' = Counted(call, failure)
                     /\ \E fate \in Fates(failure) :
                          phone' = fate.phone /\ got' = fate.got
                     /\ UNCHANGED <<ep, chip, begun, givenUp, acked, taken>>

\* It failed for the last time: outTransfer returns, and saves no toggle.
OutReturns(failure) == /\ call.fn = "out" /\ ~call.late /\ Fatal(call, failure, NakLimit)
                       /\ call' = Idle
                       /\ \E fate \in Fates(failure) :
                            phone' = fate.phone /\ got' = fate.got
                       /\ givenUp' = givenUp + 1
                       /\ UNCHANGED <<ep, chip, begun, acked, taken>>

\* Mutant: the packet that was not sent gets another five seconds.
OutGoesBack(failure) == /\ call.fn = "out" /\ call.late
                        /\ call' = Begin("out", call.left, FALSE)
                        /\ UNCHANGED <<ep, chip, phone, outVars, taken>>

\* It failed and the time is over: the loop goes on with the next packet.
OutGoesOn(failure) == /\ call.fn = "out" /\ call.late
                      /\ NextPacket(chip.snd)
                      /\ \E fate \in Fates(failure) :
                           phone' = fate.phone /\ got' = fate.got
                      /\ givenUp' = givenUp + 1
                      /\ UNCHANGED <<chip, acked, taken>>
-----------------------------------------------------------------------------
HasCommand == phone.command <= MaxCommands

\* The acknowledgement of a command arrives, or is lost and the phone sends the
\* command again.
PhoneMoves == \/ phone' = [phone EXCEPT !.snd = Flip(@), !.command = @ + 1]
              \/ UNCHANGED phone

\* Mutant: the toggle is not saved.
InTakesUnsaved == /\ call.fn = "in" /\ HasCommand /\ phone.snd = chip.rcv
                  /\ PhoneMoves
                  /\ taken' = Append(taken, phone.command)
                  /\ chip' = [chip EXCEPT !.rcv = Flip(@)]
                  /\ call' = Idle
                  /\ UNCHANGED <<ep, outVars>>

\* A short packet is the whole transfer: the toggle is saved.
InTakes == /\ call.fn = "in" /\ HasCommand /\ phone.snd = chip.rcv
           /\ PhoneMoves
           /\ taken' = Append(taken, phone.command)
           /\ chip' = [chip EXCEPT !.rcv = Flip(@)]
           /\ ep' = [ep EXCEPT !.rcv = Flip(chip.rcv)]
           /\ call' = Idle
           /\ UNCHANGED outVars

\* The packet had the other toggle: acknowledged, and not received.
InToggleError == /\ call.fn = "in" /\ HasCommand /\ phone.snd # chip.rcv
                 /\ PhoneMoves
                 /\ call' = Idle
                 /\ UNCHANGED <<ep, chip, outVars, taken>>

\* dispatchPkt: the phone has nothing yet, or nothing comes.
InAgain(failure) == /\ call.fn = "in"
                    /\ ~call.late /\ ~Fatal(call, failure, ReadNakLimit)
                    /\ call' = Counted(call, failure)
                    /\ UNCHANGED <<ep, chip, phone, outVars, taken>>

InReturns(failure) == /\ call.fn = "in"
                      /\ call.late \/ Fatal(call, failure, ReadNakLimit)
                      /\ call' = Idle
                      /\ UNCHANGED <<ep, chip, phone, outVars, taken>>
-----------------------------------------------------------------------------
Packet == \/ OutAcked \/ InTakes \/ InToggleError
          \/ \E failure \in Failures :
               \/ OutAgain(failure) \/ OutReturns(failure) \/ OutGoesOn(failure)
               \/ InAgain(failure) \/ InReturns(failure)

Next == outTransfer \/ newInTransfer \/ TimeOut \/ Packet

\* The chip reports the end of every packet, and time passes.
Fairness == WF_transferVars(Packet) /\ WF_transferVars(TimeOut)

Spec == Init /\ [][Next]_transferVars /\ Fairness
-----------------------------------------------------------------------------
TypeOK ==
  /\ ep \in [snd : Toggles, rcv : Toggles]
  /\ chip \in [snd : Toggles, rcv : Toggles]
  /\ phone \in [rcv : Toggles, snd : Toggles, command : 1..(MaxCommands + 1)]
  /\ call \in [fn : {"none", "out", "in"}, left : 0..Packets, late : BOOLEAN,
               retries : 0..(RetryLimit - 1), naks : Nat]
  /\ call.naks < (IF call.fn = "in" THEN ReadNakLimit ELSE NakLimit)
  /\ begun \in 0..LastPacket /\ givenUp \in 0..begun
  /\ acked \subseteq 1..begun /\ got \subseteq 1..begun
  /\ taken \in Seq(Nat)

\* The toggle the next attempt has is the one the phone expects.
Ahead   == IF call.fn = "out" THEN chip.snd ELSE ep.snd
Resends == call.fn = "out" /\ begun \in got
InStep  == Ahead = IF Resends THEN Flip(phone.rcv) ELSE phone.rcv

\* A packet that was acknowledged is not lost, unless an earlier one was given
\* up: each of those makes the ends differ once at most, and costs one packet.
LossesArePaidFor ==
  Cardinality(acked \ got) + (IF InStep THEN 0 ELSE 1) <= givenUp

\* The commands are read each once, in their order, and none is passed over,
\* whatever acknowledgement was lost and whatever read was given up.
CommandsReadOnce == /\ taken = [i \in 1..Len(taken) |-> i]
                    /\ Len(taken) >= phone.command - 1
=============================================================================
