--------------------------- MODULE UsbControlProofs ---------------------------
(***************************************************************************)
(* Proofs about the transfers of the board, for every number of packets,   *)
(* messages and commands, and about the requests a phone is configured     *)
(* with and the rounds that follow, for every limit: a request that        *)
(* returned 0 was carried out, and what is shown of the transfers alone    *)
(* holds after any requests.                                               *)
(*                                                                         *)
(* The argument about the requests is one of toggles, stage by stage.  A   *)
(* data stage begins with the toggle of both ends at 1.  From then on the  *)
(* chip and the phone differ by the packet whose acknowledgement was lost  *)
(* (reading), or by one of those whose time was over (writing).            *)
(***************************************************************************)
EXTENDS UsbControl, FiniteSetTheorems, TLAPS

-----------------------------------------------------------------------------
(* The transfers alone: the specification of UsbTransfer.                  *)


\* The packet that is being sent was begun and is not yet counted as given up,
\* and there is room for those that are left.
Sending == call.fn = "out" =>
  /\ call.left \in 1..Packets
  /\ begun + call.left - 1 <= LastPacket
  /\ begun >= 1
  /\ givenUp <= begun - 1

TInv == TypeOK /\ Sending

\* While the firmware reads, the chip has the toggle that was saved.  What the
\* phone sends next was not taken, and has that toggle; or it was, and the phone
\* did not hear the acknowledgement.
Reading ==
  /\ call.fn = "in" => chip.rcv = ep.rcv
  /\ \/ Len(taken) = phone.command - 1 /\ ep.rcv = phone.snd
     \/ Len(taken) = phone.command /\ ep.rcv = Flip(phone.snd)

\* The packet being sent is not acknowledged yet, and if the phone has it, it
\* will not take it again.
Resending == call.fn = "out" =>
  /\ begun \notin acked
  /\ Resends => chip.snd = Flip(phone.rcv)

IInv == TInv /\ Reading /\ CommandsReadOnce /\ Resending /\ LossesArePaidFor
-----------------------------------------------------------------------------
\* Toggles are two values.
LEMMA FlipToggle ==
  ASSUME NEW t \in Toggles
  PROVE  Flip(t) \in Toggles /\ Flip(t) # t /\ Flip(Flip(t)) = t
BY DEF Flip, Toggles

\* What arrives is of its type, and is the packet being sent or nothing.
LEMMA ArrivedType ==
  ASSUME TypeOK, Sending, call.fn = "out",
         NEW failure, NEW fate \in Fates(failure) \cup {Arrived}
  PROVE  /\ fate.phone \in [rcv : Toggles, snd : Toggles, command : 1..(MaxCommands + 1)]
         /\ fate.phone.snd = phone.snd /\ fate.phone.command = phone.command
         /\ fate.got \in SUBSET (1..begun)
         /\ \/ fate.got = got /\ fate.phone = phone
            \/ /\ chip.snd = phone.rcv
               /\ fate.got = got \cup {begun}
               /\ fate.phone.rcv = Flip(phone.rcv)
<1>1. begun \in 1..begun /\ got \subseteq 1..begun
  BY DEF TypeOK, Sending
<1>2. phone \in [rcv : Toggles, snd : Toggles, command : 1..(MaxCommands + 1)]
  BY DEF TypeOK
<1>3. fate = [got |-> got, phone |-> phone] \/ fate = Arrived
  BY DEF Fates
<1>4. Flip(phone.rcv) \in Toggles
  BY <1>2, FlipToggle
<1> QED
  BY <1>1, <1>2, <1>3, <1>4 DEF Arrived

\* Packets are numbered by Nat and their bound is one.
LEMMA Bounds == /\ LastPacket \in Nat
                /\ Packets \in Nat /\ Packets >= 1 /\ RetryLimit \in Nat /\ RetryLimit >= 1
                /\ NakLimit \in Nat /\ NakLimit >= 1
                /\ ReadNakLimit \in Nat /\ ReadNakLimit >= 1
                /\ MaxCommands \in Nat /\ MaxMessages \in Nat
BY TransferBounds DEF LastPacket
-----------------------------------------------------------------------------
Calls  == [fn : {"none", "out", "in"}, left : 0..Packets, late : BOOLEAN,
           retries : 0..(RetryLimit - 1), naks : Nat]
Phones == [rcv : Toggles, snd : Toggles, command : 1..(MaxCommands + 1)]
Pairs  == [snd : Toggles, rcv : Toggles]

NaksOf(c) == c.naks < (IF c.fn = "in" THEN ReadNakLimit ELSE NakLimit)

\* A call that begins is of its type.
LEMMA BeginType ==
  ASSUME NEW fn \in {"none", "out", "in"}, NEW left \in 0..Packets, NEW late \in BOOLEAN
  PROVE  /\ Begin(fn, left, late) \in Calls /\ NaksOf(Begin(fn, left, late))
         /\ Begin(fn, left, late).fn = fn /\ Begin(fn, left, late).left = left
<1>1. 0 \in 0..(RetryLimit - 1)
  BY Bounds
<1> QED
  BY <1>1, Bounds DEF Begin, Calls, NaksOf

LEMMA IdleType == Idle \in Calls /\ NaksOf(Idle) /\ Idle.fn = "none"
<1>1. 0 \in 0..Packets /\ "none" \in {"none", "out", "in"} /\ FALSE \in BOOLEAN
  BY Bounds
<1> QED
  BY <1>1, BeginType DEF Idle

\* One more failure, when it is not one too many, keeps the counts below their limits.
LEMMA CountedType ==
  ASSUME TypeOK, NEW failure \in Failures,
         ~Fatal(call, failure, IF call.fn = "in" THEN ReadNakLimit ELSE NakLimit)
  PROVE  /\ Counted(call, failure) \in Calls /\ NaksOf(Counted(call, failure))
         /\ Counted(call, failure).fn = call.fn /\ Counted(call, failure).left = call.left
<1>1. call \in Calls /\ NaksOf(call)
  BY DEF TypeOK, Calls, NaksOf
<1>2. CASE failure = "NAK"
  <2>1. Counted(call, failure) = [call EXCEPT !.naks = @ + 1]
    BY <1>1, <1>2 DEF Counted, Calls
  <2>2. call.naks + 1 # (IF call.fn = "in" THEN ReadNakLimit ELSE NakLimit)
    BY <1>2 DEF Fatal
  <2> QED
    BY <1>1, <2>1, <2>2, Bounds DEF Calls, NaksOf
<1>3. CASE failure = "TIMEOUT"
  <2>1. Counted(call, failure) = [call EXCEPT !.retries = @ + 1]
    BY <1>1, <1>3 DEF Counted, Calls
  <2>2. call.retries + 1 # RetryLimit
    BY <1>3 DEF Fatal
  <2> QED
    BY <1>1, <2>1, <2>2, Bounds DEF Calls, NaksOf
<1> QED
  BY <1>2, <1>3 DEF Failures, Fatal

\* What the loop over the packets leaves when it goes on or ends.
AfterPacket(snd) ==
  /\ ep' \in Pairs /\ call' \in Calls /\ NaksOf(call')
  /\ begun' \in 0..LastPacket /\ begun <= begun'
  /\ call'.fn = "out" => /\ call'.left \in 1..Packets
                         /\ begun' + call'.left - 1 <= LastPacket
                         /\ begun' = begun + 1
  /\ call'.fn # "out" => /\ call' = Idle /\ begun' = begun
                         /\ ep' = [ep EXCEPT !.snd = snd]

LEMMA PacketType ==
  ASSUME TypeOK, Sending, call.fn = "out", NEW snd \in Toggles, NextPacket(snd)
  PROVE  AfterPacket(snd)
<1>1. /\ call \in Calls /\ ep \in Pairs
      /\ begun \in 0..LastPacket
      /\ call.left \in 1..Packets
      /\ begun + call.left - 1 <= LastPacket
  BY DEF TypeOK, Sending, Calls, Pairs
<1>2. call.left \in Nat /\ call.late \in BOOLEAN
  BY <1>1, Bounds DEF Calls
<1>3. CASE call.left > 1
  <2>1. call.left - 1 \in 0..Packets
    BY <1>1, <1>2, <1>3, Bounds
  <2> DEFINE c == Begin("out", call.left - 1, call.late)
  <2>2. call' = c /\ ep' = ep
    BY <1>3 DEF NextPacket
  <2>3. c \in Calls /\ NaksOf(c) /\ c.fn = "out" /\ c.left = call.left - 1
    BY <1>2, <2>1, BeginType DEF Calls
  <2>4. begun' = begun + 1
    BY <1>3 DEF NextPacket
  <2> HIDE DEF c
  <2> QED
    <3>1. call.left \in Nat /\ begun \in Nat /\ LastPacket \in Nat /\ Packets \in Nat
      BY <1>1, Bounds
    <3>2. /\ begun' \in 0..LastPacket /\ begun <= begun'
          /\ call'.left \in 1..Packets
          /\ begun' + call'.left - 1 <= LastPacket
      BY <1>1, <1>3, <2>2, <2>3, <2>4, <3>1
    <3> QED
      BY <1>1, <2>2, <2>3, <2>4, <3>2 DEF AfterPacket
<1>4. CASE ~(call.left > 1)
  <2>1. call' = Idle /\ ep' = [ep EXCEPT !.snd = snd] /\ begun' = begun
    BY <1>4 DEF NextPacket
  <2>2. Idle \in Calls /\ NaksOf(Idle) /\ Idle.fn = "none"
    BY IdleType
  <2>3. ep' \in Pairs
    BY <1>1, <2>1 DEF Pairs
  <2> QED
    BY <1>1, <2>1, <2>2, <2>3, Bounds DEF AfterPacket
<1> QED
  BY <1>3, <1>4

\* The phone moves on to the next command, or not.
LEMMA MovesType ==
  ASSUME TypeOK, HasCommand, PhoneMoves
  PROVE  /\ phone' \in Phones /\ phone'.rcv = phone.rcv
         /\ \/ phone'.command = phone.command /\ phone'.snd = phone.snd
            \/ phone'.command = phone.command + 1 /\ phone'.snd = Flip(phone.snd)
<1>1. phone \in Phones /\ phone.command + 1 \in 1..(MaxCommands + 1)
  BY Bounds DEF TypeOK, Phones, HasCommand
<1>2. Flip(phone.snd) \in Toggles
  BY <1>1, FlipToggle DEF Phones
<1> QED
  BY <1>1, <1>2 DEF PhoneMoves, Phones

\* Every action keeps the types, and the place of the packet being sent.
LEMMA TypeStep == TInv /\ [Next]_transferVars => TInv'
<1> SUFFICES ASSUME TInv, [Next]_transferVars PROVE TInv'
  OBVIOUS
<1> USE DEF TInv
<1>0. /\ ep \in Pairs /\ chip \in Pairs /\ phone \in Phones
      /\ call \in Calls /\ NaksOf(call)
      /\ begun \in 0..LastPacket /\ givenUp \in 0..begun
      /\ acked \subseteq 1..begun /\ got \subseteq 1..begun /\ taken \in Seq(Nat)
  BY DEF TypeOK, Pairs, Phones, Calls, NaksOf
<1> DEFINE Goal == /\ ep' \in Pairs /\ chip' \in Pairs /\ phone' \in Phones
                   /\ call' \in Calls /\ NaksOf(call')
                   /\ begun' \in 0..LastPacket /\ givenUp' \in 0..begun'
                   /\ acked' \subseteq 1..begun' /\ got' \subseteq 1..begun'
                   /\ taken' \in Seq(Nat)
                   /\ call'.fn = "out" => /\ call'.left \in 1..Packets
                                          /\ begun' + call'.left - 1 <= LastPacket
                                          /\ begun' >= 1
                                          /\ givenUp' <= begun' - 1
<1> SUFFICES Goal
  BY DEF TypeOK, Sending, Pairs, Phones, Calls, NaksOf
<1>1. CASE outTransfer
  <2>0. Packets \in 0..Packets /\ call' = Begin("out", Packets, FALSE)
    BY <1>1, Bounds DEF outTransfer
  <2>1. call' \in Calls /\ NaksOf(call') /\ call'.fn = "out" /\ call'.left = Packets
    BY <2>0, BeginType
  <2>2. chip' \in Pairs
    BY <1>0, <1>1 DEF outTransfer, Pairs
  <2>3. /\ begun' = begun + 1 /\ begun + Packets <= LastPacket
        /\ UNCHANGED <<ep, phone, givenUp, acked, got, taken>>
    BY <1>1 DEF outTransfer
  <2> QED
    BY <1>0, <2>1, <2>2, <2>3, Bounds
<1>2. CASE newInTransfer
  <2>0. 1 \in 0..Packets /\ call' = Begin("in", 1, FALSE)
    BY <1>2, Bounds DEF newInTransfer
  <2>1. call' \in Calls /\ NaksOf(call') /\ call'.fn = "in"
    BY <2>0, BeginType
  <2> QED
    BY <1>0, <1>2, <2>1 DEF newInTransfer, Pairs, outVars
<1>3. CASE TimeOut
  BY <1>0, <1>3 DEF TimeOut, Calls, NaksOf, Sending, outVars
<1>4. CASE OutAcked
  <2> USE <1>4 DEF OutAcked
  <2>1. /\ call.fn = "out" /\ call.left \in 1..Packets /\ begun \in Nat
        /\ begun + call.left - 1 <= LastPacket
        /\ begun >= 1 /\ givenUp <= begun - 1
    BY <1>0 DEF Sending
  <2>2. phone' \in Phones /\ Arrived.got \in SUBSET (1..begun)
    BY <2>1, ArrivedType DEF Phones
  <2>3. chip.snd \in Toggles /\ Flip(chip.snd) \in Toggles
    BY <1>0, FlipToggle DEF Pairs
  <2>4. chip' \in Pairs
    BY <1>0, <2>3 DEF Pairs
  <2>5. AfterPacket(Flip(chip.snd))
    BY <2>1, <2>3, PacketType DEF Pairs, AfterPacket
  <2>6. got' = Arrived.got /\ givenUp' = givenUp /\ acked' = acked \cup {begun}
    BY <1>4
  <2>7. /\ begun' \in 0..LastPacket /\ begun <= begun' /\ givenUp' \in 0..begun'
        /\ call'.fn = "out" => /\ call'.left \in 1..Packets
                               /\ begun' + call'.left - 1 <= LastPacket
                               /\ begun' >= 1 /\ givenUp' <= begun' - 1
    <3>1. givenUp \in Nat /\ begun \in Nat /\ begun >= 1 /\ givenUp <= begun - 1
      BY <1>0, <2>1, Bounds
    <3>2. /\ begun' \in 0..LastPacket /\ begun <= begun'
          /\ call'.fn = "out" => /\ call'.left \in 1..Packets
                                 /\ begun' + call'.left - 1 <= LastPacket
                                 /\ begun' = begun + 1
      BY <2>5 DEF AfterPacket
    <3> QED
      BY <3>1, <3>2, <2>6, Bounds
  <2>8. begun \in 1..begun' /\ 1..begun \subseteq 1..begun'
    BY <1>0, <2>1, <2>7, Bounds
  <2>9. acked' \subseteq 1..begun' /\ got' \subseteq 1..begun'
    BY <1>0, <2>2, <2>6, <2>8
  <2> QED
    BY <1>0, <1>4, <2>2, <2>4, <2>5, <2>7, <2>9 DEF AfterPacket
<1>5. CASE \E failure \in Failures : OutAgain(failure)
  <2> PICK failure \in Failures : OutAgain(failure)
    BY <1>5
  <2>1. PICK fate \in Fates(failure) :
               phone' = fate.phone /\ got' = fate.got
    BY DEF OutAgain
  <2>2. phone' \in Phones /\ fate.got \in SUBSET (1..begun)
    BY <2>1, ArrivedType DEF OutAgain, Phones
  <2>3. /\ call' \in Calls /\ NaksOf(call') /\ call'.fn = "out" /\ call'.left = call.left
    BY CountedType DEF OutAgain
  <2> QED
    BY <1>0, <2>1, <2>2, <2>3 DEF OutAgain, Sending
<1>6. CASE \E failure \in Failures : OutReturns(failure)
  <2> PICK failure \in Failures : OutReturns(failure)
    BY <1>6
  <2>1. PICK fate \in Fates(failure) :
               phone' = fate.phone /\ got' = fate.got
    BY DEF OutReturns
  <2>2. phone' \in Phones /\ fate.got \in SUBSET (1..begun)
    BY <2>1, ArrivedType DEF OutReturns, Phones
  <2>3. call' \in Calls /\ NaksOf(call') /\ call'.fn = "none"
    BY IdleType DEF OutReturns
  <2>4. givenUp' = givenUp + 1 /\ givenUp + 1 <= begun /\ UNCHANGED <<ep, chip, begun, acked, taken>>
    BY <1>0 DEF OutReturns, Sending
  <2> QED
    BY <1>0, <2>1, <2>2, <2>3, <2>4
<1>7. CASE \E failure \in Failures : OutGoesOn(failure)
  <2> PICK failure \in Failures : OutGoesOn(failure)
    BY <1>7
  <2>1. PICK fate \in Fates(failure) :
               phone' = fate.phone /\ got' = fate.got
    BY DEF OutGoesOn
  <2>2. phone' \in Phones /\ fate.got \in SUBSET (1..begun)
    BY <2>1, ArrivedType DEF OutGoesOn, Phones
  <2>3. chip.snd \in Toggles
    BY <1>0 DEF Pairs
  <2>4. AfterPacket(chip.snd)
    BY <2>3, PacketType DEF OutGoesOn
  <2>5. /\ call.fn = "out" /\ call.left \in 1..Packets
        /\ begun + call.left - 1 <= LastPacket
        /\ begun >= 1 /\ givenUp <= begun - 1
    <3>1. call.fn = "out"
      BY DEF OutGoesOn
    <3> QED
      BY <3>1 DEF Sending
  <2>6. /\ givenUp' = givenUp + 1 /\ acked' = acked
        /\ chip' = chip /\ taken' = taken
    BY DEF OutGoesOn
  <2>7. /\ begun' \in 0..LastPacket /\ begun <= begun' /\ givenUp' \in 0..begun'
        /\ call'.fn = "out" => /\ call'.left \in 1..Packets
                               /\ begun' + call'.left - 1 <= LastPacket
                               /\ begun' >= 1 /\ givenUp' <= begun' - 1
    <3>1. givenUp \in Nat /\ begun \in Nat /\ begun >= 1 /\ givenUp <= begun - 1
      BY <1>0, <2>5, Bounds
    <3>2. /\ begun' \in 0..LastPacket /\ begun <= begun'
          /\ call'.fn = "out" => /\ call'.left \in 1..Packets
                                 /\ begun' + call'.left - 1 <= LastPacket
                                 /\ begun' = begun + 1
      BY <2>4 DEF AfterPacket
    <3>3. begun' \in Nat /\ givenUp' = givenUp + 1
      BY <3>2, <2>6, Bounds
    <3>4. givenUp' \in 0..begun'
      BY <3>1, <3>2, <3>3
    <3>5. call'.fn = "out" => begun' >= 1 /\ givenUp' <= begun' - 1
      BY <3>1, <3>2, <3>3
    <3> QED
      BY <3>2, <3>4, <3>5
  <2>8. acked' \subseteq 1..begun' /\ got' \subseteq 1..begun'
    BY <1>0, <2>1, <2>2, <2>6, <2>7, Bounds
  <2> QED
    BY <1>0, <2>2, <2>1, <2>4, <2>6, <2>7, <2>8 DEF AfterPacket
<1>8. CASE InTakes
  <2> USE <1>8 DEF InTakes, outVars
  <2>1. phone' \in Phones
    BY <1>0, MovesType DEF Phones
  <2>2. Flip(chip.rcv) \in Toggles /\ phone.command \in Nat
    BY <1>0, Bounds, FlipToggle DEF Pairs, Phones
  <2>3. taken' \in Seq(Nat)
    BY <1>0, <2>2
  <2>5. chip' \in Pairs /\ ep' \in Pairs
    BY <1>0, <2>2 DEF Pairs
  <2>4. call' \in Calls /\ NaksOf(call') /\ call'.fn = "none"
    BY IdleType
  <2> QED
    BY <1>0, <2>1, <2>3, <2>4, <2>5
<1>9. CASE InToggleError
  <2>1. phone' \in Phones
    BY <1>0, <1>9, MovesType DEF InToggleError, Phones
  <2>2. call' \in Calls /\ NaksOf(call') /\ call'.fn = "none"
    BY <1>9, IdleType DEF InToggleError
  <2> QED
    BY <1>0, <1>9, <2>1, <2>2 DEF InToggleError, outVars
<1>10. CASE \E failure \in Failures : InAgain(failure)
  <2> PICK failure \in Failures : InAgain(failure)
    BY <1>10
  <2>1. call' \in Calls /\ NaksOf(call') /\ call'.fn = "in"
    BY CountedType DEF InAgain
  <2> QED
    BY <1>0, <2>1 DEF InAgain, outVars
<1>11. CASE \E failure \in Failures : InReturns(failure)
  <2>1. call' \in Calls /\ NaksOf(call') /\ call'.fn = "none"
    BY <1>11, IdleType DEF InReturns
  <2> QED
    BY <1>0, <1>11, <2>1 DEF InReturns, outVars
<1>12. CASE UNCHANGED transferVars
  BY <1>0, <1>12 DEF transferVars, outVars, Sending, NaksOf
<1> QED
  BY <1>1, <1>2, <1>3, <1>4, <1>5, <1>6, <1>7, <1>8, <1>9, <1>10, <1>11, <1>12 DEF Next, Packet
-----------------------------------------------------------------------------
\* A write leaves what the reads are about alone.
LEMMA WritesDoNotRead ==
  ASSUME TInv, \/ OutAcked
               \/ \E failure \in Failures :
                    OutAgain(failure) \/ OutReturns(failure) \/ OutGoesOn(failure)
  PROVE  /\ phone'.command = phone.command /\ phone'.snd = phone.snd
         /\ taken' = taken /\ call'.fn # "in" /\ ep'.rcv = ep.rcv
<1> USE DEF TInv
<1>0. TypeOK /\ Sending /\ ep \in Pairs /\ call \in Calls
  BY DEF TypeOK, Pairs, Calls
<1>1. ASSUME NEW snd, NextPacket(snd) PROVE call'.fn # "in" /\ ep'.rcv = ep.rcv
  BY <1>0, <1>1 DEF NextPacket, Begin, Idle, Pairs
<1>2. CASE OutAcked
  <2>1. phone' = Arrived.phone /\ call.fn = "out" /\ taken' = taken /\ NextPacket(Flip(chip.snd))
    BY <1>2 DEF OutAcked
  <2> QED
    BY <1>0, <1>1, <2>1, ArrivedType
<1>3. CASE \E failure \in Failures : OutAgain(failure)
  <2>1. PICK failure \in Failures : OutAgain(failure)
    BY <1>3
  <2>2. PICK fate \in Fates(failure) : phone' = fate.phone
    BY <2>1 DEF OutAgain
  <2>3. call.fn = "out" /\ call'.fn = call.fn /\ ep' = ep /\ taken' = taken
    BY <1>0, <2>1, CountedType DEF OutAgain
  <2> QED
    BY <1>0, <2>2, <2>3, ArrivedType
<1>4. CASE \E failure \in Failures : OutReturns(failure)
  <2>1. PICK failure \in Failures : OutReturns(failure)
    BY <1>4
  <2>2. PICK fate \in Fates(failure) : phone' = fate.phone
    BY <2>1 DEF OutReturns
  <2>3. call.fn = "out" /\ call'.fn # "in" /\ ep' = ep /\ taken' = taken
    BY <2>1, IdleType DEF OutReturns
  <2> QED
    BY <1>0, <2>2, <2>3, ArrivedType
<1>5. CASE \E failure \in Failures : OutGoesOn(failure)
  <2>1. PICK failure \in Failures : OutGoesOn(failure)
    BY <1>5
  <2>2. PICK fate \in Fates(failure) : phone' = fate.phone
    BY <2>1 DEF OutGoesOn
  <2>3. call.fn = "out" /\ NextPacket(chip.snd) /\ taken' = taken
    BY <2>1 DEF OutGoesOn
  <2> QED
    BY <1>0, <1>1, <2>2, <2>3, ArrivedType
<1> QED
  BY <1>2, <1>3, <1>4, <1>5

\* A read takes the command that is next, and can tell one that it took before.
LEMMA ReadStep ==
  ASSUME TInv, Reading, CommandsReadOnce, [Next]_transferVars
  PROVE  Reading' /\ CommandsReadOnce'
<1>0. /\ ep \in Pairs /\ chip \in Pairs /\ phone \in Phones /\ taken \in Seq(Nat)
      /\ phone.command \in Nat /\ Len(taken) \in Nat /\ phone.snd \in Toggles
      /\ ep.rcv \in Toggles /\ chip.rcv \in Toggles /\ call \in Calls /\ TypeOK
  BY Bounds DEF TInv, TypeOK, Pairs, Phones, Calls
<1>1. ASSUME ep'.rcv = ep.rcv, taken' = taken,
             phone'.command = phone.command, phone'.snd = phone.snd,
             call'.fn = "in" => chip'.rcv = ep.rcv
      PROVE  Reading' /\ CommandsReadOnce'
  BY <1>1 DEF Reading, CommandsReadOnce
<1>2. CASE outTransfer
  <2>1. call'.fn = "out"
    BY <1>2 DEF outTransfer, Begin
  <2> QED
    BY <1>1, <1>2, <2>1 DEF outTransfer
<1>3. CASE newInTransfer
  <2>1. chip'.rcv = ep.rcv
    BY <1>0, <1>3 DEF newInTransfer, Pairs
  <2> QED
    BY <1>1, <1>3, <2>1 DEF newInTransfer
<1>4. CASE TimeOut
  <2>1. call'.fn = call.fn
    BY <1>0, <1>4 DEF TimeOut, Calls
  <2> QED
    BY <1>1, <1>4, <2>1 DEF TimeOut, Reading
<1>5. CASE OutAcked \/ \E failure \in Failures :
             OutAgain(failure) \/ OutReturns(failure) \/ OutGoesOn(failure)
  BY <1>1, <1>5, WritesDoNotRead
<1>6. CASE InTakes
  <2>1. /\ call.fn = "in" /\ phone.snd = chip.rcv /\ HasCommand /\ PhoneMoves
        /\ taken' = Append(taken, phone.command)
        /\ ep' = [ep EXCEPT !.rcv = Flip(chip.rcv)] /\ call' = Idle
    BY <1>6 DEF InTakes
  <2>2. ep.rcv = phone.snd /\ Len(taken) = phone.command - 1
    BY <1>0, <2>1, FlipToggle DEF Reading
  <2>3. ep'.rcv = Flip(phone.snd)
    BY <1>0, <2>1, <2>2 DEF Pairs
  <2>4. Len(taken') = phone.command
    BY <1>0, <2>1, <2>2
  <2>5. taken' = [i \in 1..Len(taken') |-> i]
    <3>1. /\ taken' \in Seq(Nat) /\ Len(taken') = Len(taken) + 1
          /\ \A i \in 1..Len(taken) : taken'[i] = taken[i]
          /\ taken'[Len(taken) + 1] = phone.command
      BY <1>0, <2>1
    <3>2. \A i \in 1..Len(taken) : taken[i] = i
      BY DEF CommandsReadOnce
    <3>3. \A i \in 1..Len(taken') : taken'[i] = i
      BY <1>0, <2>2, <3>1, <3>2
    <3> QED
      BY <3>1, <3>3
  <2>6. \/ phone'.command = phone.command /\ phone'.snd = phone.snd
        \/ phone'.command = phone.command + 1 /\ phone'.snd = Flip(phone.snd)
    BY <1>0, <2>1, MovesType
  <2>7. call'.fn # "in"
    BY <2>1, IdleType
  <2>8. Reading'
    BY <1>0, <2>3, <2>4, <2>6, <2>7 DEF Reading
  <2>9. Len(taken') >= phone'.command - 1
    BY <1>0, <2>4, <2>6
  <2> QED
    BY <2>5, <2>8, <2>9 DEF CommandsReadOnce
<1>7. CASE InToggleError
  <2>1. /\ call.fn = "in" /\ phone.snd # chip.rcv /\ HasCommand /\ PhoneMoves
        /\ taken' = taken /\ ep' = ep /\ call' = Idle
    BY <1>7 DEF InToggleError
  <2>2. ep.rcv = Flip(phone.snd) /\ Len(taken) = phone.command
    BY <1>0, <2>1 DEF Reading
  <2>3. \/ phone'.command = phone.command /\ phone'.snd = phone.snd
        \/ phone'.command = phone.command + 1 /\ phone'.snd = Flip(phone.snd)
    BY <1>0, <2>1, MovesType
  <2>4. call'.fn # "in"
    BY <2>1, IdleType
  <2>5. Reading'
    BY <1>0, <2>1, <2>2, <2>3, <2>4 DEF Reading
  <2>6. Len(taken') >= phone'.command - 1
    BY <1>0, <2>1, <2>2, <2>3
  <2> QED
    BY <2>1, <2>5, <2>6 DEF CommandsReadOnce
<1>8. CASE \E failure \in Failures : InAgain(failure)
  <2>1. ep' = ep /\ taken' = taken /\ phone' = phone /\ chip' = chip /\ call.fn = "in"
    BY <1>8 DEF InAgain
  <2> QED
    BY <1>1, <2>1 DEF Reading
<1>9. CASE \E failure \in Failures : InReturns(failure)
  <2>1. ep' = ep /\ taken' = taken /\ phone' = phone /\ chip' = chip /\ call.fn = "in"
    BY <1>9 DEF InReturns
  <2> QED
    BY <1>1, <2>1 DEF Reading
<1>10. CASE UNCHANGED transferVars
  BY <1>1, <1>10 DEF transferVars, Reading
<1> QED
  BY <1>2, <1>3, <1>4, <1>5, <1>6, <1>7, <1>8, <1>9, <1>10 DEF Next, Packet
-----------------------------------------------------------------------------
Lost == acked \ got

\* Finitely many packets are lost, and one more is one more.
LEMMA LostFinite ==
  ASSUME TypeOK
  PROVE  /\ Cardinality(Lost) \in Nat
         /\ \A b : b \notin Lost => Cardinality(Lost \cup {b}) = Cardinality(Lost) + 1
<1>1. begun \in Nat /\ Lost \subseteq 1..begun
  BY Bounds DEF TypeOK, Lost
<1>2. IsFiniteSet(1..begun)
  BY <1>1, FS_Interval
<1>3. IsFiniteSet(Lost)
  BY <1>1, <1>2, FS_Subset
<1>4. Cardinality(Lost) \in Nat
  BY <1>3, FS_CardinalityType
<1>5. ASSUME NEW b, b \notin Lost
      PROVE  Cardinality(Lost \cup {b}) = Cardinality(Lost) + 1
  BY <1>3, <1>5, FS_AddElement
<1> QED
  BY <1>4, <1>5

\* No further packet is lost by a step that keeps the ends in step, or that
\* gives the packet up.
LEMMA NothingLost ==
  ASSUME TypeOK, LossesArePaidFor, Lost' = Lost,
         \/ givenUp' = givenUp /\ (InStep => InStep')
         \/ givenUp' = givenUp + 1
  PROVE  LossesArePaidFor'
<1>1. Cardinality(Lost) \in Nat /\ givenUp \in Nat
  BY LostFinite, Bounds DEF TypeOK
<1>2. Cardinality(Lost) + (IF InStep THEN 0 ELSE 1) <= givenUp
  BY DEF LossesArePaidFor, Lost
<1>3. Cardinality(Lost') = Cardinality(Lost)
  OBVIOUS
<1>4. Cardinality(Lost') + (IF InStep' THEN 0 ELSE 1) <= givenUp'
  BY <1>1, <1>2, <1>3
<1> QED
  BY <1>4 DEF LossesArePaidFor, Lost

\* The packet after the one being sent is new: nobody has it.
LEMMA NewPacket ==
  ASSUME TypeOK, TypeOK', call'.fn = "out" => begun' = begun + 1,
         acked' \subseteq 1..begun, got' \subseteq 1..begun
  PROVE  Resending' /\ ~Resends'
<1>1. begun \in Nat
  BY Bounds DEF TypeOK
<1>2. begun + 1 \notin 1..begun
  BY <1>1
<1> QED
  BY <1>2 DEF Resending, Resends

\* What the fate of the packet being sent does to the two ends: nothing; or the
\* phone takes it, and expects another toggle than the packet's.
NotTaken == got' = got /\ phone'.rcv = phone.rcv
Taken   == /\ chip.snd = phone.rcv /\ begun \notin got
           /\ got' = got \cup {begun} /\ phone'.rcv = Flip(chip.snd)

\* A packet that the phone has is one it does not take again.
LEMMA FateOfPacket ==
  ASSUME TInv, Resending, call.fn = "out",
         NEW failure, NEW fate \in Fates(failure) \cup {Arrived},
         phone' = fate.phone, got' = fate.got
  PROVE  NotTaken \/ Taken
<1>1. TypeOK /\ Sending /\ phone.rcv \in Toggles
  BY DEF TInv, TypeOK
<1>2. CASE fate.got = got /\ fate.phone = phone
  BY <1>2 DEF NotTaken
<1>3. CASE /\ chip.snd = phone.rcv /\ fate.got = got \cup {begun}
           /\ fate.phone.rcv = Flip(phone.rcv)
  <2>1. begun \notin got
    BY <1>1, <1>3, FlipToggle DEF Resending, Resends
  <2> QED
    BY <1>3, <2>1 DEF Taken
<1> QED
  BY <1>1, <1>2, <1>3, ArrivedType

\* The packet is acknowledged, and the toggle moves on: if it was one the phone
\* did not take, it is lost, and the ends are in step again.
LEMMA AckedStep ==
  ASSUME TInv, TInv', Resending, LossesArePaidFor, OutAcked
  PROVE  Resending' /\ LossesArePaidFor'
<1>1. /\ TypeOK /\ TypeOK' /\ Sending /\ call.fn = "out" /\ begun \notin acked
      /\ phone.rcv \in Toggles /\ chip.snd \in Toggles /\ chip \in Pairs /\ ep \in Pairs
      /\ begun \in 1..begun /\ acked \subseteq 1..begun /\ got \subseteq 1..begun
  <2>1. TypeOK /\ TypeOK' /\ Sending /\ call.fn = "out" /\ begun \notin acked
    BY DEF TInv, OutAcked, Resending
  <2>2. begun \in Nat /\ begun >= 1
    BY <2>1, Bounds DEF TypeOK, Sending
  <2>3. /\ phone.rcv \in Toggles /\ chip.snd \in Toggles /\ chip \in Pairs /\ ep \in Pairs
        /\ acked \subseteq 1..begun /\ got \subseteq 1..begun
    BY <2>1 DEF TypeOK, Pairs
  <2> QED
    BY <2>1, <2>2, <2>3
<1>2. NotTaken \/ Taken
  BY <1>1, FateOfPacket DEF OutAcked
<1>3. /\ chip'.snd = Flip(chip.snd) /\ acked' = acked \cup {begun} /\ givenUp' = givenUp
      /\ NextPacket(Flip(chip.snd))
  BY <1>1 DEF OutAcked, Pairs
<1>4. AfterPacket(Flip(chip.snd))
  BY <1>1, <1>3, FlipToggle, PacketType
<1>5. got' \subseteq 1..begun
  BY <1>1, <1>2 DEF NotTaken, Taken
<1>6. Resending' /\ ~Resends'
  <2>1. call'.fn = "out" => begun' = begun + 1
    BY <1>4 DEF AfterPacket
  <2>2. acked' \subseteq 1..begun
    BY <1>1, <1>3
  <2> QED
    BY <1>1, <1>5, <2>1, <2>2, NewPacket
<1>7. Ahead' = Flip(chip.snd)
  BY <1>1, <1>3, <1>4 DEF Ahead, AfterPacket, Pairs
<1>8. CASE Taken
  <2>1. Lost' = Lost
    BY <1>1, <1>3, <1>8 DEF Lost, Taken
  <2>2. InStep'
    BY <1>6, <1>7, <1>8 DEF InStep, Taken
  <2> QED
    BY <1>1, <1>3, <1>6, <2>1, <2>2, NothingLost
<1>9. CASE NotTaken /\ begun \in got
  <2>1. Lost' = Lost
    BY <1>1, <1>3, <1>9 DEF Lost, NotTaken
  <2>2. chip.snd = Flip(phone.rcv)
    BY <1>1, <1>9 DEF Resending, Resends
  <2>3. InStep'
    BY <1>1, <1>6, <1>7, <1>9, <2>2, FlipToggle DEF InStep, NotTaken
  <2> QED
    BY <1>1, <1>3, <1>6, <2>1, <2>3, NothingLost
<1>10. CASE NotTaken /\ begun \notin got
  <2>1. CASE chip.snd = phone.rcv
    <3>1. phone' = Arrived.phone /\ phone'.rcv = Flip(phone.rcv)
      BY <1>1, <2>1 DEF OutAcked, Arrived, TypeOK
    <3> QED
      BY <1>1, <1>10, <3>1, FlipToggle DEF NotTaken
  <2>2. CASE chip.snd # phone.rcv
    <3>1. Lost' = Lost \cup {begun} /\ begun \notin Lost
      BY <1>1, <1>3, <1>10 DEF Lost, NotTaken
    <3>2. /\ Cardinality(Lost') = Cardinality(Lost) + 1
          /\ Cardinality(Lost) \in Nat /\ givenUp \in Nat
      BY <1>1, <3>1, LostFinite, Bounds DEF TypeOK
    <3>3. ~InStep
      BY <1>1, <1>10, <2>2 DEF InStep, Ahead, Resends
    <3>4. Flip(chip.snd) = phone.rcv
      BY <1>1, <2>2 DEF Flip, Toggles
    <3>5. InStep'
      BY <1>6, <1>7, <1>10, <3>4 DEF InStep, NotTaken
    <3>6. Cardinality(Lost) + 1 <= givenUp
      BY <3>3 DEF LossesArePaidFor, Lost
    <3> QED
      BY <1>3, <1>6, <3>2, <3>5, <3>6 DEF LossesArePaidFor, Lost
  <2> QED
    BY <2>1, <2>2
<1> QED
  BY <1>2, <1>8, <1>9, <1>10

\* The packet is not acknowledged: nothing is lost that was.
LEMMA UnackedLost ==
  ASSUME begun \notin acked, acked' = acked, NotTaken \/ Taken
  PROVE  Lost' = Lost
BY DEF Lost, NotTaken, Taken

\* It is sent again, with the toggle it had: the phone does not take it twice.
LEMMA AgainStep ==
  ASSUME TInv, Resending, LossesArePaidFor,
         NEW failure \in Failures, OutAgain(failure)
  PROVE  Resending' /\ LossesArePaidFor'
<1>1. /\ TypeOK /\ call.fn = "out" /\ begun \notin acked
      /\ chip.snd \in Toggles /\ Flip(Flip(chip.snd)) = chip.snd
  BY FlipToggle DEF TInv, TypeOK, OutAgain, Resending
<1>2. UNCHANGED <<ep, chip, begun, givenUp, acked, taken>>
  BY DEF OutAgain
<1>3. call'.fn = "out"
  BY <1>1, CountedType DEF OutAgain
<1>4. NotTaken \/ Taken
  BY <1>1, FateOfPacket DEF OutAgain
<1>5. Lost' = Lost
  BY <1>1, <1>2, <1>4, UnackedLost
<1>6. CASE NotTaken
  <2>1. Resends' <=> Resends
    BY <1>1, <1>2, <1>3, <1>6 DEF Resends, NotTaken
  <2>2. Resending'
    BY <1>1, <1>2, <1>6, <2>1 DEF Resending, NotTaken
  <2>3. InStep => InStep'
    BY <1>1, <1>2, <1>3, <1>6, <2>1 DEF InStep, Ahead, NotTaken
  <2> QED
    BY <1>1, <1>2, <1>5, <2>2, <2>3, NothingLost
<1>7. CASE Taken
  <2>1. Resends' /\ chip'.snd = Flip(phone'.rcv)
    BY <1>1, <1>2, <1>3, <1>7 DEF Resends, Taken
  <2>2. Resending'
    BY <1>1, <1>2, <2>1 DEF Resending
  <2>3. InStep'
    BY <1>3, <2>1 DEF InStep, Ahead
  <2> QED
    BY <1>1, <1>2, <1>5, <2>2, <2>3, NothingLost
<1> QED
  BY <1>4, <1>6, <1>7

\* It is given up: whatever the two ends expect now is paid for.
LEMMA GivenUpStep ==
  ASSUME TInv, TInv', Resending, LossesArePaidFor, NEW failure \in Failures,
         OutReturns(failure) \/ OutGoesOn(failure)
  PROVE  Resending' /\ LossesArePaidFor'
<1>1. /\ TypeOK /\ TypeOK' /\ Sending /\ call.fn = "out" /\ begun \notin acked
      /\ acked' = acked /\ givenUp' = givenUp + 1
  BY DEF TInv, OutReturns, OutGoesOn, Resending
<1>2. /\ chip.snd \in Toggles /\ begun \in Nat /\ begun >= 1
      /\ acked \subseteq 1..begun /\ got \subseteq 1..begun
  <2>1. chip.snd \in Toggles /\ acked \subseteq 1..begun /\ got \subseteq 1..begun
    BY <1>1 DEF TypeOK
  <2>2. begun \in 0..LastPacket /\ begun >= 1
    BY <1>1 DEF TypeOK, Sending
  <2> QED
    BY <2>1, <2>2, Bounds
<1>3. NotTaken \/ Taken
  <2>1. PICK fate \in Fates(failure) : phone' = fate.phone /\ got' = fate.got
    BY DEF OutReturns, OutGoesOn
  <2> QED
    BY <1>1, <2>1, FateOfPacket
<1>4. Lost' = Lost
  BY <1>1, <1>3, UnackedLost
<1>5. got' \subseteq 1..begun
  <2>1. begun \in 1..begun
    BY <1>2
  <2> QED
    BY <1>2, <1>3, <2>1 DEF NotTaken, Taken
<1>6. call'.fn = "out" => begun' = begun + 1
  <2>1. CASE OutReturns(failure)
    BY <2>1, IdleType DEF OutReturns
  <2>2. CASE OutGoesOn(failure)
    <3>1. AfterPacket(chip.snd)
      BY <1>1, <1>2, <2>2, PacketType DEF OutGoesOn
    <3> QED
      BY <3>1 DEF AfterPacket
  <2> QED
    BY <2>1, <2>2
<1>7. Resending'
  BY <1>1, <1>2, <1>5, <1>6, NewPacket
<1> QED
  BY <1>1, <1>4, <1>7, NothingLost
-----------------------------------------------------------------------------
\* Every action keeps what the losses are paid with.
LEMMA SendStep ==
  ASSUME TInv, TInv', Reading, Resending, LossesArePaidFor, [Next]_transferVars
  PROVE  Resending' /\ LossesArePaidFor'
<1>0. TypeOK /\ TypeOK' /\ call \in Calls /\ chip \in Pairs /\ ep \in Pairs /\ phone \in Phones
  BY DEF TInv, TypeOK, Calls, Pairs, Phones
<1>1. ASSUME acked' = acked, got' = got, givenUp' = givenUp, begun' = begun,
             phone'.rcv = phone.rcv, Ahead' = Ahead,
             \/ call'.fn = call.fn /\ chip'.snd = chip.snd
             \/ call'.fn # "out" /\ call.fn # "out"
      PROVE  Resending' /\ LossesArePaidFor'
  <2>1. Resends' <=> Resends
    BY <1>1 DEF Resends
  <2>2. Resending'
    BY <1>1, <2>1 DEF Resending
  <2>3. InStep => InStep'
    BY <1>1, <2>1 DEF InStep
  <2>4. Lost' = Lost
    BY <1>1 DEF Lost
  <2> QED
    BY <1>0, <1>1, <2>2, <2>3, <2>4, NothingLost
<1>2. CASE outTransfer
  <2>1. /\ call.fn # "out" /\ call'.fn = "out" /\ begun' = begun + 1
        /\ chip'.snd = ep.snd /\ UNCHANGED <<ep, phone, givenUp, acked, got, taken>>
    BY <1>0, <1>2, IdleType DEF outTransfer, Begin, Pairs
  <2>2. Resending' /\ ~Resends'
    BY <1>0, <2>1, NewPacket DEF TypeOK
  <2>3. InStep => InStep'
    BY <2>1, <2>2 DEF InStep, Ahead, Resends
  <2>4. Lost' = Lost
    BY <2>1 DEF Lost
  <2> QED
    BY <1>0, <2>1, <2>2, <2>3, <2>4, NothingLost
<1>3. CASE newInTransfer
  <2>1. call.fn = "none" /\ call'.fn = "in"
    BY <1>3, IdleType DEF newInTransfer, Begin
  <2> QED
    BY <1>1, <1>3, <2>1 DEF newInTransfer, Ahead, outVars
<1>4. CASE TimeOut
  <2>1. call'.fn = call.fn
    BY <1>0, <1>4 DEF TimeOut, Calls
  <2> QED
    BY <1>1, <1>4, <2>1 DEF TimeOut, Ahead, outVars
<1>5. CASE OutAcked
  BY <1>5, AckedStep
<1>6. CASE \E failure \in Failures : OutAgain(failure)
  BY <1>6, AgainStep
<1>7. CASE \E failure \in Failures : OutReturns(failure) \/ OutGoesOn(failure)
  BY <1>7, GivenUpStep
<1>8. CASE InTakes \/ InToggleError
  <2>1. /\ call.fn = "in" /\ call' = Idle /\ HasCommand /\ PhoneMoves
        /\ UNCHANGED outVars /\ ep'.snd = ep.snd
    BY <1>0, <1>8 DEF InTakes, InToggleError, Pairs
  <2>2. phone'.rcv = phone.rcv /\ call'.fn = "none"
    BY <1>0, <2>1, MovesType, IdleType
  <2> QED
    BY <1>1, <2>1, <2>2 DEF Ahead, outVars
<1>9. CASE \E failure \in Failures : InAgain(failure) \/ InReturns(failure)
  <2>1. PICK failure \in Failures : InAgain(failure) \/ InReturns(failure)
    BY <1>9
  <2>2. /\ call.fn = "in" /\ call'.fn # "out"
        /\ UNCHANGED <<ep, chip, phone, outVars, taken>>
    BY <1>0, <2>1, CountedType, IdleType DEF InAgain, InReturns
  <2> QED
    BY <1>1, <2>2 DEF Ahead, outVars
<1>10. CASE UNCHANGED transferVars
  BY <1>1, <1>10 DEF transferVars, outVars, Ahead
<1> QED
  BY <1>2, <1>3, <1>4, <1>5, <1>6, <1>7, <1>8, <1>9, <1>10 DEF Next, Packet

\* The two ends begin in step, with nothing written and nothing read.
LEMMA InitInvariant == Init => IInv
<1> SUFFICES ASSUME Init PROVE IInv
  OBVIOUS
<1> USE DEF Init
<1>1. /\ call \in Calls /\ NaksOf(call) /\ call.fn = "none"
      /\ 1 \in 1..(MaxCommands + 1) /\ 0 \in 0..LastPacket
  BY IdleType, Bounds
<1>2. TInv
  BY <1>1 DEF TInv, TypeOK, Sending, Toggles, Calls, NaksOf
<1>3. Reading /\ CommandsReadOnce
  BY <1>1 DEF Reading, CommandsReadOnce
<1>4. Resending /\ InStep
  BY <1>1 DEF Resending, InStep, Ahead, Resends
<1>5. LossesArePaidFor
  BY <1>4, FS_EmptySet DEF LossesArePaidFor
<1> QED
  BY <1>2, <1>3, <1>4, <1>5 DEF IInv

\* The inductive invariant.
LEMMA Invariance == Spec => []IInv
<1>1. IInv /\ [Next]_transferVars => IInv'
  BY TypeStep, ReadStep, SendStep DEF IInv
<1> QED
  BY <1>1, InitInvariant, PTL DEF Spec

\* outTransfer, newInTransfer and dispatchPkt keep within their limits, and give
\* up no more packets than they begin.
THEOREM TransferTypeCorrect == Spec => []TypeOK
<1>1. IInv => TypeOK
  BY DEF IInv, TInv
<1> QED
  BY <1>1, Invariance, PTL

\* newInTransfer returns each command once and in order, and passes none over,
\* however often the phone repeats one and however many reads are given up.
THEOREM CommandsCorrect == Spec => []CommandsReadOnce
<1>1. IInv => CommandsReadOnce
  BY DEF IInv
<1> QED
  BY <1>1, Invariance, PTL

\* outTransfer loses no more of the packets that were acknowledged than it gave
\* up of the others, though it saves no toggle when it gives up.
THEOREM LossesCorrect == Spec => []LossesArePaidFor
<1>1. IInv => LossesArePaidFor
  BY DEF IInv
<1> QED
  BY <1>1, Invariance, PTL

-----------------------------------------------------------------------------
(* The requests, and the rounds after them.                                *)


\* The types, one variable each.
ReqType  == [kind : Kinds, n : 0..DataPackets, data : Seq(1..DataPackets),
             dropped : SUBSET (1..DataPackets), unheard : BOOLEAN,
             result : {"none", "ok", "error"}]
Steps    == [fn : {"none", "setup", "get", "put", "status"}, left : 0..DataPackets,
             late : BOOLEAN, retries : 0..(RetryLimit - 1), naks : 0..(NakLimit - 1)]
PipeType == [kind : Kinds \cup {"none"}, toggle : Toggles, next : 1..(DataPackets + 1),
             heard : SUBSET (1..DataPackets), done : BOOLEAN]

\* A request takes turns with the rounds, and has no result before it returns.
InTurn == /\ call # Idle => Configured
          /\ step.fn = "none" => step = Idle
          /\ step.fn # "none" => call = Idle /\ req.result = "none"

\* What was asked, and what there is of it at the setup.
Asked == /\ req.n \in DataOf(req.kind)
         /\ step.fn = "setup" => req.data = <<>> /\ req.dropped = {}

\* The packets read are the first ones, in their order.
InOrder == req.data = [i \in 1..Len(req.data) |-> i]

\* The phone sends the packet that is asked for, or, with the other toggle, the
\* last one again.
ReadingOn == step.fn = "get" =>
  /\ req.kind = "get" /\ pipe.kind = "get"
  /\ InOrder /\ step.left = req.n - Len(req.data) /\ step.left >= 1
  /\ pipe.next = IF pipe.toggle = chip.rcv THEN Len(req.data) + 1 ELSE Len(req.data)

\* The packets before p that the phone does not have.
Missing(p) == 1..(p - 1) \ pipe.heard

\* The phone expects the toggle of the packet that is sent, or has the packet.
PutInStep == PutNumber \in pipe.heard \/ chip.snd = pipe.toggle

\* Each packet that is missing, and a toggle that differs, was paid for by one
\* that was dropped.
WritingOn == step.fn = "put" =>
  /\ req.kind = "put" /\ pipe.kind = "put"
  /\ step.left \in 1..req.n
  /\ pipe.heard \subseteq 1..PutNumber /\ req.dropped \subseteq 1..(PutNumber - 1)
  /\ PutNumber \in pipe.heard => chip.snd # pipe.toggle
  /\ Cardinality(Missing(PutNumber)) + (IF PutInStep THEN 0 ELSE 1)
       <= Cardinality(req.dropped)

\* The data of the request is where it was to go.
DataDone == /\ pipe.kind = req.kind
            /\ req.kind = "get" => req.data = [i \in 1..req.n |-> i]
            /\ req.kind = "put" =>
                 Cardinality(1..req.n \ pipe.heard) <= Cardinality(req.dropped)

StatusLeft == step.fn = "status" => DataDone

CInv == /\ IInv
        /\ req \in ReqType /\ step \in Steps /\ pipe \in PipeType
        /\ InTurn /\ Asked /\ ReadingOn /\ WritingOn /\ StatusLeft
        /\ RequestCarriedOut
-----------------------------------------------------------------------------
\* The lemmas about steps, requests and the phone's endpoint 0.
LEMMA DataBounds == DataPackets \in Nat /\ DataPackets >= 1 /\ 0 \in 0..DataPackets
BY ControlBounds

LEMMA Types == ControlTypeOK <=> req \in ReqType /\ step \in Steps /\ pipe \in PipeType
BY DEF ControlTypeOK, ReqType, Steps, PipeType

LEMMA BeginStep ==
  ASSUME NEW fn \in {"none", "setup", "get", "put", "status"}, NEW left \in 0..DataPackets,
         NEW late \in BOOLEAN
  PROVE  /\ Begin(fn, left, late) \in Steps
         /\ Begin(fn, left, late).fn = fn /\ Begin(fn, left, late).left = left
<1>1. 0 \in 0..(RetryLimit - 1) /\ 0 \in 0..(NakLimit - 1)
  BY Bounds
<1> QED
  BY <1>1 DEF Begin, Steps

LEMMA IdleStep == Idle \in Steps /\ Idle.fn = "none"
BY BeginStep, DataBounds DEF Idle

\* One more failure of a packet, when it is not one too many.
LEMMA CountedStep ==
  ASSUME step \in Steps, NEW failure \in Failures, ~Fatal(step, failure, NakLimit)
  PROVE  /\ Counted(step, failure) \in Steps
         /\ Counted(step, failure).fn = step.fn /\ Counted(step, failure).left = step.left
<1>1. CASE failure = "NAK"
  <2>1. Counted(step, failure) = [step EXCEPT !.naks = @ + 1]
    BY <1>1 DEF Counted, Steps
  <2>2. step.naks \in 0..(NakLimit - 1) /\ step.naks + 1 # NakLimit
    BY <1>1 DEF Fatal, Steps
  <2>3. step.naks + 1 \in 0..(NakLimit - 1)
    BY <2>2, Bounds
  <2> QED
    BY <2>1, <2>3 DEF Steps
<1>2. CASE failure = "TIMEOUT"
  <2>1. Counted(step, failure) = [step EXCEPT !.retries = @ + 1]
    BY <1>2 DEF Counted, Steps
  <2>2. step.retries \in 0..(RetryLimit - 1) /\ step.retries + 1 # RetryLimit
    BY <1>2 DEF Fatal, Steps
  <2>3. step.retries + 1 \in 0..(RetryLimit - 1)
    BY <2>2, Bounds
  <2> QED
    BY <2>1, <2>3 DEF Steps
<1> QED
  BY <1>1, <1>2 DEF Failures, Fatal

\* Between the rounds the toggles of the chip are nobody's.
LEMMA ChipIsFree ==
  ASSUME IInv, call = Idle, chip' \in Pairs, UNCHANGED <<ep, call, phone, outVars, taken>>
  PROVE  IInv'
<1>1. call.fn = "none"
  BY IdleType
<1>2. UNCHANGED <<ep, call, phone, begun, givenUp, acked, got, taken>>
  BY DEF outVars
<1>3. TInv'
  BY <1>1, <1>2 DEF IInv, TInv, TypeOK, Sending, Pairs
<1>4. Reading' /\ CommandsReadOnce'
  BY <1>1, <1>2 DEF IInv, Reading, CommandsReadOnce
<1>5. Resending' /\ (InStep' <=> InStep)
  BY <1>1, <1>2 DEF Resending, InStep, Ahead, Resends
<1>6. LossesArePaidFor'
  BY <1>2, <1>5 DEF IInv, LossesArePaidFor
<1> QED
  BY <1>3, <1>4, <1>5, <1>6 DEF IInv

\* The phone in a new request.
LEMMA ListeningType ==
  ASSUME req \in ReqType
  PROVE  Listening \in PipeType /\ Listening.kind = req.kind /\ Listening.toggle = 1
         /\ Listening.next = 1 /\ Listening.heard = {}
BY DataBounds DEF Listening, PipeType, ReqType, Toggles

\* What a failed setup or status leaves the phone with.
LEMMA LeftPipe ==
  ASSUME req \in ReqType, pipe \in PipeType, Dispatches, NEW failure \in Failures,
         pipe' \in Left(failure)
  PROVE  /\ pipe' \in PipeType
         /\ step.fn = "get" => pipe' = pipe
         /\ step.fn = "status" => pipe'.kind = pipe.kind /\ pipe'.heard = pipe.heard
<1>1. \/ pipe' = pipe
      \/ step.fn = "setup" /\ pipe' = Listening
      \/ step.fn = "status" /\ pipe' = [pipe EXCEPT !.done = TRUE]
  BY DEF Left, Dispatches
<1>2. [pipe EXCEPT !.done = TRUE] \in PipeType
  BY DEF PipeType
<1>3. /\ [pipe EXCEPT !.done = TRUE].kind = pipe.kind
      /\ [pipe EXCEPT !.done = TRUE].heard = pipe.heard
  BY DEF PipeType
<1> QED
  BY <1>1, <1>2, <1>3, ListeningType

\* The phone moves on to its next packet, or sends the last one again.
LEMMA SentPipe ==
  ASSUME pipe \in PipeType, req \in ReqType, pipe.next <= req.n, pipe' \in Sent
  PROVE  /\ pipe' \in PipeType /\ pipe'.kind = pipe.kind
         /\ \/ pipe' = pipe
            \/ pipe'.toggle = Flip(pipe.toggle) /\ pipe'.next = pipe.next + 1
<1>1. pipe.next + 1 \in 1..(DataPackets + 1)
  BY DataBounds DEF PipeType, ReqType
<1>2. Flip(pipe.toggle) \in Toggles
  BY FlipToggle DEF PipeType
<1> DEFINE next == [pipe EXCEPT !.toggle = Flip(@), !.next = @ + 1]
<1>3. /\ next.kind = pipe.kind
      /\ next.toggle = Flip(pipe.toggle) /\ next.next = pipe.next + 1
  BY DEF PipeType
<1>4. next \in PipeType
  BY <1>1, <1>2 DEF PipeType
<1>5. pipe' = pipe \/ pipe' = next
  BY DEF Sent
<1> HIDE DEF next
<1> QED
  BY <1>3, <1>4, <1>5

\* The packet that is written is numbered, and the phone takes it or not.
LEMMA HeardPipe ==
  ASSUME CInv, step.fn = "put"
  PROVE  /\ PutNumber \in 1..req.n /\ PutNumber = req.n - step.left + 1
         /\ Heard \in PipeType /\ Heard.kind = "put"
         /\ IF pipe.toggle = chip.snd
              THEN Heard.heard = pipe.heard \cup {PutNumber} /\ Heard.toggle = Flip(pipe.toggle)
              ELSE Heard = pipe
<1>1. req.n \in 0..DataPackets /\ step.left \in 1..req.n /\ pipe \in PipeType /\ pipe.kind = "put"
  BY DEF CInv, WritingOn, ReqType
<1>2. PutNumber \in 1..req.n /\ PutNumber \in 1..DataPackets
  BY <1>1, DataBounds DEF PutNumber
<1>3. pipe.heard \cup {PutNumber} \in SUBSET (1..DataPackets) /\ Flip(pipe.toggle) \in Toggles
  BY <1>1, <1>2, FlipToggle DEF PipeType
<1> DEFINE more == [pipe EXCEPT !.heard = @ \cup {PutNumber}, !.toggle = Flip(@)]
<1>4. more \in PipeType
  BY <1>1, <1>3 DEF PipeType
<1>5. /\ more.kind = "put"
      /\ more.heard = pipe.heard \cup {PutNumber} /\ more.toggle = Flip(pipe.toggle)
  BY <1>1 DEF PipeType
<1>6. Heard = IF pipe.toggle = chip.snd THEN more ELSE pipe
  BY Zenon DEF Heard
<1>7. PutNumber = req.n - step.left + 1
  BY DEF PutNumber
<1> HIDE DEF more
<1> QED
  BY <1>1, <1>2, <1>4, <1>5, <1>6, <1>7
-----------------------------------------------------------------------------
\* While a request is dispatched no round is, and the chip is its own.
LEMMA Dispatched ==
  ASSUME CInv, step.fn # "none"
  PROVE  /\ call = Idle /\ req.result = "none" /\ chip \in Pairs
         /\ req \in ReqType /\ step \in Steps /\ pipe \in PipeType
         /\ req.n \in 0..DataPackets /\ req.kind \in Kinds /\ pipe.toggle \in Toggles
         /\ chip.snd \in Toggles /\ chip.rcv \in Toggles
<1>1. chip \in Pairs
  BY DEF CInv, IInv, TInv, TypeOK, Pairs
<1> QED
  BY <1>1 DEF CInv, InTurn, ReqType, PipeType, Pairs

\* A packet of a request that is to be sent again, or that is followed by another
\* of the same request: what is left to show of the invariant.
LEMMA GoesOn ==
  ASSUME CInv, step.fn # "none", step'.fn # "none",
         req' \in ReqType, step' \in Steps, pipe' \in PipeType, chip' \in Pairs,
         req'.kind = req.kind, req'.n = req.n, req'.result = "none",
         step'.fn = "setup" => req' = req /\ step.fn = "setup",
         ReadingOn', WritingOn', StatusLeft',
         UNCHANGED <<ep, call, phone, outVars, taken>>
  PROVE  CInv'
<1>1. IInv' /\ call' = Idle
  BY Dispatched, ChipIsFree DEF CInv
<1>2. InTurn'
  BY <1>1, IdleType DEF InTurn, Idle
<1>3. Asked'
  BY DEF CInv, Asked
<1>4. RequestCarriedOut'
  BY DEF RequestCarriedOut
<1> QED
  BY <1>1, <1>2, <1>3, <1>4 DEF CInv

\* ctrlReq returns a failure.
LEMMA FailureReturns ==
  ASSUME CInv, step.fn # "none", Returns("error"), pipe' \in PipeType,
         UNCHANGED transferVars
  PROVE  CInv'
<1>1. UNCHANGED <<ep, call, chip, phone, outVars, taken>>
  BY DEF transferVars
<1>2. step' = Idle /\ req' = [req EXCEPT !.result = "error"]
  BY DEF Returns
<1>3. IInv' /\ call' = Idle
  BY <1>1, Dispatched, ChipIsFree DEF CInv
<1>4. [req EXCEPT !.result = "error"] \in ReqType
  BY Dispatched DEF ReqType
<1>5. /\ [req EXCEPT !.result = "error"].kind = req.kind
      /\ [req EXCEPT !.result = "error"].n = req.n
      /\ [req EXCEPT !.result = "error"].result = "error"
  BY Dispatched DEF ReqType
<1>6. step' \in Steps /\ step'.fn = "none"
  BY <1>2, IdleStep
<1>7. InTurn' /\ RequestCarriedOut' /\ Asked'
  BY <1>2, <1>3, <1>5, <1>6 DEF InTurn, RequestCarriedOut, CInv, Asked
<1>8. ReadingOn' /\ WritingOn' /\ StatusLeft'
  BY <1>6 DEF ReadingOn, WritingOn, StatusLeft
<1> QED
  BY <1>2, <1>3, <1>4, <1>6, <1>7, <1>8 DEF CInv

LEMMA RequestStep == CInv /\ ctrlReq => CInv'
<1> SUFFICES ASSUME CInv, ctrlReq PROVE CInv'
  OBVIOUS
<1>0. PICK kind \in Kinds : \E n \in DataOf(kind) : req' = Request(kind, n)
  BY DEF ctrlReq
<1>1. PICK n \in DataOf(kind) : req' = Request(kind, n)
  BY <1>0
<1>2. /\ step' = Begin("setup", 0, FALSE) /\ pipe' = pipe
      /\ UNCHANGED <<ep, call, chip, phone, outVars, taken>>
  BY DEF ctrlReq, transferVars
<1>3. n \in 0..DataPackets
  BY DataBounds DEF DataOf
<1>4. req' \in ReqType
  BY <1>1, <1>3 DEF Request, ReqType
<1>5. /\ req'.kind = kind /\ req'.n = n /\ req'.data = <<>> /\ req'.dropped = {}
      /\ req'.result = "none"
  BY <1>1 DEF Request
<1>6. step' \in Steps /\ step'.fn = "setup"
  BY <1>2, BeginStep, DataBounds
<1>7. call = Idle /\ chip \in Pairs
  <2>1. chip \in Pairs
    BY DEF CInv, IInv, TInv, TypeOK, Pairs
  <2> QED
    BY <2>1 DEF CInv, InTurn, ctrlReq
<1>8. IInv'
  BY <1>2, <1>7, ChipIsFree DEF CInv
<1>9. InTurn' /\ Asked' /\ RequestCarriedOut'
  BY <1>2, <1>5, <1>6, <1>7 DEF InTurn, Asked, RequestCarriedOut
<1>10. ReadingOn' /\ WritingOn' /\ StatusLeft'
  BY <1>6 DEF ReadingOn, WritingOn, StatusLeft
<1> QED
  BY <1>2, <1>4, <1>6, <1>8, <1>9, <1>10 DEF CInv

\* What the stages say is not of the time, nor of the retries.
LEMMA SameStage ==
  ASSUME CInv, step.fn # "none", step'.fn = step.fn, step'.left = step.left,
         UNCHANGED <<req, chip>>, pipe'.kind = pipe.kind, pipe'.heard = pipe.heard,
         step.fn \in {"get", "put"} => pipe' = pipe
  PROVE  ReadingOn' /\ WritingOn' /\ StatusLeft'
<1>1. ReadingOn'
  BY DEF CInv, ReadingOn, InOrder
<1>2. PutNumber' = PutNumber
  BY DEF PutNumber
<1>3. WritingOn'
  BY <1>2 DEF CInv, WritingOn, Missing, PutInStep
<1>4. StatusLeft'
  BY DEF CInv, StatusLeft, DataDone
<1> QED
  BY <1>1, <1>3, <1>4

LEMMA LateStep == CInv /\ TimeIsOver => CInv'
<1> SUFFICES ASSUME CInv, TimeIsOver PROVE CInv'
  OBVIOUS
<1>1. /\ step.fn # "none" /\ step' = [step EXCEPT !.late = TRUE]
      /\ UNCHANGED <<req, pipe>>
      /\ UNCHANGED <<ep, call, chip, phone, outVars, taken>>
  BY DEF TimeIsOver, CInv, InTurn, transferVars
<1>2. [step EXCEPT !.late = TRUE] \in Steps
  BY <1>1, Dispatched DEF Steps
<1>3. step'.fn = step.fn /\ step'.left = step.left
  BY <1>1, Dispatched DEF Steps
<1>4. ReadingOn' /\ WritingOn' /\ StatusLeft'
  BY <1>1, <1>3, SameStage
<1>5. /\ chip' \in Pairs /\ req' \in ReqType /\ pipe' \in PipeType /\ step' \in Steps
      /\ req'.result = "none" /\ step'.fn # "none"
      /\ UNCHANGED <<ep, call, phone, outVars, taken>>
  BY <1>1, <1>2, <1>3, Dispatched
<1>6. step'.fn = "setup" => req' = req /\ step.fn = "setup"
  BY <1>1, <1>3
<1> QED
  BY <1>1, <1>4, <1>5, <1>6, GoesOn

\* dispatchPkt sends a token again.
LEMMA DispatchStep ==
  ASSUME CInv, NEW failure \in Failures, DispatchAgain(failure) \/ DispatchFails(failure)
  PROVE  CInv'
<1>1. /\ Dispatches /\ step.fn # "none" /\ pipe' \in Left(failure)
      /\ UNCHANGED <<ep, call, chip, phone, outVars, taken>>
  BY DEF DispatchAgain, DispatchFails, Dispatches, transferVars
<1>2. /\ pipe' \in PipeType
      /\ step.fn = "get" => pipe' = pipe
      /\ step.fn = "status" => pipe'.kind = pipe.kind /\ pipe'.heard = pipe.heard
  BY <1>1, Dispatched, LeftPipe
<1>3. CASE DispatchFails(failure)
  BY <1>1, <1>2, <1>3, FailureReturns DEF DispatchFails
<1>4. CASE DispatchAgain(failure)
  <2>1. /\ step' = Counted(step, failure) /\ ~Fatal(step, failure, NakLimit)
        /\ req' = req
    BY <1>4 DEF DispatchAgain
  <2>2. step' \in Steps /\ step'.fn = step.fn /\ step'.left = step.left
    BY <1>1, <2>1, Dispatched, CountedStep
  <2>3. CASE step.fn = "setup"
    <3>1. ReadingOn' /\ WritingOn' /\ StatusLeft'
      BY <2>2, <2>3 DEF ReadingOn, WritingOn, StatusLeft
    <3> QED
      BY <1>1, <1>2, <2>1, <2>2, <2>3, <3>1, Dispatched, GoesOn
  <2>4. CASE step.fn \in {"get", "status"}
    <3>1. ReadingOn' /\ WritingOn' /\ StatusLeft'
      BY <1>1, <1>2, <2>1, <2>2, <2>4, SameStage
    <3>2. /\ chip' \in Pairs /\ req' \in ReqType
          /\ req'.result = "none" /\ step'.fn # "none" /\ step'.fn # "setup"
          /\ UNCHANGED <<ep, call, phone, outVars, taken>>
      BY <1>1, <2>1, <2>2, <2>4, Dispatched
    <3> QED
      BY <1>1, <1>2, <2>1, <2>2, <3>1, <3>2, GoesOn
  <2> QED
    BY <1>1, <2>3, <2>4 DEF Dispatches
<1> QED
  BY <1>3, <1>4
-----------------------------------------------------------------------------
\* The phone has acknowledged the setup: both ends begin the data at toggle 1.
LEMMA SetupStep == CInv /\ SetupAcked => CInv'
<1> SUFFICES ASSUME CInv, SetupAcked PROVE CInv'
  OBVIOUS
<1>1. /\ step.fn = "setup" /\ pipe' = Listening /\ req' = req
      /\ UNCHANGED <<ep, call, phone, outVars, taken>>
  BY DEF SetupAcked
<1>2. /\ req \in ReqType /\ req.n \in 0..DataPackets /\ req.kind \in Kinds
      /\ chip \in Pairs /\ req.result = "none"
      /\ req.n \in DataOf(req.kind) /\ req.data = <<>> /\ req.dropped = {}
  BY <1>1, Dispatched DEF CInv, Asked
<1>3. /\ pipe' \in PipeType /\ pipe'.kind = req.kind /\ pipe'.toggle = 1
      /\ pipe'.next = 1 /\ pipe'.heard = {}
  BY <1>1, <1>2, ListeningType
<1>4. CASE req.n = 0
  <2>1. step' = Begin("status", 0, FALSE) /\ chip' = chip
    BY <1>4 DEF SetupAcked
  <2>2. step' \in Steps /\ step'.fn = "status"
    BY <2>1, BeginStep, DataBounds
  <2>3. req.kind \notin {"get", "put"}
    BY <1>2, <1>4 DEF DataOf
  <2>4. ReadingOn' /\ WritingOn' /\ StatusLeft'
    BY <1>1, <1>3, <2>2, <2>3 DEF ReadingOn, WritingOn, StatusLeft, DataDone
  <2> QED
    BY <1>1, <1>2, <1>3, <2>1, <2>2, <2>4, GoesOn
<1>5. CASE req.n # 0
  <2>1. step' = Begin(req.kind, req.n, FALSE) /\ BeginData
    BY <1>5 DEF SetupAcked
  <2>2. req.kind \in {"get", "put"} /\ req.n \in 1..DataPackets
    BY <1>2, <1>5 DEF DataOf
  <2>3. step' \in Steps /\ step'.fn = req.kind /\ step'.left = req.n
    <3>1. req.n \in 0..DataPackets
      BY <1>2
    <3>2. /\ Begin("get", req.n, FALSE) \in Steps /\ Begin("get", req.n, FALSE).fn = "get"
          /\ Begin("get", req.n, FALSE).left = req.n
      BY <3>1, BeginStep
    <3>3. /\ Begin("put", req.n, FALSE) \in Steps /\ Begin("put", req.n, FALSE).fn = "put"
          /\ Begin("put", req.n, FALSE).left = req.n
      BY <3>1, BeginStep
    <3>4. step' = Begin("get", req.n, FALSE) \/ step' = Begin("put", req.n, FALSE)
      BY <2>1, <2>2
    <3>5. step' \in Steps
      BY <3>2, <3>3, <3>4
    <3> QED
      BY <2>1, <2>2, <3>2, <3>3, <3>5
  <2>4. CASE req.kind = "get"
    <3>1. chip' \in Pairs /\ chip'.rcv = 1
      BY <1>2, <2>1, <2>4 DEF BeginData, Pairs, Toggles
    <3>2. Len(req'.data) = 0 /\ InOrder'
      BY <1>1, <1>2 DEF InOrder
    <3>3. ReadingOn' /\ WritingOn' /\ StatusLeft'
      BY <1>1, <1>3, <2>2, <2>3, <2>4, <3>1, <3>2 DEF ReadingOn, WritingOn, StatusLeft
    <3> QED
      BY <1>1, <1>2, <1>3, <2>3, <2>4, <3>1, <3>3, GoesOn
  <2>5. CASE req.kind = "put"
    <3>1. chip' \in Pairs /\ chip'.snd = 1
      BY <1>2, <2>1, <2>5 DEF BeginData, Pairs, Toggles
    <3>2. PutNumber' = 1 /\ step'.left \in 1..req'.n
      BY <1>1, <2>2, <2>3 DEF PutNumber
    <3>3. Missing(PutNumber)' = {} /\ req'.dropped = {} /\ Cardinality({}) = 0
      BY <1>1, <1>2, <1>3, <3>2, FS_EmptySet DEF Missing
    <3>4. PutInStep' /\ ~(PutNumber \in pipe.heard)'
      BY <1>3, <3>1 DEF PutInStep
    <3>5. Cardinality(Missing(PutNumber)') + (IF PutInStep' THEN 0 ELSE 1)
            <= Cardinality(req'.dropped)
      BY <3>3, <3>4
    <3>6. WritingOn'
      BY <1>1, <1>2, <1>3, <2>5, <3>2, <3>3, <3>4, <3>5 DEF WritingOn
    <3>7. ReadingOn' /\ StatusLeft'
      BY <2>3, <2>5 DEF ReadingOn, StatusLeft
    <3> QED
      BY <1>1, <1>2, <1>3, <2>3, <2>5, <3>1, <3>6, <3>7, GoesOn
  <2> QED
    BY <2>2, <2>4, <2>5
<1> QED
  BY <1>4, <1>5

\* The status is acknowledged: ctrlReq returns 0, and the phone is done unless it
\* did not hear it.
LEMMA StatusStep == CInv /\ StatusAcked => CInv'
<1> SUFFICES ASSUME CInv, StatusAcked PROVE CInv'
  OBVIOUS
<1>1. PICK heard \in BOOLEAN : /\ pipe' = [pipe EXCEPT !.done = heard]
                               /\ req' = [req EXCEPT !.result = "ok", !.unheard = ~heard]
  BY DEF StatusAcked
<1>2. /\ step.fn = "status" /\ step' = Idle
      /\ UNCHANGED <<ep, call, chip, phone, outVars, taken>>
  BY DEF StatusAcked, transferVars
<1>3. /\ req \in ReqType /\ pipe \in PipeType /\ chip \in Pairs /\ call = Idle
  BY <1>2, Dispatched
<1> DEFINE asked == [req EXCEPT !.result = "ok", !.unheard = ~heard]
           ended == [pipe EXCEPT !.done = heard]
<1>4. asked \in ReqType /\ ended \in PipeType
  BY <1>3 DEF ReqType, PipeType
<1>5. /\ asked.kind = req.kind /\ asked.n = req.n /\ asked.data = req.data
      /\ asked.dropped = req.dropped /\ asked.unheard = ~heard
  BY <1>3 DEF ReqType
<1>6. ended.kind = pipe.kind /\ ended.heard = pipe.heard /\ ended.done = heard
  BY <1>3 DEF PipeType
<1>7. req' = asked /\ pipe' = ended
  BY <1>1
<1> HIDE DEF asked, ended
<1>8. step' \in Steps /\ step'.fn = "none"
  BY <1>2, IdleStep
<1>9. IInv' /\ call' = Idle
  BY <1>2, <1>3, ChipIsFree DEF CInv
<1>10. InTurn' /\ Asked'
  BY <1>2, <1>5, <1>7, <1>8, <1>9 DEF InTurn, CInv, Asked
<1>11. ReadingOn' /\ WritingOn' /\ StatusLeft'
  BY <1>8 DEF ReadingOn, WritingOn, StatusLeft
<1>12. RequestCarriedOut'
  <2>1. DataDone
    BY <1>2 DEF CInv, StatusLeft
  <2>2. pipe'.done = heard /\ req'.unheard = ~heard
    BY <1>5, <1>6, <1>7
  <2>3. pipe'.done = ~req'.unheard
    BY <2>2
  <2>4. /\ pipe'.kind = req'.kind
        /\ req'.kind = "get" => req'.data = [i \in 1..req'.n |-> i]
        /\ req'.kind = "put" =>
             Cardinality(1..req'.n \ pipe'.heard) <= Cardinality(req'.dropped)
    BY <1>5, <1>6, <1>7, <2>1 DEF DataDone
  <2> QED
    BY <2>3, <2>4 DEF RequestCarriedOut
<1> QED
  BY <1>4, <1>7, <1>8, <1>9, <1>10, <1>11, <1>12 DEF CInv

\* inTransfer receives the packet that follows.
LEMMA ReceiveStep == CInv /\ Receive => CInv'
<1> SUFFICES ASSUME CInv, Receive PROVE CInv'
  OBVIOUS
<1>1. /\ step.fn = "get" /\ pipe.toggle = chip.rcv /\ pipe.next <= req.n
      /\ pipe' \in Sent
      /\ req' = [req EXCEPT !.data = Append(@, pipe.next)]
      /\ chip' = [chip EXCEPT !.rcv = Flip(@)]
      /\ step' = IF LastOne THEN Begin("status", 0, FALSE)
                            ELSE Begin("get", step.left - 1, FALSE)
      /\ UNCHANGED <<ep, call, phone, outVars, taken>>
  BY DEF Receive
<1>2. /\ req \in ReqType /\ pipe \in PipeType /\ chip \in Pairs /\ req.result = "none"
      /\ req.n \in 0..DataPackets /\ pipe.toggle \in Toggles
  BY <1>1, Dispatched
<1>3. /\ req.kind = "get" /\ pipe.kind = "get" /\ InOrder
      /\ step.left = req.n - Len(req.data) /\ step.left >= 1
      /\ pipe.next = Len(req.data) + 1
  BY <1>1 DEF CInv, ReadingOn
<1>4. req.data \in Seq(1..DataPackets) /\ Len(req.data) \in Nat
  BY <1>2 DEF ReqType
<1>5. pipe.next \in 1..DataPackets
  BY <1>1, <1>2, <1>3, <1>4, DataBounds
<1>6. /\ Append(req.data, pipe.next) \in Seq(1..DataPackets)
      /\ Len(Append(req.data, pipe.next)) = Len(req.data) + 1
      /\ Append(req.data, pipe.next) = [i \in 1..(Len(req.data) + 1) |-> i]
  BY <1>3, <1>4, <1>5 DEF InOrder
<1> DEFINE more == [req EXCEPT !.data = Append(@, pipe.next)]
<1>7. /\ more \in ReqType /\ more.kind = "get" /\ more.n = req.n /\ more.result = "none"
      /\ more.data = Append(req.data, pipe.next)
  BY <1>2, <1>3, <1>6 DEF ReqType
<1>8. req' = more
  BY <1>1
<1> HIDE DEF more
<1>9. /\ Len(req'.data) = Len(req.data) + 1 /\ InOrder'
  BY <1>6, <1>7, <1>8 DEF InOrder
<1>10. chip' \in Pairs /\ chip'.rcv = Flip(chip.rcv) /\ Flip(chip.rcv) # chip.rcv
  BY <1>1, <1>2, FlipToggle DEF Pairs
<1>11. /\ pipe' \in PipeType /\ pipe'.kind = "get"
       /\ \/ pipe' = pipe
          \/ /\ pipe'.toggle = Flip(pipe.toggle) /\ pipe'.next = pipe.next + 1
  BY <1>1, <1>2, <1>3, SentPipe
<1>12. pipe'.next = IF pipe'.toggle = chip'.rcv THEN Len(req'.data) + 1 ELSE Len(req'.data)
  BY <1>1, <1>3, <1>4, <1>9, <1>10, <1>11
<1>13. CASE LastOne
  <2>1. step' \in Steps /\ step'.fn = "status"
    BY <1>1, <1>13, BeginStep, DataBounds
  <2>2. req'.data = [i \in 1..req'.n |-> i]
    BY <1>6, <1>7, <1>8, <1>13 DEF LastOne
  <2>3. ReadingOn' /\ WritingOn' /\ StatusLeft'
    BY <1>7, <1>8, <1>11, <2>1, <2>2 DEF ReadingOn, WritingOn, StatusLeft, DataDone
  <2> QED
    BY <1>1, <1>3, <1>7, <1>8, <1>10, <1>11, <2>1, <2>3, GoesOn
<1>14. CASE ~LastOne
  <2>1. step.left >= 2 /\ step.left - 1 \in 0..DataPackets
    BY <1>2, <1>3, <1>4, <1>14, DataBounds DEF LastOne
  <2>2. step' \in Steps /\ step'.fn = "get" /\ step'.left = step.left - 1
    BY <1>1, <1>14, <2>1, BeginStep
  <2>3. step'.left = req'.n - Len(req'.data) /\ step'.left >= 1
    BY <1>2, <1>3, <1>4, <1>7, <1>8, <1>9, <2>1, <2>2
  <2>4. ReadingOn' /\ WritingOn' /\ StatusLeft'
    BY <1>7, <1>8, <1>9, <1>11, <1>12, <2>2, <2>3 DEF ReadingOn, WritingOn, StatusLeft
  <2> QED
    BY <1>1, <1>3, <1>7, <1>8, <1>10, <1>11, <2>2, <2>4, GoesOn
<1> QED
  BY <1>13, <1>14

LEMMA ReceiveErrorStep == CInv /\ ReceiveError => CInv'
<1> SUFFICES ASSUME CInv, ReceiveError PROVE CInv'
  OBVIOUS
<1>1. /\ step.fn = "get" /\ pipe.next <= req.n /\ pipe' \in Sent
      /\ Returns("error") /\ UNCHANGED transferVars
  BY DEF ReceiveError
<1>2. pipe' \in PipeType
  BY <1>1, Dispatched, SentPipe
<1> QED
  BY <1>1, <1>2, FailureReturns
-----------------------------------------------------------------------------
\* A packet more to look at is one missing more, unless the phone has it.
LEMMA OneMore ==
  ASSUME NEW p \in Nat, p >= 1, NEW heard
  PROVE  /\ Cardinality(1..p \ heard) \in Nat /\ Cardinality(1..(p - 1) \ heard) \in Nat
         /\ Cardinality(1..p \ heard) =
              Cardinality(1..(p - 1) \ heard) + (IF p \in heard THEN 0 ELSE 1)
<1> DEFINE before == 1..(p - 1) \ heard
           now == 1..p \ heard
<1>1. IsFiniteSet(1..(p - 1)) /\ IsFiniteSet(1..p)
  BY FS_Interval
<1>2. IsFiniteSet(before) /\ IsFiniteSet(now)
  BY <1>1, FS_Subset
<1>3. Cardinality(before) \in Nat /\ Cardinality(now) \in Nat
  BY <1>2, FS_CardinalityType
<1>4. CASE p \in heard
  <2>1. now = before
    BY <1>4
  <2> QED
    BY <1>3, <1>4, <2>1
<1>5. CASE p \notin heard
  <2>1. now = before \cup {p} /\ p \notin before
    BY <1>5
  <2>2. Cardinality(before \cup {p}) = Cardinality(before) + 1
    BY <1>2, <2>1, FS_AddElement
  <2> QED
    BY <1>3, <1>5, <2>1, <2>2
<1> QED
  BY <1>4, <1>5

\* The packets that were dropped are finitely many, and one more is one more.
LEMMA DroppedFinite ==
  ASSUME req \in ReqType
  PROVE  /\ Cardinality(req.dropped) \in Nat
         /\ \A p : p \notin req.dropped =>
              Cardinality(req.dropped \cup {p}) = Cardinality(req.dropped) + 1
<1>1. req.dropped \subseteq 1..DataPackets
  BY DEF ReqType
<1>2. IsFiniteSet(req.dropped)
  <2>1. IsFiniteSet(1..DataPackets)
    BY DataBounds, FS_Interval
  <2> QED
    BY <1>1, <2>1, FS_Subset
<1>3. Cardinality(req.dropped) \in Nat
  BY <1>2, FS_CardinalityType
<1>4. ASSUME NEW p, p \notin req.dropped
      PROVE  Cardinality(req.dropped \cup {p}) = Cardinality(req.dropped) + 1
  BY <1>2, <1>4, FS_AddElement
<1> QED
  BY <1>3, <1>4

\* The facts about the packet that is written.
LEMMA Writes ==
  ASSUME CInv, step.fn = "put"
  PROVE  /\ req.kind = "put" /\ pipe.kind = "put" /\ req.n \in Nat
         /\ step.left \in 1..req.n /\ PutNumber \in 1..req.n /\ PutNumber \in Nat
         /\ PutNumber = req.n - step.left + 1 /\ PutNumber \in 1..DataPackets
         /\ pipe.heard \subseteq 1..PutNumber /\ req.dropped \subseteq 1..(PutNumber - 1)
         /\ PutNumber \notin req.dropped
         /\ PutNumber \in pipe.heard => chip.snd # pipe.toggle
         /\ Cardinality(Missing(PutNumber)) + (IF PutInStep THEN 0 ELSE 1)
              <= Cardinality(req.dropped)
         /\ Cardinality(Missing(PutNumber)) \in Nat /\ Cardinality(req.dropped) \in Nat
<1>1. /\ req.kind = "put" /\ pipe.kind = "put" /\ step.left \in 1..req.n
      /\ pipe.heard \subseteq 1..PutNumber /\ req.dropped \subseteq 1..(PutNumber - 1)
      /\ PutNumber \in pipe.heard => chip.snd # pipe.toggle
      /\ Cardinality(Missing(PutNumber)) + (IF PutInStep THEN 0 ELSE 1)
           <= Cardinality(req.dropped)
  BY DEF CInv, WritingOn
<1>2. req \in ReqType /\ req.n \in 0..DataPackets
  BY Dispatched
<1>3. PutNumber \in 1..req.n /\ PutNumber = req.n - step.left + 1
  BY HeardPipe
<1>4. PutNumber \in Nat /\ PutNumber >= 1 /\ PutNumber \in 1..DataPackets /\ req.n \in Nat
  BY <1>2, <1>3, DataBounds
<1>5. PutNumber \notin 1..(PutNumber - 1)
  BY <1>4
<1>6. Cardinality(Missing(PutNumber)) \in Nat
  BY <1>4, OneMore DEF Missing
<1> QED
  BY <1>1, <1>2, <1>3, <1>4, <1>5, <1>6, DroppedFinite

\* What is to be shown when outTransfer goes on to the next packet, or ends.
LEMMA NextPutStep ==
  ASSUME CInv, step.fn = "put", step' = NextPut, pipe' \in PipeType, pipe'.kind = "put",
         req' \in ReqType, req'.kind = req.kind, req'.n = req.n, req'.result = "none",
         chip' \in Pairs, pipe'.heard \subseteq 1..PutNumber,
         req'.dropped \subseteq 1..PutNumber,
         Cardinality(1..PutNumber \ pipe'.heard)
           + (IF chip'.snd = pipe'.toggle THEN 0 ELSE 1) <= Cardinality(req'.dropped),
         UNCHANGED <<ep, call, phone, outVars, taken>>
  PROVE  CInv'
<1>1. /\ req.kind = "put" /\ req.n \in Nat /\ step.left \in 1..req.n
      /\ PutNumber \in Nat /\ PutNumber >= 1 /\ PutNumber = req.n - step.left + 1
      /\ req.n \in 0..DataPackets /\ step.late \in BOOLEAN
  BY Writes, Dispatched DEF Steps
<1>2. Cardinality(1..PutNumber \ pipe'.heard) \in Nat /\ Cardinality(req'.dropped) \in Nat
  <2>1. IsFiniteSet(1..PutNumber)
    <3> DEFINE p == PutNumber
    <3>1. p \in Nat
      BY <1>1
    <3> HIDE DEF p
    <3>2. IsFiniteSet(1..p)
      BY <3>1, FS_Interval
    <3> QED
      BY <3>2 DEF p
  <2>2. IsFiniteSet(1..PutNumber \ pipe'.heard) /\ IsFiniteSet(req'.dropped)
    BY <2>1, FS_Subset
  <2> QED
    BY <2>2, FS_CardinalityType
<1>3. CASE step.left > 1
  <2>1. step.left - 1 \in 0..DataPackets /\ step.left - 1 \in 1..req.n
    BY <1>1, <1>3, DataBounds
  <2>2. step' = Begin("put", step.left - 1, step.late)
    BY <1>3 DEF NextPut
  <2>3. step' \in Steps /\ step'.fn = "put" /\ step'.left = step.left - 1
    BY <1>1, <2>1, <2>2, BeginStep
  <2>4. PutNumber' = PutNumber + 1
    BY <1>1, <2>3 DEF PutNumber
  <2>5. PutNumber + 1 \notin 1..PutNumber /\ PutNumber + 1 - 1 = PutNumber
        /\ 1..PutNumber \subseteq 1..(PutNumber + 1)
    BY <1>1
  <2>6. Missing(PutNumber)' = 1..PutNumber \ pipe'.heard
    <3>1. Missing(PutNumber)' = 1..(PutNumber' - 1) \ pipe'.heard
      BY DEF Missing
    <3>2. PutNumber' - 1 = PutNumber
      BY <1>1, <2>4
    <3> QED
      BY <3>1, <3>2
  <2>7. ~(PutNumber' \in pipe'.heard)
    BY <2>4, <2>5
  <2>8. PutInStep' <=> chip'.snd = pipe'.toggle
    BY <2>7 DEF PutInStep
  <2>9. Cardinality(Missing(PutNumber)') + (IF PutInStep' THEN 0 ELSE 1)
          <= Cardinality(req'.dropped)
    BY <2>6, <2>8
  <2>10. pipe'.heard \subseteq 1..PutNumber' /\ req'.dropped \subseteq 1..(PutNumber' - 1)
    <3>1. PutNumber' - 1 = PutNumber
      BY <1>1, <2>4
    <3>2. pipe'.heard \subseteq 1..(PutNumber + 1)
      BY <2>5
    <3>3. pipe'.heard \subseteq 1..PutNumber'
      BY <2>4, <3>2
    <3>4. req'.dropped \subseteq 1..(PutNumber' - 1)
      BY <3>1
    <3> QED
      BY <3>3, <3>4
  <2>11. WritingOn'
    BY <1>1, <2>1, <2>3, <2>7, <2>9, <2>10 DEF WritingOn
  <2>12. ReadingOn' /\ StatusLeft'
    BY <2>3 DEF ReadingOn, StatusLeft
  <2> QED
    BY <2>3, <2>11, <2>12, GoesOn
<1>4. CASE ~(step.left > 1)
  <2>1. step' = Begin("status", 0, FALSE)
    BY <1>4 DEF NextPut
  <2>2. step' \in Steps /\ step'.fn = "status"
    <3>1. Begin("status", 0, FALSE) \in Steps /\ Begin("status", 0, FALSE).fn = "status"
      BY BeginStep, DataBounds
    <3> QED
      BY <2>1, <3>1
  <2>3. PutNumber = req.n
    BY <1>1, <1>4
  <2>4. Cardinality(1..req'.n \ pipe'.heard) <= Cardinality(req'.dropped)
    BY <1>2, <2>3
  <2>5. StatusLeft'
    BY <1>1, <2>4 DEF StatusLeft, DataDone
  <2>6. ReadingOn' /\ WritingOn'
    BY <2>2 DEF ReadingOn, WritingOn
  <2> QED
    BY <2>2, <2>5, <2>6, GoesOn
<1> QED
  BY <1>3, <1>4

\* What the phone has and expects after the packet was sent, heard or not.
LEMMA PutFate ==
  ASSUME CInv, step.fn = "put", pipe' \in {pipe, Heard}
  PROVE  /\ pipe' \in PipeType /\ pipe'.kind = "put" /\ pipe'.heard \subseteq 1..PutNumber
         /\ \/ pipe' = pipe
            \/ /\ pipe.toggle = chip.snd /\ PutNumber \notin pipe.heard
               /\ pipe'.heard = pipe.heard \cup {PutNumber}
               /\ pipe'.toggle = Flip(pipe.toggle)
<1>1. pipe \in PipeType /\ pipe.kind = "put" /\ PutNumber \in 1..PutNumber
  BY Writes, Dispatched
<1>2. CASE pipe' = pipe
  BY <1>1, <1>2, Writes
<1>3. CASE pipe' = Heard /\ pipe.toggle = chip.snd
  <2>1. PutNumber \notin pipe.heard
    BY <1>3, Writes
  <2> QED
    BY <1>1, <1>3, <2>1, HeardPipe, Writes
<1>4. CASE pipe' = Heard /\ pipe.toggle # chip.snd
  BY <1>2, <1>4, HeardPipe
<1> QED
  BY <1>2, <1>3, <1>4

LEMMA HeardOrNotPipe ==
  ASSUME NEW failure, pipe' \in HeardOrNot(failure)
  PROVE  pipe' \in {pipe, Heard}
BY DEF HeardOrNot

\* A packet that the phone took is missed no more; one that it did not take is
\* missed, and the toggles agree again.
LEMMA PutAckedStep == CInv /\ PutAcked => CInv'
<1> SUFFICES ASSUME CInv, PutAcked PROVE CInv'
  OBVIOUS
<1>1. /\ step.fn = "put" /\ pipe' = Heard /\ step' = NextPut /\ req' = req
      /\ chip' = [chip EXCEPT !.snd = Flip(@)]
      /\ UNCHANGED <<ep, call, phone, outVars, taken>>
  BY DEF PutAcked
<1>2. /\ req \in ReqType /\ req.result = "none" /\ chip \in Pairs
      /\ pipe.toggle \in Toggles /\ chip.snd \in Toggles
  BY <1>1, Dispatched
<1>3. chip' \in Pairs /\ chip'.snd = Flip(chip.snd)
  BY <1>1, <1>2, FlipToggle DEF Pairs
<1>4. pipe' \in PipeType /\ pipe'.kind = "put" /\ pipe'.heard \subseteq 1..PutNumber
  BY <1>1, PutFate
<1>5. chip'.snd = pipe'.toggle
  <2>1. CASE pipe.toggle = chip.snd
    BY <1>1, <1>3, <2>1, HeardPipe
  <2>2. CASE pipe.toggle # chip.snd
    <3>1. pipe' = pipe
      BY <1>1, <2>2, HeardPipe
    <3>2. Flip(chip.snd) = pipe.toggle
      BY <1>2, <2>2 DEF Flip, Toggles
    <3> QED
      BY <1>3, <3>1, <3>2
  <2> QED
    BY <2>1, <2>2
<1>6. Cardinality(1..PutNumber \ pipe'.heard) <= Cardinality(req.dropped)
  <2>1. Missing(PutNumber)' = 1..(PutNumber' - 1) \ pipe'.heard
    BY DEF Missing
  <2>2. /\ PutNumber \in Nat /\ PutNumber >= 1
        /\ Cardinality(Missing(PutNumber)) + (IF PutInStep THEN 0 ELSE 1)
             <= Cardinality(req.dropped)
        /\ Cardinality(Missing(PutNumber)) \in Nat /\ Cardinality(req.dropped) \in Nat
    BY <1>1, Writes
  <2>3. CASE pipe.toggle = chip.snd
    <3>1. 1..PutNumber \ pipe'.heard = Missing(PutNumber)
      <4>1. pipe'.heard = pipe.heard \cup {PutNumber} /\ PutNumber \notin 1..(PutNumber - 1)
        BY <1>1, <2>2, <2>3, HeardPipe
      <4>2. 1..PutNumber = 1..(PutNumber - 1) \cup {PutNumber}
        BY <2>2
      <4> QED
        BY <4>1, <4>2 DEF Missing
    <3> QED
      BY <2>2, <3>1
  <2>4. CASE pipe.toggle # chip.snd
    <3>1. pipe' = pipe
      BY <1>1, <2>4, HeardPipe
    <3>2. Cardinality(1..PutNumber \ pipe.heard) =
            Cardinality(Missing(PutNumber)) + (IF PutNumber \in pipe.heard THEN 0 ELSE 1)
      BY <2>2, OneMore DEF Missing
    <3>3. PutInStep <=> PutNumber \in pipe.heard
      BY <2>4 DEF PutInStep
    <3> QED
      BY <2>2, <3>1, <3>2, <3>3
  <2> QED
    BY <2>3, <2>4
<1>7. req.dropped \subseteq 1..PutNumber /\ Cardinality(req.dropped) \in Nat
  BY <1>1, Writes
<1>8. Cardinality(1..PutNumber \ pipe'.heard) \in Nat
  <2>1. PutNumber \in Nat /\ PutNumber >= 1
    BY <1>1, Writes
  <2> QED
    BY <2>1, OneMore
<1>9. Cardinality(1..PutNumber \ pipe'.heard)
        + (IF chip'.snd = pipe'.toggle THEN 0 ELSE 1) <= Cardinality(req'.dropped)
  BY <1>1, <1>5, <1>6, <1>7, <1>8
<1> QED
  BY <1>1, <1>2, <1>3, <1>4, <1>7, <1>9, NextPutStep

\* A packet that is sent again stays in step when the phone has it already.
LEMMA PutAgainStep ==
  ASSUME CInv, NEW failure \in Failures, PutAgain(failure)
  PROVE  CInv'
<1>1. /\ step.fn = "put" /\ step' = Counted(step, failure) /\ req' = req
      /\ ~Fatal(step, failure, NakLimit) /\ pipe' \in {pipe, Heard}
      /\ UNCHANGED <<ep, call, chip, phone, outVars, taken>>
  BY HeardOrNotPipe DEF PutAgain, transferVars
<1>2. /\ req \in ReqType /\ req.result = "none" /\ chip \in Pairs /\ step \in Steps
      /\ pipe.toggle \in Toggles
  BY <1>1, Dispatched
<1>3. step' \in Steps /\ step'.fn = "put" /\ step'.left = step.left
  BY <1>1, <1>2, CountedStep
<1>4. CASE pipe' = pipe
  <2>1. ReadingOn' /\ WritingOn' /\ StatusLeft'
    BY <1>1, <1>3, <1>4, SameStage
  <2> QED
    BY <1>1, <1>2, <1>3, <2>1, PutFate, GoesOn
<1>5. CASE /\ pipe.toggle = chip.snd /\ PutNumber \notin pipe.heard
           /\ pipe'.heard = pipe.heard \cup {PutNumber}
           /\ pipe'.toggle = Flip(pipe.toggle)
  <2>1. PutNumber' = PutNumber /\ PutNumber \in Nat
    BY <1>1, <1>3, Writes DEF PutNumber
  <2>2. PutNumber \notin 1..(PutNumber - 1)
    BY <2>1
  <2>3. Missing(PutNumber)' = Missing(PutNumber)
    BY <1>5, <2>1, <2>2 DEF Missing
  <2>4. PutInStep' /\ PutInStep
    BY <1>5, <2>1 DEF PutInStep
  <2>5. chip'.snd # pipe'.toggle
    BY <1>1, <1>2, <1>5, FlipToggle
  <2>6. pipe'.kind = "put" /\ pipe'.heard \subseteq 1..PutNumber /\ pipe' \in PipeType
    BY <1>1, PutFate
  <2>7. Cardinality(Missing(PutNumber)') + (IF PutInStep' THEN 0 ELSE 1)
          <= Cardinality(req'.dropped)
    BY <1>1, <2>3, <2>4, Writes
  <2>8. /\ step'.left \in 1..req'.n /\ req'.kind = "put"
        /\ req'.dropped \subseteq 1..(PutNumber' - 1)
    BY <1>1, <1>3, <2>1, Writes
  <2>9. WritingOn'
    BY <2>1, <2>5, <2>6, <2>7, <2>8 DEF WritingOn
  <2>10. ReadingOn' /\ StatusLeft'
    BY <1>3 DEF ReadingOn, StatusLeft
  <2> QED
    BY <1>1, <1>2, <1>3, <2>6, <2>9, <2>10, GoesOn
<1> QED
  BY <1>1, <1>4, <1>5, PutFate

LEMMA PutFailsStep ==
  ASSUME CInv, NEW failure \in Failures, PutFails(failure)
  PROVE  CInv'
<1>1. /\ step.fn = "put" /\ Returns("error") /\ pipe' \in {pipe, Heard}
      /\ UNCHANGED transferVars
  BY HeardOrNotPipe DEF PutFails
<1> QED
  BY <1>1, PutFate, FailureReturns

\* The packet that is dropped pays for itself when the phone does not have it, and
\* when it has, for the toggle that differs from now on.
LEMMA PutGoesOnStep ==
  ASSUME CInv, NEW failure \in Failures, PutGoesOn(failure)
  PROVE  CInv'
<1>1. /\ step.fn = "put" /\ step' = NextPut /\ pipe' \in {pipe, Heard}
      /\ req' = [req EXCEPT !.dropped = @ \cup {PutNumber}]
      /\ UNCHANGED <<ep, call, chip, phone, outVars, taken>>
  BY HeardOrNotPipe DEF PutGoesOn, transferVars
<1>2. /\ req \in ReqType /\ req.result = "none" /\ chip \in Pairs
      /\ pipe.toggle \in Toggles /\ PutNumber \in 1..DataPackets
      /\ PutNumber \in Nat /\ PutNumber >= 1 /\ PutNumber \notin req.dropped
      /\ req.dropped \subseteq 1..(PutNumber - 1)
  BY <1>1, Dispatched, Writes
<1> DEFINE more == [req EXCEPT !.dropped = @ \cup {PutNumber}]
<1>3. /\ more \in ReqType /\ more.kind = req.kind /\ more.n = req.n
      /\ more.result = req.result /\ more.dropped = req.dropped \cup {PutNumber}
  BY <1>2 DEF ReqType
<1>4. req' = more
  BY <1>1
<1> HIDE DEF more
<1>5. /\ pipe' \in PipeType /\ pipe'.kind = "put" /\ pipe'.heard \subseteq 1..PutNumber
      /\ \/ pipe' = pipe
         \/ /\ pipe.toggle = chip.snd /\ PutNumber \notin pipe.heard
            /\ pipe'.heard = pipe.heard \cup {PutNumber}
            /\ pipe'.toggle = Flip(pipe.toggle)
  BY <1>1, PutFate
<1>6. Cardinality(req'.dropped) = Cardinality(req.dropped) + 1
  BY <1>2, <1>3, <1>4, DroppedFinite
<1>7. /\ Cardinality(Missing(PutNumber)) + (IF PutInStep THEN 0 ELSE 1)
           <= Cardinality(req.dropped)
      /\ Cardinality(Missing(PutNumber)) \in Nat /\ Cardinality(req.dropped) \in Nat
      /\ PutNumber \in pipe.heard => chip.snd # pipe.toggle
  BY <1>1, Writes
<1>8. Cardinality(1..PutNumber \ pipe'.heard)
        + (IF chip'.snd = pipe'.toggle THEN 0 ELSE 1) <= Cardinality(req'.dropped)
  <2>1. CASE pipe' = pipe
    <3>1. Cardinality(1..PutNumber \ pipe'.heard) =
            Cardinality(Missing(PutNumber)) + (IF PutNumber \in pipe.heard THEN 0 ELSE 1)
      BY <1>2, <2>1, OneMore DEF Missing
    <3>2. chip'.snd = pipe'.toggle <=> chip.snd = pipe.toggle
      BY <1>1, <2>1
    <3>3. PutInStep <=> PutNumber \in pipe.heard \/ chip.snd = pipe.toggle
      BY DEF PutInStep
    <3> QED
      BY <1>6, <1>7, <3>1, <3>2, <3>3
  <2>2. CASE pipe'.heard = pipe.heard \cup {PutNumber}
    <3>1. 1..PutNumber = 1..(PutNumber - 1) \cup {PutNumber} /\ PutNumber \notin 1..(PutNumber - 1)
      BY <1>2
    <3>2. 1..PutNumber \ pipe'.heard = Missing(PutNumber)
      BY <2>2, <3>1 DEF Missing
    <3> QED
      BY <1>6, <1>7, <3>2
  <2> QED
    BY <1>5, <2>1, <2>2
<1>9. req'.dropped \subseteq 1..PutNumber
  BY <1>2, <1>3, <1>4
<1> QED
  BY <1>1, <1>2, <1>3, <1>4, <1>5, <1>8, <1>9, NextPutStep
-----------------------------------------------------------------------------
\* A round leaves the request as it is.
LEMMA BulkStep == CInv /\ Bulk(Next) => CInv'
<1> SUFFICES ASSUME CInv, Bulk(Next) PROVE CInv'
  OBVIOUS
<1>1. Configured /\ Next /\ UNCHANGED <<req, step, pipe>>
  BY DEF Bulk, ctlVars
<1>2. IInv'
  BY <1>1, TypeStep, ReadStep, SendStep DEF CInv, IInv
<1>3. step.fn = "none"
  BY <1>1 DEF CInv, InTurn, Configured
<1>4. InTurn' /\ Asked' /\ RequestCarriedOut'
  BY <1>1, <1>3 DEF CInv, InTurn, Configured, Asked, RequestCarriedOut
<1>5. ReadingOn' /\ WritingOn' /\ StatusLeft'
  BY <1>1, <1>3 DEF ReadingOn, WritingOn, StatusLeft
<1> QED
  BY <1>1, <1>2, <1>4, <1>5 DEF CInv

\* Nothing has been asked yet.
LEMMA InitControl == ControlInit => CInv
<1> SUFFICES ASSUME ControlInit PROVE CInv
  OBVIOUS
<1>1. /\ Init /\ req = Request("set", 0) /\ step = Idle
      /\ pipe = [Listening EXCEPT !.kind = "none"]
  BY DEF ControlInit
<1>2. IInv /\ call = Idle
  BY <1>1, InitInvariant DEF Init
<1>3. /\ req \in ReqType /\ req.kind = "set" /\ req.n = 0 /\ req.result = "none"
      /\ req.data = <<>> /\ req.dropped = {}
  BY <1>1, DataBounds DEF Request, ReqType, Kinds
<1>4. step \in Steps /\ step.fn = "none"
  BY <1>1, IdleStep
<1>5. pipe \in PipeType
  <2>1. Listening \in PipeType
    BY <1>3, ListeningType
  <2> QED
    BY <1>1, <2>1 DEF PipeType
<1>6. InTurn /\ Asked /\ RequestCarriedOut
  BY <1>1, <1>2, <1>3, <1>4 DEF InTurn, Asked, DataOf, RequestCarriedOut
<1>7. ReadingOn /\ WritingOn /\ StatusLeft
  BY <1>4 DEF ReadingOn, WritingOn, StatusLeft
<1> QED
  BY <1>2, <1>3, <1>4, <1>5, <1>6, <1>7 DEF CInv

\* The inductive invariant.
LEMMA ControlInvariance == ControlSpec => []CInv
<1>1. CInv /\ [ControlNext]_controlVars => CInv'
  <2> SUFFICES ASSUME CInv, [ControlNext]_controlVars PROVE CInv'
    OBVIOUS
  <2>1. CASE ctrlReq
    BY <2>1, RequestStep
  <2>2. CASE TimeIsOver
    BY <2>2, LateStep
  <2>3. CASE SetupAcked \/ StatusAcked \/ Receive \/ ReceiveError \/ PutAcked
    BY <2>3, SetupStep, StatusStep, ReceiveStep, ReceiveErrorStep, PutAckedStep
  <2>4. ASSUME NEW failure \in Failures, DispatchAgain(failure) \/ DispatchFails(failure)
        PROVE  CInv'
    BY <2>4, DispatchStep
  <2>5. ASSUME NEW failure \in Failures,
               PutAgain(failure) \/ PutFails(failure) \/ PutGoesOn(failure)
        PROVE  CInv'
    BY <2>5, PutAgainStep, PutFailsStep, PutGoesOnStep
  <2>6. CASE Bulk(Next)
    BY <2>6, BulkStep
  <2>7. CASE UNCHANGED controlVars
    <3>1. UNCHANGED <<transferVars, ep, call, chip, phone, outVars, taken, req, step, pipe>>
      BY <2>7 DEF controlVars, transferVars, ctlVars
    <3>2. IInv'
      BY <3>1, TypeStep, ReadStep, SendStep DEF CInv, IInv
    <3>3. InTurn' /\ Asked' /\ RequestCarriedOut'
      BY <3>1 DEF CInv, InTurn, Configured, Asked, RequestCarriedOut
    <3>4. ReadingOn' /\ WritingOn' /\ StatusLeft'
      BY <3>1 DEF CInv, ReadingOn, InOrder, WritingOn, Missing, PutInStep, PutNumber,
                  StatusLeft, DataDone
    <3> QED
      BY <3>1, <3>2, <3>3, <3>4 DEF CInv
  <2> QED
    BY <2>1, <2>2, <2>3, <2>4, <2>5, <2>6, <2>7 DEF ControlNext, ControlPacket
<1> QED
  BY <1>1, InitControl, PTL DEF ControlSpec

\* The retries, the packets and the data of a request keep within their limits, in
\* ctrlReq, inTransfer, outTransfer and dispatchPkt.
THEOREM ControlTypeCorrect == ControlSpec => []ControlTypeOK
<1>1. CInv => ControlTypeOK
  BY Types DEF CInv
<1> QED
  BY <1>1, ControlInvariance, PTL

\* When ctrlReq returns 0 the phone has this request: its data was read whole and
\* in order, or written but for as many packets as outTransfer dropped, whatever
\* toggles the chip was left with and whatever acknowledgements were lost.
THEOREM RequestCorrect == ControlSpec => []RequestCarriedOut
<1>1. CInv => RequestCarriedOut
  BY DEF CInv
<1> QED
  BY <1>1, ControlInvariance, PTL

\* After any requests the commands are read once each and the packets that are lost
\* were paid for, as they are by UsbTransfer alone.
THEOREM RoundsCorrect ==
  ControlSpec => [](TypeOK /\ CommandsReadOnce /\ LossesArePaidFor)
<1>1. CInv => TypeOK /\ CommandsReadOnce /\ LossesArePaidFor
  BY DEF CInv, IInv, TInv
<1> QED
  BY <1>1, ControlInvariance, PTL
=============================================================================
