------------------------------ MODULE UsbHost ------------------------------
(***************************************************************************)
(* The USB host of the board: the MAX3421E that watches the line           *)
(* (Max3421e.cpp) and the state machine that enumerates a device           *)
(* (USB::Task, Usb.cpp), with the phone at the other end of the cable.     *)
(*                                                                         *)
(* Everything runs in the firmware's one loop: the chip latches that the   *)
(* line has changed, and what it is now is read when MAX3421E::Task is     *)
(* called, however long the firmware was busy or asleep.  A phone that     *)
(* went and came back in between is not seen.  The interrupt handler first *)
(* probes the line and then clears the latch: a change between the two is  *)
(* not seen either, and none may follow it.                                *)
(*                                                                         *)
(* Waits for time to pass (the settle delay, the reset, the first SOF) may *)
(* last any number of calls.  LSHOST and FSHOST are one state, "attached". *)
(***************************************************************************)
EXTENDS Integers

CONSTANTS MaxPlugs,     \* bound: how often the phone is plugged
          MaxGlitches   \* bound: how often the line is SE1 for a while

ASSUME HostBounds == MaxPlugs \in Nat \ {0} /\ MaxGlitches \in Nat

VARIABLES phone,   \* the phone: whether on the line, its mode, its USB address
          line,    \* the two data wires: SE0, attached or SE1
          chip,    \* CONDETIRQ, whether IntHandler has probed for it and not yet
                   \* cleared it, and vbusState: what the last probe read
          host,    \* usb_task_state, and devtable[1].epinfo
          clean    \* history: since the host was last initialized no change has
                   \* gone unseen, no SE1 been seen, and no transfer of it failed
                   \* or went unheard

hostVars == <<phone, line, chip, host, clean>>
-----------------------------------------------------------------------------
Lines    == {"SE0", "attached", "SE1"}
Detached == {"INITIALIZE", "WAIT_FOR_DEVICE", "ILLEGAL"}
States   == Detached \cup
            {"SETTLE", "RESET_DEVICE", "WAIT_RESET_COMPLETE", "WAIT_SOF",
             "GET_DEVICE_DESCRIPTOR_SIZE", "ADDRESSING", "CONFIGURING", "RUNNING", "ERROR"}

\* usb_task_state >= USB_STATE_CONFIGURING.
Addressed == {"CONFIGURING", "RUNNING", "ERROR"}

\* What devtable[1].epinfo points to.
Tables == {"null", "dev0ep", "epRecord"}

\* A phone answers at address 0 from the reset on, and at 1 once it is given it.
Answers(addr) == phone.here /\ phone.address = addr /\ line = "attached"
NoAddress == -1

\* MAX3421E::powerOn probes the line and then clears the latch: the phone may be
\* plugged by then, or be plugged or pulled in between.
Init == /\ \E here \in BOOLEAN :
             /\ phone = [here |-> here, mode |-> "plain", address |-> NoAddress,
                         plugs |-> IF here THEN 1 ELSE 0, glitches |-> 0]
             /\ line = IF here THEN "attached" ELSE "SE0"
        /\ \E probed \in {"SE0", "attached"} :
             /\ chip = [irq |-> FALSE, probed |-> FALSE, vbus |-> probed]
             /\ clean = (probed = line)
        /\ host = [state |-> "INITIALIZE", epinfo |-> "null"]
-----------------------------------------------------------------------------
\* The line changes: the chip latches that it did.  A change that comes before
\* the last one was probed hides it, and one after the probe will be cleared with it.
Hidden == chip.irq /\ (chip.probed \/ (line = "SE0" /\ chip.vbus # "SE0"))

LineBecomes(l) == /\ line' = l
                  /\ chip' = [chip EXCEPT !.irq = TRUE]
                  /\ clean' = (clean /\ ~Hidden)

Plug == /\ ~phone.here /\ line = "SE0" /\ phone.plugs < MaxPlugs
        /\ phone' = [phone EXCEPT !.here = TRUE, !.mode = "plain", !.address = NoAddress,
                                  !.plugs = @ + 1]
        /\ LineBecomes("attached")
        /\ UNCHANGED host

Unplug == /\ phone.here /\ phone.mode # "switching"
          /\ phone' = [phone EXCEPT !.here = FALSE]
          /\ IF line = "SE1" THEN UNCHANGED <<line, chip, clean>> ELSE LineBecomes("SE0")
          /\ UNCHANGED host

\* A phone that was told to start accessory mode leaves, and comes back.
LeaveToSwitch == /\ phone.here /\ phone.mode = "switching" /\ line = "attached"
                 /\ phone' = [phone EXCEPT !.here = FALSE]
                 /\ LineBecomes("SE0")
                 /\ UNCHANGED host

ComeBack == /\ ~phone.here /\ phone.mode = "switching" /\ line = "SE0"
            /\ phone' = [phone EXCEPT !.here = TRUE, !.mode = "accessory",
                                      !.address = NoAddress]
            /\ LineBecomes("attached")
            /\ UNCHANGED host

\* Both wires high, which USB calls illegal, for a while.
Glitch == /\ line # "SE1" /\ phone.glitches < MaxGlitches
          /\ phone' = [phone EXCEPT !.glitches = @ + 1]
          /\ LineBecomes("SE1")
          /\ UNCHANGED host

GlitchEnds == /\ line = "SE1"
              /\ LineBecomes(IF phone.here THEN "attached" ELSE "SE0")
              /\ UNCHANGED <<phone, host>>

LineMoves == Plug \/ Unplug \/ LeaveToSwitch \/ ComeBack \/ Glitch \/ GlitchEnds
-----------------------------------------------------------------------------
\* IntHandler: the line is probed if it has changed.
Probe == /\ chip.irq /\ ~chip.probed
         /\ chip' = [chip EXCEPT !.probed = TRUE, !.vbus = line]
         /\ UNCHANGED <<phone, line, host, clean>>

\* Mutant: a device that runs is not given up.
AfterVbusKeepsRunning(s, vbus) ==
  CASE vbus = "SE1"      -> "ILLEGAL"
    [] vbus = "SE0"      -> IF s \in Detached \cup {"RUNNING"} THEN s ELSE "INITIALIZE"
    [] vbus = "attached" -> IF s \in Detached THEN "SETTLE" ELSE s

\* The first switch of USB::Task: what the line does to the state.
AfterVbus(s, vbus) ==
  CASE vbus = "SE1"      -> "ILLEGAL"
    [] vbus = "SE0"      -> IF s \in Detached THEN s ELSE "INITIALIZE"
    [] vbus = "attached" -> IF s \in Detached THEN "SETTLE" ELSE s

\* The second: a state is served and left, or waited in.  Each case is the new
\* host and the phone's address.
To(h, s) == [h EXCEPT !.state = s]

\* Mutant: INITIALIZE does not clear the device table.
InitKeepsTable(h) == {<<To(h, "WAIT_FOR_DEVICE"), phone.address>>}

Initialize(h) ==
  {<<[state |-> "WAIT_FOR_DEVICE", epinfo |-> "null"], phone.address>>}

\* A control transfer may fail, and does when nobody answers.
Fails(h) == <<To(h, "ERROR"), phone.address>>

\* Mutant: the loop starts at the second entry.
GiveNextAddress(h) ==
  LET taken == [h EXCEPT !.epinfo = "dev0ep"]
  IN {Fails(taken)} \cup (IF Answers(0) THEN {<<To(taken, "CONFIGURING"), 2>>} ELSE {})

\* ADDRESSING takes the one entry of devtable, if it is free.  The phone may
\* have its address although the transfer failed; and if it did not hear the
\* status acknowledged it has none although the transfer went well.
GiveAddress(h) ==
  IF h.epinfo # "null" THEN {Fails(h)}
  ELSE LET taken == [h EXCEPT !.epinfo = "dev0ep"]
       IN {Fails(taken)} \cup
          (IF Answers(0)
             THEN {<<To(taken, s), 1>> : s \in {"CONFIGURING", "ERROR"}}
                  \cup {<<To(taken, "CONFIGURING"), phone.address>>}
             ELSE {})

Waits(h, next) == {<<h, phone.address>>, <<To(h, next), phone.address>>}

\* A reset makes the phone forget its address.
ResetAddress == IF phone.here THEN 0 ELSE phone.address

Served(h) ==
  CASE h.state = "INITIALIZE"          -> Initialize(h)
    [] h.state = "SETTLE"              -> Waits(h, "RESET_DEVICE")
    [] h.state = "RESET_DEVICE"        -> {<<To(h, "WAIT_RESET_COMPLETE"), ResetAddress>>}
    [] h.state = "WAIT_RESET_COMPLETE" -> Waits(h, "WAIT_SOF")
    [] h.state = "WAIT_SOF"            -> Waits(h, "GET_DEVICE_DESCRIPTOR_SIZE")
    [] h.state = "GET_DEVICE_DESCRIPTOR_SIZE" ->
         {Fails(h)} \cup
         (IF Answers(0) THEN {<<To(h, "ADDRESSING"), phone.address>>} ELSE {})
    [] h.state = "ADDRESSING"          -> GiveAddress(h)
    [] OTHER                           -> {<<h, phone.address>>}

NoVacancy == host.state = "ADDRESSING" /\ host.epinfo # "null"

\* The rest of max.Task, which clears the latch, and usb.Task: s is the state they
\* leave.
Tasks(s) == /\ chip.irq => chip.probed
            /\ chip' = [chip EXCEPT !.irq = FALSE, !.probed = FALSE]
            /\ \E served \in Served(To(host, AfterVbus(host.state, chip.vbus))) :
                 /\ host' = served[1]
                 /\ phone' = [phone EXCEPT !.address = served[2]]
            /\ host'.state = s
            /\ clean' = \/ s = "WAIT_FOR_DEVICE" /\ chip.vbus = line
                        \/ /\ clean /\ s # "ILLEGAL"
                           /\ s = "ERROR" => host.state = "ERROR" \/ NoVacancy
                           /\ s = "CONFIGURING" => phone'.address # 0
            /\ UNCHANGED line
=============================================================================
