--------------------------- MODULE BoardAccessory ---------------------------
(***************************************************************************)
(* The accessory on the board (AndroidAccessory.cpp of libraries/) and the *)
(* loop of babyfoot.cpp that calls it: isConnected, the transfers of a     *)
(* round, and the second asleep after a goal.                              *)
(*                                                                         *)
(* connected is the class's own word for what the host and the phone are   *)
(* in: it is set when the accessory is configured, and reset only when     *)
(* isConnected finds the host waiting for a device.                        *)
(***************************************************************************)
EXTENDS UsbHost

VARIABLES board    \* where the firmware is, and AndroidAccessory::connected

boardVars == <<hostVars, board>>
-----------------------------------------------------------------------------
\* The firmware is about to call isConnected, in one of the transfers this
\* makes, in the loop of switchDevice, or in the block for a connected phone.
Places == {"isConnected", "getDevDescr", "configureAndroid", "switchDevice",
           "waitForDevice", "transfer"}

At(place)   == board.pc = place
Goto(place) == board' = [board EXCEPT !.pc = place]

powerOn == Init /\ board = [pc |-> "isConnected", connected |-> FALSE]

\* The line is polled without a pause in waitForDevice: it does not change twice
\* in one turn.
Environment == /\ LineMoves
               /\ At("waitForDevice") => ~chip.irq
               /\ UNCHANGED board
-----------------------------------------------------------------------------
\* Both call max.Task first.
ProbeLine == /\ At("isConnected") \/ At("waitForDevice")
             /\ Probe
             /\ UNCHANGED board

\* isConnected finds a device that has been addressed.
FindDevice == /\ At("isConnected") /\ ~board.connected
              /\ \E s \in Addressed \ {"RUNNING"} : Tasks(s)
              /\ Goto("getDevDescr")

\* Mutant: connected is left as it was.
NoticeNothing == /\ At("isConnected") /\ Tasks("WAIT_FOR_DEVICE")
                 /\ Goto(IF board.connected THEN "transfer" ELSE "isConnected")

\* It finds none, and forgets the one there was.
NoDevice == /\ At("isConnected") /\ Tasks("WAIT_FOR_DEVICE")
            /\ board' = [board EXCEPT !.connected = FALSE]

\* Any other state: what connected was is returned.
AsBefore == /\ At("isConnected")
            /\ \E s \in States : /\ Tasks(s)
                                 /\ s # "WAIT_FOR_DEVICE"
                                 /\ s \in Addressed \ {"RUNNING"} => board.connected
            /\ Goto(IF board.connected THEN "transfer" ELSE "isConnected")

\* The device descriptor tells an accessory from a phone to be switched.
Describe == /\ At("getDevDescr") /\ Answers(1)
            /\ Goto(IF phone.mode = "accessory" THEN "configureAndroid" ELSE "switchDevice")
            /\ UNCHANGED hostVars

NotDescribed == At("getDevDescr") /\ Goto("isConnected") /\ UNCHANGED hostVars

\* findEndpoints fails, or setConf after the endpoints are in the device table.
NotConfigured == /\ At("configureAndroid")
                 /\ \/ UNCHANGED host
                    \/ Answers(1) /\ host' = [host EXCEPT !.epinfo = "epRecord"]
                 /\ Goto("isConnected")
                 /\ UNCHANGED <<phone, line, chip, clean>>

configureAndroid == /\ At("configureAndroid") /\ Answers(1)
                    /\ host' = [state |-> "RUNNING", epinfo |-> "epRecord"]
                    /\ board' = [pc |-> "transfer", connected |-> TRUE]
                    /\ UNCHANGED <<phone, line, chip, clean>>

\* switchDevice: no protocol is read, or the strings and START are sent.  START's
\* result is not looked at, and a phone that did not get it stays.
NoProtocol == At("switchDevice") /\ Goto("isConnected") /\ UNCHANGED hostVars

switchDevice == /\ At("switchDevice")
                /\ Answers(1) /\ phone' = [phone EXCEPT !.mode = "switching"]
                /\ Goto("waitForDevice")
                /\ UNCHANGED <<line, chip, host, clean>>

StartNotHeard == At("switchDevice") /\ Goto("waitForDevice") /\ UNCHANGED hostVars

\* The loop that waits for the phone to leave.
StillWaits == /\ At("waitForDevice")
              /\ \E s \in States \ {"WAIT_FOR_DEVICE"} : Tasks(s)
              /\ UNCHANGED board

Left == At("waitForDevice") /\ Tasks("WAIT_FOR_DEVICE") /\ Goto("isConnected")

\* The transfers of a round change nothing the host looks at.
Transfer == At("transfer") /\ Goto("isConnected") /\ UNCHANGED hostVars
-----------------------------------------------------------------------------
isConnected == FindDevice \/ NoDevice \/ AsBefore

Round == \/ ProbeLine \/ isConnected
         \/ Describe \/ NotDescribed \/ NotConfigured \/ configureAndroid
         \/ NoProtocol \/ switchDevice \/ StartNotHeard \/ StillWaits \/ Left
         \/ Transfer

Next == Round \/ Environment

\* The firmware runs on; a phone that switches goes and comes back; the line is
\* not SE1 for ever; a phone that is asked again and again answers.
Fairness == /\ WF_boardVars(Round)
            /\ WF_boardVars(LeaveToSwitch /\ UNCHANGED board)
            /\ WF_boardVars(ComeBack /\ UNCHANGED board)
            /\ WF_boardVars(GlitchEnds /\ UNCHANGED board)
            /\ SF_boardVars(Describe)
            /\ SF_boardVars(configureAndroid)
            /\ SF_boardVars(switchDevice)

Spec == powerOn /\ [][Next]_boardVars /\ Fairness
-----------------------------------------------------------------------------
TypeOK ==
  /\ phone \in [here : BOOLEAN, mode : {"plain", "switching", "accessory"},
                address : {NoAddress, 0, 1}, plugs : 0..MaxPlugs, glitches : 0..MaxGlitches]
  /\ line \in Lines
  /\ chip \in [irq : BOOLEAN, probed : BOOLEAN, vbus : Lines]
  /\ host \in [state : States, epinfo : Tables]
  /\ clean \in BOOLEAN
  /\ board \in [pc : Places, connected : BOOLEAN]

\* The endpoint records a transfer reads are there: the table has some for a
\* device that answers at address 1, and the accessory's own, which alone have
\* the endpoints of read and write, for as long as isConnected says so.
EndpointsKnown == /\ Answers(1) => host.epinfo # "null"
                  /\ board.connected => host.epinfo = "epRecord"

\* Unless something went unseen, connected is told of the phone that is there:
\* in accessory mode, addressed, and configured.
ConnectedIsThePhone ==
  board.connected /\ clean /\ ~chip.irq =>
    Answers(1) /\ phone.mode = "accessory" /\ host.state = "RUNNING"

\* A phone that is pulled and stays away is noticed, whatever came and went
\* before, unless it is this change that the chip lost, or the line was last seen
\* in SE1, which the host leaves only for an attached phone.
Missed == ~chip.irq /\ chip.vbus # line
GoneIsNoticed == (board.connected /\ ~phone.here) ~>
                   \/ ~board.connected \/ phone.here
                   \/ Missed \/ host.state = "ILLEGAL"

\* A phone that stays is connected in the end, unless something went unseen or
\* failed while it was enumerated, or it did not hear START and switchDevice waits.
Stays   == phone.here \/ phone.mode = "switching"
Unheard == At("waitForDevice") /\ phone.mode # "switching"
PhoneIsServed == <>[](Stays /\ clean /\ ~Unheard) => <>[]board.connected
=============================================================================
