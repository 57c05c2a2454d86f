---------------------------- MODULE SimAccessory ----------------------------
(***************************************************************************)
(* The accessory of the simulated table, lib/AndroidAccessory.cpp of the   *)
(* simulator, on libusb, with the USB bus of the computer it runs on and   *)
(* the phone that is plugged into it.                                      *)
(*                                                                         *)
(* The class is called by one thread; what moves beside it is the bus.  A  *)
(* call of libusb that asks the bus is a step, and the phone may come and  *)
(* go between two steps.  The operators that end in a call's name are what *)
(* that call does; Firmware says when they are called.                     *)
(*                                                                         *)
(* The bus, the phone and libusb are external.  Each time the phone comes  *)
(* on the bus it is a new device, with a number of its own: switched to    *)
(* accessory mode, it leaves and comes back as another one.  The rest of   *)
(* the bus stays: hubs, and "printers" of vendors that make phones too.    *)
(***************************************************************************)
EXTENDS SeqFolds, SequencesExt

CONSTANTS MaxPlugs,      \* bound: how often the phone is plugged
          Buses,         \* what else may be on the bus
          MaxCommands    \* bound: commands the phone sends

VARIABLES bus,        \* what libusb_get_device_list lists, in its order
          phone,      \* the phone, and its number on the bus
          acc,        \* the fields of AndroidAccessory
          open,       \* open[d]: the handles of d as an accessory not yet closed
          commands,   \* what the phone has sent and nobody has read
          received    \* what the phone has received

accVars == <<bus, phone, acc, open, commands, received>>
-----------------------------------------------------------------------------
Null    == 0
Devices == 1..(2 * MaxPlugs)

\* builtInVendorIds lists vendors: it knows the phone's, and those of devices
\* that are no phone.
KnownVendor == {"phone", "printer"}

\* What is on the bus beside the phone.
Others == {"hub", "printer"}

OnBus     == phone.mode \in {"plain", "accessory"}
Here(d)   == OnBus /\ phone.device = d

\* Handles are counted of a phone in accessory mode, more than two as two.  One
\* opened to switch a device is closed by switchDevice, or by nobody.
OneMore(n) == IF n = 2 THEN 2 ELSE n + 1

Init == /\ bus \in Buses
        /\ phone = [mode |-> "away", device |-> Null, plugs |-> 0, sent |-> 0]
        /\ acc = [usb_handle |-> Null, connected |-> FALSE, error |-> FALSE]
        /\ open = [d \in Devices |-> 0]
        /\ commands = <<>>
        /\ received = <<>>
-----------------------------------------------------------------------------
\* The phone is plugged, anywhere in the list.
PlugPhone == /\ phone.mode = "away" /\ phone.plugs < MaxPlugs
             /\ phone' = [phone EXCEPT !.mode = "plain", !.device = @ + 1, !.plugs = @ + 1]
             /\ \E i \in 1..(Len(bus) + 1) : bus' = InsertAt(bus, i, "phone")
             /\ UNCHANGED <<acc, open, commands, received>>

UnplugPhone == /\ phone.mode # "away"
               /\ phone' = [phone EXCEPT !.mode = "away"]
               /\ bus' = Only(bus, Others)
               /\ commands' = <<>>
               /\ UNCHANGED <<acc, open, received>>

\* The phone that has been told to switch is back, in accessory mode.
Reenumerate == /\ phone.mode = "switching"
               /\ phone' = [phone EXCEPT !.mode = "accessory", !.device = @ + 1]
               /\ \E i \in 1..(Len(bus) + 1) : bus' = InsertAt(bus, i, "phone")
               /\ UNCHANGED <<acc, open, commands, received>>

\* The application on the phone sends a command.
SendCommand(c) == /\ phone.mode = "accessory" /\ phone.sent < MaxCommands
                  /\ phone' = [phone EXCEPT !.sent = @ + 1]
                  /\ commands' = Append(commands, c)
                  /\ UNCHANGED <<bus, acc, open, received>>

BusMoves == \/ PlugPhone \/ UnplugPhone \/ Reenumerate
            \/ \E c \in {"scoreReq", "newGame"} : SendCommand(c)
-----------------------------------------------------------------------------
\* Mutant: the loop starts one device early.
DetectedButLast ==
  SelectLastInSubSeq(bus, 2, Len(bus) - 1, LAMBDA k : k \in KnownVendor)

\* detectKnownDevice opens the last device of a vendor it knows (what is on the
\* bus can be opened); the loop stops before the first of the list.
Detected == SelectLastInSubSeq(bus, 2, Len(bus), LAMBDA k : k \in KnownVendor)
Finds(kind) == Detected # 0 /\ bus[Detected] = kind

FindsNothing   == Detected = 0
FindsAccessory == Finds("phone") /\ phone.mode = "accessory"
FindsPlain     == Finds("phone") /\ phone.mode = "plain"

\* configureAndroid, from a device in accessory mode on: the results of the
\* calls that configure it are not looked at.
Configure == /\ FindsAccessory
             /\ acc' = [acc EXCEPT !.usb_handle = phone.device, !.connected = TRUE]
             /\ open' = [open EXCEPT ![phone.device] = OneMore(@)]
             /\ UNCHANGED <<bus, phone, commands, received>>

\* switchDevice of the phone d.  The phone obeys START, and leaves the bus.
\* One of the strings may have failed before.
SwitchObeyed(d) == /\ Here(d) /\ phone.mode = "plain"
                   /\ phone' = [phone EXCEPT !.mode = "switching"]
                   /\ bus' = Only(bus, Others)
                   /\ \E failed \in {acc.error, TRUE} : acc' = [acc EXCEPT !.error = failed]
                   /\ UNCHANGED <<open, commands, received>>

\* A transfer of switchDevice fails, or the device knows no protocol: the handle
\* is not closed.
SwitchFails == /\ \E failed \in {acc.error, TRUE} : acc' = [acc EXCEPT !.error = failed]
               /\ UNCHANGED <<bus, phone, open, commands, received>>

\* Mutant: the handle is not closed.
DisconnectKeepsOpen == /\ acc' = [usb_handle |-> Null, connected |-> FALSE, error |-> FALSE]
                       /\ UNCHANGED open

disconnect == /\ acc' = [usb_handle |-> Null, connected |-> FALSE, error |-> FALSE]
              /\ open' = IF acc.usb_handle = Null THEN open
                         ELSE [open EXCEPT ![acc.usb_handle] = @ - 1]

\* Mutant: only NO_DEVICE is looked at.
TransferIgnored == /\ ~Here(acc.usb_handle)
                   /\ \/ disconnect
                      \/ acc' = [acc EXCEPT !.error = FALSE] /\ UNCHANGED open
                   /\ UNCHANGED <<bus, phone, commands, received>>

\* A transfer to a device that is gone: LIBUSB_ERROR_NO_DEVICE disconnects, any
\* other error is kept for isConnected.
TransferToNobody == /\ ~Here(acc.usb_handle)
                    /\ \/ disconnect
                       \/ acc' = [acc EXCEPT !.error = TRUE] /\ UNCHANGED open
                    /\ UNCHANGED <<bus, phone, commands, received>>

\* write of a message the phone gets, although the transfer may time out.
WriteArrives(m) == /\ Here(acc.usb_handle)
                   /\ received' = Append(received, m)
                   /\ \E failed \in BOOLEAN : acc' = [acc EXCEPT !.error = failed]
                   /\ UNCHANGED <<bus, phone, open, commands>>

\* write of one it does not get.
WriteFails == /\ Here(acc.usb_handle)
              /\ acc' = [acc EXCEPT !.error = TRUE]
              /\ UNCHANGED <<bus, phone, open, commands, received>>

write(m) == WriteArrives(m) \/ WriteFails \/ TransferToNobody

\* read of a command; of nothing, in the millisecond it is given; or a failure.
\* Each replaces the error there was.
ReadCommand == /\ Here(acc.usb_handle) /\ commands # <<>>
               /\ commands' = Tail(commands)
               /\ acc' = [acc EXCEPT !.error = FALSE]
               /\ UNCHANGED <<bus, phone, open, received>>

ReadTimesOut == /\ Here(acc.usb_handle)
                /\ acc' = [acc EXCEPT !.error = FALSE]
                /\ UNCHANGED <<bus, phone, open, commands, received>>

ReadFails == /\ Here(acc.usb_handle)
             /\ acc' = [acc EXCEPT !.error = TRUE]
             /\ UNCHANGED <<bus, phone, open, commands, received>>
=============================================================================
