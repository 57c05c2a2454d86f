------------------------ MODULE BoardAccessoryProofs ------------------------
(***************************************************************************)
(* Proofs about the accessory on the board: its types, that the endpoint   *)
(* records a transfer reads are there, and that connected is true of the   *)
(* phone that is there, for any number of plugs and glitches.              *)
(*                                                                         *)
(* The argument is about what the chip last read.  A device is enumerated  *)
(* only while that is "attached", and only an SE0 that was read makes the  *)
(* host forget it; a phone that has an address was on the line since it    *)
(* was reset, so no SE0 can have been read since.                          *)
(***************************************************************************)
EXTENDS BoardAccessory, TLAPS

\* A phone on the line pulls a wire up; without one none is.
WiresFit == /\ phone.here => line # "SE0"
            /\ ~phone.here => line # "attached"

\* The chip is between the probe and the clear only inside max.Task.
ProbesInTask == chip.probed => chip.irq /\ (At("isConnected") \/ At("waitForDevice"))

\* Unless a change was lost, what was read is what the line is.
SeenAsIs == clean /\ (chip.probed \/ ~chip.irq) => chip.vbus = line

\* A device is served only while the line was last read attached.
ServedAttached == ~chip.probed /\ host.state \notin Detached => chip.vbus = "attached"

\* No SE0 was read since the phone was reset.
AddressSinceReset == phone.here /\ phone.address # NoAddress => chip.vbus # "SE0"

TableForAddress == phone.here /\ phone.address = 1 => host.epinfo # "null"

AskedIsAddressed ==
  board.pc \in {"getDevDescr", "configureAndroid", "switchDevice"} => host.state \in Addressed

\* The phone that answers was described as an accessory.
SamePhone == At("configureAndroid") /\ phone.here /\ phone.address = 1
               => phone.mode = "accessory"

ConnectedWhere == board.connected =>
                    /\ host.epinfo = "epRecord"
                    /\ board.pc \in {"isConnected", "transfer"}

ConnectedWhom == board.connected /\ clean =>
                   /\ host.state = "RUNNING"
                   /\ phone.here => phone.address = 1 /\ phone.mode = "accessory"

BoardInv == /\ TypeOK /\ WiresFit /\ ProbesInTask /\ SeenAsIs /\ ServedAttached
            /\ AddressSinceReset /\ TableForAddress /\ AskedIsAddressed
            /\ SamePhone /\ ConnectedWhere /\ ConnectedWhom
-----------------------------------------------------------------------------
\* The parts of the invariant that say what the line, the chip and the phone have
\* in common: a step of the environment keeps them, wherever the firmware is.
LEMMA InitInv == powerOn => BoardInv
<1> SUFFICES ASSUME powerOn PROVE BoardInv
  OBVIOUS
<1>1. PICK here \in BOOLEAN : /\ phone = [here |-> here, mode |-> "plain",
                                          address |-> NoAddress,
                                          plugs |-> IF here THEN 1 ELSE 0, glitches |-> 0]
                              /\ line = IF here THEN "attached" ELSE "SE0"
  BY DEF powerOn, Init
<1>2. PICK probed \in {"SE0", "attached"} :
        /\ chip = [irq |-> FALSE, probed |-> FALSE, vbus |-> probed]
        /\ clean = (probed = line)
  BY DEF powerOn, Init
<1>3. /\ host = [state |-> "INITIALIZE", epinfo |-> "null"]
      /\ board = [pc |-> "isConnected", connected |-> FALSE]
  BY DEF powerOn, Init
<1>4. (IF here THEN 1 ELSE 0) \in 0..MaxPlugs /\ 0 \in 0..MaxGlitches
  BY HostBounds
<1>5. TypeOK
  <2>1. phone \in [here : BOOLEAN, mode : {"plain", "switching", "accessory"},
                   address : {NoAddress, 0, 1}, plugs : 0..MaxPlugs,
                   glitches : 0..MaxGlitches]
    BY <1>1, <1>4
  <2>2. clean \in BOOLEAN
    BY <1>2
  <2>3. line \in Lines /\ chip \in [irq : BOOLEAN, probed : BOOLEAN, vbus : Lines]
    BY <1>1, <1>2 DEF Lines
  <2>4. QED
    BY <2>1, <2>2, <2>3, <1>3 DEF TypeOK, States, Detached, Tables, Places
<1>6. clean => probed = line
  BY <1>2
<1>7. QED
  BY <1>1, <1>2, <1>3, <1>5, <1>6
  DEF BoardInv, WiresFit, ProbesInTask, SeenAsIs, ServedAttached,
      AddressSinceReset, TableForAddress, AskedIsAddressed, SamePhone, ConnectedWhere,
      ConnectedWhom, At, Detached, NoAddress

\* What a change of the line does to the chip and to the history.
LEMMA LineChange ==
  ASSUME BoardInv, NEW l \in Lines, LineBecomes(l)
  PROVE  /\ chip' \in [irq : BOOLEAN, probed : BOOLEAN, vbus : Lines]
         /\ clean' \in BOOLEAN /\ line' = l
         /\ chip'.irq /\ chip'.probed = chip.probed /\ chip'.vbus = chip.vbus
         /\ clean' => clean /\ ~Hidden
  BY DEF BoardInv, TypeOK, LineBecomes, Lines, Hidden

\* The environment's step keeps the invariant: a phone that comes to the line has
\* no address, and is hidden if the host still serves another.
LEMMA EnvironmentInv == BoardInv /\ Environment => BoardInv'
<1> SUFFICES ASSUME BoardInv, Environment PROVE BoardInv'
  OBVIOUS
<1> USE DEF At, NoAddress
<1>0. /\ board' = board /\ host' = host
      /\ phone \in [here : BOOLEAN, mode : {"plain", "switching", "accessory"},
                    address : {NoAddress, 0, 1}, plugs : 0..MaxPlugs,
                    glitches : 0..MaxGlitches]
  BY DEF Environment, LineMoves, Plug, Unplug, LeaveToSwitch, ComeBack, Glitch, GlitchEnds,
         BoardInv, TypeOK
<1>1. ASSUME NEW l \in Lines, LineBecomes(l),
             phone' \in [here : BOOLEAN, mode : {"plain", "switching", "accessory"},
                         address : {NoAddress, 0, 1}, plugs : 0..MaxPlugs,
                         glitches : 0..MaxGlitches],
             phone'.here => l # "SE0", ~phone'.here => l # "attached",
             \/ ~phone'.here
             \/ phone'.address = NoAddress /\ line = "SE0"
             \/ phone.here /\ phone'.address = phone.address /\ phone'.mode = phone.mode
      PROVE  BoardInv'
  <2>1. /\ chip' \in [irq : BOOLEAN, probed : BOOLEAN, vbus : Lines]
        /\ clean' \in BOOLEAN /\ line' = l
        /\ chip'.irq /\ chip'.probed = chip.probed /\ chip'.vbus = chip.vbus
        /\ clean' => clean /\ ~Hidden
    BY <1>1, LineChange
  <2>2. TypeOK' /\ WiresFit' /\ ProbesInTask'
    BY <1>0, <1>1, <2>1 DEF BoardInv, TypeOK, WiresFit, ProbesInTask
  <2>3. SeenAsIs' /\ ServedAttached' /\ AddressSinceReset'
    BY <1>0, <1>1, <2>1
    DEF BoardInv, TypeOK, SeenAsIs, ServedAttached, AddressSinceReset, Hidden, ProbesInTask
  <2>4. TableForAddress' /\ AskedIsAddressed' /\ SamePhone' /\ ConnectedWhere'
    BY <1>0, <1>1, <2>1
    DEF BoardInv, TypeOK, TableForAddress, AskedIsAddressed, SamePhone, ConnectedWhere
  <2>5. ConnectedWhom'
    BY <1>0, <1>1, <2>1
    DEF BoardInv, TypeOK, ConnectedWhom, SeenAsIs, ServedAttached, Hidden, ProbesInTask,
        Detached
  <2>6. QED
    BY <2>2, <2>3, <2>4, <2>5 DEF BoardInv
<1>2. CASE Plug
  <2>1. phone.plugs + 1 \in 0..MaxPlugs
    BY <1>0, <1>2, HostBounds DEF Plug
  <2>2. /\ phone' = [phone EXCEPT !.here = TRUE, !.mode = "plain", !.address = NoAddress,
                                  !.plugs = @ + 1]
        /\ LineBecomes("attached") /\ line = "SE0"
    BY <1>2 DEF Plug
  <2>3. /\ phone' \in [here : BOOLEAN, mode : {"plain", "switching", "accessory"},
                        address : {NoAddress, 0, 1}, plugs : 0..MaxPlugs,
                        glitches : 0..MaxGlitches]
        /\ phone'.here /\ phone'.address = NoAddress
    BY <1>0, <2>1, <2>2
  <2>4. QED
    BY <1>1, <2>2, <2>3 DEF Lines
<1>3. CASE Unplug /\ line # "SE1"
  BY <1>0, <1>1, <1>3 DEF Unplug, Lines
<1>4. CASE Unplug /\ line = "SE1"
  BY <1>0, <1>4
  DEF Unplug, BoardInv, TypeOK, WiresFit, ProbesInTask, SeenAsIs, ServedAttached,
      AddressSinceReset, TableForAddress, AskedIsAddressed, SamePhone, ConnectedWhere,
      ConnectedWhom
<1>5. CASE LeaveToSwitch
  BY <1>0, <1>1, <1>5 DEF LeaveToSwitch, Lines
<1>6. CASE ComeBack
  BY <1>0, <1>1, <1>6 DEF ComeBack, Lines
<1>7. CASE Glitch
  <2>1. phone.glitches + 1 \in 0..MaxGlitches
    BY <1>0, <1>7, HostBounds DEF Glitch
  <2>2. phone' = [phone EXCEPT !.glitches = @ + 1] /\ LineBecomes("SE1")
    BY <1>7 DEF Glitch
  <2>3. /\ phone' \in [here : BOOLEAN, mode : {"plain", "switching", "accessory"},
                        address : {NoAddress, 0, 1}, plugs : 0..MaxPlugs,
                        glitches : 0..MaxGlitches]
        /\ phone'.here = phone.here /\ phone'.address = phone.address
        /\ phone'.mode = phone.mode
    BY <1>0, <2>1, <2>2
  <2>4. QED
    BY <1>1, <2>2, <2>3 DEF Lines
<1>8. CASE GlitchEnds
  BY <1>0, <1>1, <1>8 DEF GlitchEnds, Lines
<1>9. QED
  BY <1>2, <1>3, <1>4, <1>5, <1>6, <1>7, <1>8 DEF Environment, LineMoves
-----------------------------------------------------------------------------
\* What serving a state can do: only INITIALIZE frees the table, and leads to
\* WAIT_FOR_DEVICE, only a reset gives the address 0, and only a phone at 0 gets 1,
\* with the table taken.
LEMMA ServedStep ==
  ASSUME TypeOK, NEW s \in States,
         NEW served \in Served(To(host, s))
  PROVE  /\ served[1] \in [state : States, epinfo : Tables]
         /\ served[2] \in {NoAddress, 0, 1}
         /\ \/ s = "INITIALIZE" /\ served[1].epinfo = "null"
               /\ served[1].state = "WAIT_FOR_DEVICE"
            \/ /\ s # "INITIALIZE" /\ served[1].state # "INITIALIZE"
               /\ served[1].epinfo = host.epinfo \/ host.epinfo = "null"
               /\ (served[1].state \in Detached) = (s \in Detached)
               /\ s \in Detached \cup {"RUNNING"} => served[1].state = s
         /\ \/ served[2] = phone.address
            \/ served[2] = 0 /\ s = "RESET_DEVICE"
            \/ served[2] = 1 /\ phone.address = 0 /\ served[1].epinfo # "null"
         /\ s \in Detached \cup Addressed => served[2] = phone.address
<1> DEFINE h == To(host, s)
<1> DEFINE HostAt(x) == [state |-> x, epinfo |-> host.epinfo]
<1>1. /\ host.epinfo \in Tables
      /\ h = HostAt(s) /\ served \in Served(h)
      /\ \A x : To(HostAt(s), x) = HostAt(x)
  BY DEF TypeOK, To
<1>2. phone.address \in {NoAddress, 0, 1}
  BY DEF TypeOK
<1> HIDE DEF h
<1>3. CASE s = "INITIALIZE"
  BY <1>1, <1>2, <1>3 DEF Served, Initialize, States, Detached, Tables
<1>4. CASE s \in {"SETTLE", "WAIT_RESET_COMPLETE", "WAIT_SOF"}
  <2>1. PICK x \in States \ Detached : Served(h) = {<<HostAt(s), phone.address>>, <<HostAt(x), phone.address>>}
    BY <1>1, <1>4 DEF Served, Waits, States, Detached
  <2>2. QED
    BY <1>1, <1>2, <1>4, <2>1 DEF States, Detached, Addressed
<1>5. CASE s = "RESET_DEVICE"
  <2>1. Served(h) = {<<HostAt("WAIT_RESET_COMPLETE"), ResetAddress>>}
    BY <1>1, <1>5 DEF Served
  <2>2. QED
    BY <1>1, <1>2, <1>5, <2>1 DEF ResetAddress, States, Detached, Addressed
<1>6. CASE s = "GET_DEVICE_DESCRIPTOR_SIZE"
  <2>1. Served(h) \subseteq {<<HostAt("ERROR"), phone.address>>, <<HostAt("ADDRESSING"), phone.address>>}
    BY <1>1, <1>6 DEF Served, Fails
  <2>2. QED
    BY <1>1, <1>2, <1>6, <2>1 DEF States, Detached, Addressed
<1>7. CASE s = "ADDRESSING"
  <2> DEFINE taken == [state |-> s, epinfo |-> "dev0ep"]
             Taken(x) == [state |-> x, epinfo |-> "dev0ep"]
  <2>1. Served(h) = GiveAddress(h)
    BY <1>1, <1>7 DEF Served
  <2>2. CASE host.epinfo # "null"
    <3>1. Served(h) = {<<HostAt("ERROR"), phone.address>>}
      BY <1>1, <1>7, <2>1, <2>2 DEF GiveAddress, Fails
    <3>2. QED
      BY <1>1, <1>2, <1>7, <3>1 DEF States, Detached, Addressed
  <2>3. CASE host.epinfo = "null"
    <3>1. [h EXCEPT !.epinfo = "dev0ep"] = taken /\ \A x : To(taken, x) = Taken(x)
      BY <1>1 DEF To
    <3>2. Served(h) = {Fails(taken)} \cup
                      (IF Answers(0)
                         THEN {<<To(taken, x), 1>> : x \in {"CONFIGURING", "ERROR"}}
                              \cup {<<To(taken, "CONFIGURING"), phone.address>>}
                         ELSE {})
      BY <1>1, <2>1, <2>3, <3>1 DEF GiveAddress
    <3>3. /\ served[1] \in {Taken("ERROR"), Taken("CONFIGURING")}
          /\ served[2] = phone.address \/ (served[2] = 1 /\ phone.address = 0)
      <4>1. CASE served = Fails(taken)
        BY <3>1, <4>1 DEF Fails
      <4>2. CASE Answers(0) /\ \E x \in {"CONFIGURING", "ERROR"} : served = <<To(taken, x), 1>>
        BY <3>1, <4>2 DEF Answers
      <4>3. CASE served = <<To(taken, "CONFIGURING"), phone.address>>
        BY <3>1, <4>3
      <4>4. QED
        BY <1>1, <3>2, <4>1, <4>2, <4>3
    <3>4. QED
      BY <1>1, <1>2, <1>7, <2>3, <3>3 DEF States, Detached, Addressed, Tables
  <2>4. QED
    BY <2>2, <2>3
<1>8. CASE s \in {"WAIT_FOR_DEVICE", "ILLEGAL", "CONFIGURING", "RUNNING", "ERROR"}
  BY <1>1, <1>2, <1>8 DEF Served, States, Detached, Addressed
<1>9. QED
  BY <1>3, <1>4, <1>5, <1>6, <1>7, <1>8 DEF States, Detached

\* What the two tasks do to the host, the phone and the history when the state they
\* leave is s.
LEMMA TasksStep ==
  ASSUME BoardInv, NEW s \in States, Tasks(s)
  PROVE  /\ phone' = [phone EXCEPT !.address = phone'.address]
         /\ phone'.address \in {NoAddress, 0, 1}
         /\ line' = line /\ ~chip'.irq /\ ~chip'.probed /\ chip'.vbus = chip.vbus
         /\ chip' \in [irq : BOOLEAN, probed : BOOLEAN, vbus : Lines]
         /\ host' \in [state : States, epinfo : Tables] /\ host'.state = s
         /\ clean' \in BOOLEAN
         /\ clean' => chip.vbus = line
         /\ WiresFit' /\ SeenAsIs' /\ ServedAttached' /\ AddressSinceReset'
         /\ TableForAddress'
         /\ s # "WAIT_FOR_DEVICE" =>
              /\ host.epinfo = "epRecord" => host'.epinfo = "epRecord"
              /\ clean' => /\ clean
                           /\ host.state = "RUNNING" => s = "RUNNING" /\ phone' = phone
<1> USE DEF NoAddress
<1> DEFINE t == AfterVbus(host.state, chip.vbus)
<1>0. /\ TypeOK /\ WiresFit /\ SeenAsIs /\ AddressSinceReset /\ TableForAddress
      /\ chip.irq => chip.probed
  BY DEF BoardInv, Tasks
<1>1. t \in States
  BY <1>0 DEF AfterVbus, TypeOK, Lines, States, Detached
<1>2. PICK served \in Served(To(host, t)) :
        host' = served[1] /\ phone' = [phone EXCEPT !.address = served[2]]
  BY DEF Tasks
<1>3. /\ served[1] \in [state : States, epinfo : Tables]
      /\ served[2] \in {NoAddress, 0, 1}
      /\ \/ t = "INITIALIZE" /\ served[1].epinfo = "null"
            /\ served[1].state = "WAIT_FOR_DEVICE"
         \/ /\ t # "INITIALIZE" /\ served[1].state # "INITIALIZE"
            /\ served[1].epinfo = host.epinfo \/ host.epinfo = "null"
            /\ (served[1].state \in Detached) = (t \in Detached)
            /\ t \in Detached \cup {"RUNNING"} => served[1].state = t
      /\ \/ served[2] = phone.address
         \/ served[2] = 0 /\ t = "RESET_DEVICE"
         \/ served[2] = 1 /\ phone.address = 0 /\ served[1].epinfo # "null"
      /\ t \in Detached \cup Addressed => served[2] = phone.address
  BY <1>0, <1>1, ServedStep
<1> HIDE DEF t
<1>4. /\ phone' = [phone EXCEPT !.address = phone'.address]
      /\ phone'.address = served[2]
  BY <1>0, <1>2 DEF TypeOK
<1>5. /\ line' = line /\ ~chip'.irq /\ ~chip'.probed /\ chip'.vbus = chip.vbus
      /\ chip' \in [irq : BOOLEAN, probed : BOOLEAN, vbus : Lines]
      /\ host'.state = s
  BY <1>0 DEF Tasks, TypeOK
<1>6. clean' => \/ s = "WAIT_FOR_DEVICE" /\ chip.vbus = line
                \/ clean /\ s # "ILLEGAL"
  BY DEF Tasks
<1>6a. clean' \in BOOLEAN
  BY <1>0 DEF Tasks, TypeOK
<1>7. clean' => chip.vbus = line
  BY <1>0, <1>6 DEF SeenAsIs, TypeOK
<1>8. /\ chip.vbus = "SE1" => t = "ILLEGAL"
      /\ chip.vbus = "SE0" => t \in Detached
      /\ chip.vbus = "SE0" /\ host.state \notin Detached => t = "INITIALIZE"
      /\ chip.vbus = "attached" => t \notin Detached
      /\ chip.vbus = "attached" /\ host.state = "RUNNING" => t = "RUNNING"
      /\ chip.vbus \in Lines
  BY <1>0 DEF t, AfterVbus, Detached, TypeOK, Lines
<1>9. WiresFit' /\ SeenAsIs'
  BY <1>0, <1>4, <1>5, <1>7 DEF WiresFit, SeenAsIs, TypeOK
<1>10. ServedAttached'
  BY <1>2, <1>3, <1>5, <1>8 DEF ServedAttached, Detached, Lines
<1>11. AddressSinceReset'
  BY <1>0, <1>3, <1>4, <1>5, <1>8 DEF AddressSinceReset, TypeOK, Detached
<1>12. TableForAddress'
  <2>1. phone'.here = phone.here /\ phone.address \in {NoAddress, 0, 1}
    BY <1>0, <1>4 DEF TypeOK
  <2>2. CASE t = "INITIALIZE"
    <3>1. chip.vbus = "SE0"
      BY <1>8, <2>2 DEF Lines, Detached
    <3>2. phone'.address = phone.address
      BY <1>3, <1>4, <2>2 DEF Detached
    <3>3. QED
      BY <1>0, <2>1, <3>1, <3>2 DEF AddressSinceReset, TableForAddress
  <2>3. CASE t # "INITIALIZE"
    <3>1. host.epinfo # "null" => host'.epinfo # "null"
      BY <1>2, <1>3, <2>3
    <3>2. \/ phone'.address = phone.address \/ phone'.address = 0
          \/ host'.epinfo # "null"
      BY <1>2, <1>3, <1>4
    <3>3. QED
      BY <1>0, <2>1, <3>1, <3>2 DEF TableForAddress
  <2>4. QED
    BY <2>2, <2>3
<1>13. ASSUME s # "WAIT_FOR_DEVICE"
       PROVE  /\ host.epinfo = "epRecord" => host'.epinfo = "epRecord"
              /\ clean' => /\ clean
                           /\ host.state = "RUNNING" => s = "RUNNING" /\ phone' = phone
  <2>1. host.epinfo = "epRecord" => host'.epinfo = "epRecord"
    BY <1>2, <1>3, <1>5, <1>13
  <2>2. clean' => clean /\ s # "ILLEGAL"
    BY <1>6, <1>13
  <2>3. ASSUME clean', host.state = "RUNNING"
        PROVE  t = "RUNNING"
    BY <1>2, <1>3, <1>5, <1>8, <1>13, <2>2, <2>3 DEF Detached, Lines
  <2>4. t = "RUNNING" => s = "RUNNING" /\ phone' = phone
    BY <1>0, <1>2, <1>3, <1>5 DEF TypeOK, Addressed
  <2>5. QED
    BY <2>1, <2>2, <2>3, <2>4
<1>14. QED
  BY <1>2, <1>3, <1>4, <1>5, <1>6a, <1>7, <1>9, <1>10, <1>11, <1>12, <1>13

\* A step of the firmware in which the two tasks run.
LEMMA TaskRoundInv ==
  ASSUME BoardInv, NEW s \in States, Tasks(s), board' \in [pc : Places, connected : BOOLEAN],
         board'.connected => /\ board.connected /\ s # "WAIT_FOR_DEVICE"
                             /\ board'.pc \in {"isConnected", "transfer"},
         board'.pc \in {"isConnected", "transfer", "waitForDevice"} \/
           (board'.pc = "getDevDescr" /\ s \in Addressed)
  PROVE  BoardInv'
<1>1. /\ phone' = [phone EXCEPT !.address = phone'.address]
      /\ phone'.address \in {NoAddress, 0, 1}
      /\ line' = line /\ ~chip'.irq /\ ~chip'.probed /\ chip'.vbus = chip.vbus
      /\ chip' \in [irq : BOOLEAN, probed : BOOLEAN, vbus : Lines]
      /\ host' \in [state : States, epinfo : Tables] /\ host'.state = s
      /\ clean' \in BOOLEAN
      /\ WiresFit' /\ SeenAsIs' /\ ServedAttached' /\ AddressSinceReset'
      /\ TableForAddress'
      /\ s # "WAIT_FOR_DEVICE" =>
           /\ host.epinfo = "epRecord" => host'.epinfo = "epRecord"
           /\ clean' => /\ clean
                        /\ host.state = "RUNNING" => s = "RUNNING" /\ phone' = phone
  BY TasksStep
<1>2. TypeOK'
  <2>1. phone' \in [here : BOOLEAN, mode : {"plain", "switching", "accessory"},
                    address : {NoAddress, 0, 1}, plugs : 0..MaxPlugs,
                    glitches : 0..MaxGlitches]
    BY <1>1 DEF BoardInv, TypeOK
  <2>2. QED
    BY <1>1, <2>1 DEF BoardInv, TypeOK
<1>3. ProbesInTask' /\ AskedIsAddressed' /\ SamePhone'
  BY <1>1 DEF ProbesInTask, AskedIsAddressed, SamePhone, At
<1>4. ConnectedWhere' /\ ConnectedWhom'
  BY <1>1 DEF BoardInv, ConnectedWhere, ConnectedWhom
<1>5. QED
  BY <1>1, <1>2, <1>3, <1>4 DEF BoardInv

\* A step of the firmware keeps the invariant.
LEMMA RoundInv == BoardInv /\ Round => BoardInv'
<1> SUFFICES ASSUME BoardInv, Round PROVE BoardInv'
  OBVIOUS
<1> USE DEF At
<1>0. /\ board \in [pc : Places, connected : BOOLEAN] /\ host \in [state : States, epinfo : Tables]
      /\ ConnectedWhere
  BY DEF BoardInv, TypeOK
<1>1. CASE ProbeLine
  <2>1. /\ chip' = [chip EXCEPT !.probed = TRUE, !.vbus = line] /\ chip.irq /\ ~chip.probed
        /\ UNCHANGED <<phone, line, host, clean, board>>
        /\ board.pc \in {"isConnected", "waitForDevice"}
    BY <1>1 DEF ProbeLine, Probe
  <2>2. /\ chip' \in [irq : BOOLEAN, probed : BOOLEAN, vbus : Lines]
        /\ chip'.irq /\ chip'.probed /\ chip'.vbus = line
    BY <2>1 DEF BoardInv, TypeOK
  <2>3. TypeOK'
    BY <2>1, <2>2 DEF BoardInv, TypeOK
  <2>4. QED
    BY <2>1, <2>2, <2>3
    DEF BoardInv, WiresFit, ProbesInTask, SeenAsIs, ServedAttached, AddressSinceReset,
        TableForAddress, AskedIsAddressed, SamePhone, ConnectedWhere, ConnectedWhom
<1>2. CASE FindDevice
  <2>1. PICK s \in Addressed \ {"RUNNING"} : Tasks(s)
    BY <1>2 DEF FindDevice
  <2>2. board' = [board EXCEPT !.pc = "getDevDescr"] /\ ~board.connected
    BY <1>2 DEF FindDevice, Goto
  <2>3. s \in States
    BY <2>1 DEF Addressed, States
  <2>4. QED
    BY <1>0, <2>1, <2>2, <2>3, TaskRoundInv DEF Places
<1>3. CASE NoDevice
  <2>1. /\ Tasks("WAIT_FOR_DEVICE") /\ board' = [board EXCEPT !.connected = FALSE]
        /\ board.pc = "isConnected"
    BY <1>3 DEF NoDevice
  <2>2. QED
    BY <1>0, <2>1, TaskRoundInv DEF States, Detached
<1>4. CASE AsBefore
  <2>1. PICK s \in States : Tasks(s) /\ s # "WAIT_FOR_DEVICE"
    BY <1>4 DEF AsBefore
  <2>2. board' = [board EXCEPT !.pc = IF board.connected THEN "transfer" ELSE "isConnected"]
    BY <1>4 DEF AsBefore, Goto
  <2>3. QED
    BY <1>0, <2>1, <2>2, TaskRoundInv DEF Places
<1>5. CASE StillWaits
  <2>1. PICK s \in States \ {"WAIT_FOR_DEVICE"} : Tasks(s)
    BY <1>5 DEF StillWaits
  <2>2. board' = board /\ board.pc = "waitForDevice"
    BY <1>5 DEF StillWaits
  <2>3. QED
    BY <1>0, <2>1, <2>2, TaskRoundInv DEF ConnectedWhere
<1>6. CASE Left
  <2>1. Tasks("WAIT_FOR_DEVICE") /\ board.pc = "waitForDevice"
    BY <1>6 DEF Left
  <2>2. board' = [board EXCEPT !.pc = "isConnected"]
    BY <1>6 DEF Left, Goto
  <2>3. QED
    BY <1>0, <2>1, <2>2, TaskRoundInv DEF Places, States, Detached, ConnectedWhere
<1>7. CASE Describe \/ NotDescribed \/ NoProtocol \/ StartNotHeard \/ Transfer
  <2>1. UNCHANGED hostVars
    BY <1>7 DEF Describe, NotDescribed, NoProtocol, StartNotHeard, Transfer
  <2>2. PICK place \in Places :
          /\ board' = [board EXCEPT !.pc = place]
          /\ \/ place = "configureAndroid" /\ phone.mode = "accessory"
                /\ board.pc = "getDevDescr"
             \/ place = "switchDevice" /\ board.pc = "getDevDescr"
             \/ place = "waitForDevice" /\ board.pc = "switchDevice"
             \/ place = "isConnected"
                /\ board.pc \in {"getDevDescr", "switchDevice", "transfer"}
    BY <1>7 DEF Describe, NotDescribed, NoProtocol, StartNotHeard, Transfer, Goto, Places
  <2>3. board' \in [pc : Places, connected : BOOLEAN] /\ board'.pc = place
        /\ board'.connected = board.connected
    BY <1>0, <2>2
  <2>4. TypeOK'
    BY <2>1, <2>3 DEF BoardInv, TypeOK, hostVars
  <2>5. QED
    BY <2>1, <2>2, <2>3, <2>4
    DEF BoardInv, hostVars, WiresFit, ProbesInTask, SeenAsIs, ServedAttached, AddressSinceReset,
        TableForAddress, AskedIsAddressed, SamePhone, ConnectedWhere, ConnectedWhom
<1>8. CASE NotConfigured
  <2>1. /\ UNCHANGED <<phone, line, chip, clean>> /\ board.pc = "configureAndroid"
        /\ board' = [board EXCEPT !.pc = "isConnected"]
        /\ host' = host \/ host' = [host EXCEPT !.epinfo = "epRecord"]
    BY <1>8 DEF NotConfigured, Goto
  <2>2. /\ board' \in [pc : Places, connected : BOOLEAN] /\ board'.pc = "isConnected"
        /\ board'.connected = board.connected /\ ~board.connected
        /\ host' \in [state : States, epinfo : Tables] /\ host'.state = host.state
        /\ host'.epinfo = host.epinfo \/ host'.epinfo = "epRecord"
    BY <1>0, <2>1 DEF Places, Tables, ConnectedWhere
  <2>3. TypeOK'
    BY <2>1, <2>2 DEF BoardInv, TypeOK
  <2>4. QED
    BY <2>1, <2>2, <2>3
    DEF BoardInv, WiresFit, ProbesInTask, SeenAsIs, ServedAttached, AddressSinceReset,
        TableForAddress, AskedIsAddressed, SamePhone, ConnectedWhere, ConnectedWhom
<1>9. CASE configureAndroid
  <2>1. /\ UNCHANGED <<phone, line, chip, clean>> /\ board.pc = "configureAndroid"
        /\ board' = [pc |-> "transfer", connected |-> TRUE]
        /\ host' = [state |-> "RUNNING", epinfo |-> "epRecord"]
        /\ phone.here /\ phone.address = 1
    BY <1>9 DEF configureAndroid, Answers
  <2>2. TypeOK'
    BY <2>1 DEF BoardInv, TypeOK, Places, Tables, States
  <2>3. ServedAttached'
    BY <2>1 DEF BoardInv, ServedAttached, AskedIsAddressed, Addressed, Detached
  <2>4. ConnectedWhom'
    BY <2>1 DEF BoardInv, ConnectedWhom, SamePhone
  <2>5. QED
    BY <2>1, <2>2, <2>3, <2>4
    DEF BoardInv, WiresFit, ProbesInTask, SeenAsIs, AddressSinceReset,
        TableForAddress, AskedIsAddressed, SamePhone, ConnectedWhere
<1>10. CASE switchDevice
  <2>1. /\ UNCHANGED <<line, chip, host, clean>> /\ board.pc = "switchDevice"
        /\ phone' = [phone EXCEPT !.mode = "switching"]
        /\ board' = [board EXCEPT !.pc = "waitForDevice"]
    BY <1>10 DEF switchDevice, Goto
  <2>2. /\ board' \in [pc : Places, connected : BOOLEAN] /\ board'.pc = "waitForDevice"
        /\ board'.connected = board.connected /\ ~board.connected
    BY <1>0, <2>1 DEF Places, ConnectedWhere
  <2>3. /\ TypeOK' /\ phone'.here = phone.here /\ phone'.address = phone.address
    BY <2>1, <2>2 DEF BoardInv, TypeOK
  <2>4. QED
    BY <2>1, <2>2, <2>3
    DEF BoardInv, WiresFit, ProbesInTask, SeenAsIs, ServedAttached, AddressSinceReset,
        TableForAddress, AskedIsAddressed, SamePhone, ConnectedWhere, ConnectedWhom
<1>11. QED
  BY <1>1, <1>2, <1>3, <1>4, <1>5, <1>6, <1>7, <1>8, <1>9, <1>10
  DEF Round, isConnected
-----------------------------------------------------------------------------
LEMMA StepInv == BoardInv /\ [Next]_boardVars => BoardInv'
<1>1. BoardInv /\ UNCHANGED boardVars => BoardInv'
  BY DEF boardVars, hostVars, BoardInv, TypeOK, WiresFit, ProbesInTask, SeenAsIs,
         ServedAttached, AddressSinceReset, TableForAddress, AskedIsAddressed, SamePhone,
         ConnectedWhere, ConnectedWhom, At
<1>2. QED
  BY <1>1, EnvironmentInv, RoundInv DEF Next

LEMMA InvHolds == Spec => []BoardInv
  BY InitInv, StepInv, PTL DEF Spec

\* The types of the host, the chip, the phone and the firmware.
THEOREM BoardTypeCorrect == Spec => []TypeOK
<1>1. BoardInv => TypeOK
  BY DEF BoardInv
<1>2. QED
  BY <1>1, InvHolds, PTL

\* The endpoint records that a transfer reads are in the device table, for any
\* number of plugs and glitches.
THEOREM EndpointsCorrect == Spec => []EndpointsKnown
<1>1. BoardInv => EndpointsKnown
  BY DEF BoardInv, EndpointsKnown, TableForAddress, ConnectedWhere, Answers
<1>2. QED
  BY <1>1, InvHolds, PTL

\* Unless a change of the line went unseen, connected is true only of a phone that
\* is there, in accessory mode and configured.
THEOREM ConnectedCorrect == Spec => []ConnectedIsThePhone
<1>1. ASSUME BoardInv, board.connected, clean, ~chip.irq
      PROVE  Answers(1) /\ phone.mode = "accessory" /\ host.state = "RUNNING"
  <2>1. host.state = "RUNNING" /\ (phone.here => phone.address = 1 /\ phone.mode = "accessory")
    BY <1>1 DEF BoardInv, ConnectedWhom
  <2>2. chip.vbus = "attached" /\ line = "attached"
    BY <1>1, <2>1 DEF BoardInv, ProbesInTask, ServedAttached, SeenAsIs, Detached
  <2>3. QED
    BY <1>1, <2>1, <2>2 DEF BoardInv, TypeOK, WiresFit, Answers
<1>2. BoardInv => ConnectedIsThePhone
  BY <1>1 DEF ConnectedIsThePhone
<1>3. QED
  BY <1>2, InvHolds, PTL
=============================================================================
