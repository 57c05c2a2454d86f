# Babyfoot: a verification project

Babyfoot is a table football with goal sensors. A program on the table (an
Arduino board with a USB host shield, or a simulator of it on a PC) sees the
balls fall and tells an Android phone plugged into it, as a USB accessory host;
the phone's application keeps the score, the special goals and the end of the
game. This directory holds TLA+ models of that system, the TLC configurations
that check them on small instances, and TLAPS proofs about each component that is modelled.

`src/` stands for the root of the repository, `app/` below for
`src/android/src/net/bonrry/babyfoot/`, `usb/` for
`src/arduino/libraries/USB_Host_Shield/`. The repository has no tests.

## 1. Inventory of the system

| Component | State it keeps | Operations | Talks to |
|---|---|---|---|
| Scoring screen, `app/ScoreActivity.java`, `BabyEvent*.java` | `scoreBlue`, `scoreRed`, `goalFactor`, `gameStatus`, `babyEvents`, the posted `runnableEndMessage`, which buttons are enabled | goals, gamelles, the special goals (lob, demi, trimi, ...), undo, new game, end message, lifecycle callbacks | goals from the service through its own Handler; list view of the history |
| USB service, `app/adk/UsbService.java`, `BabyfootService.java`, `AccesoryReadThread.java` | `accessory`, descriptor, streams, read thread, list of listeners, started/bound | `onStartCommand`, `onBind`, `onRebind`, `onUnbind`, `onDestroy`, the DETACHED receiver, the Handler, the read loop | Android, the kernel's accessory file, listeners |
| Clients, `app/adk/UsbActivity.java`, `ScoreActivity`, `DisconnectedActivity`, the attached-workaround activity | `mBound`, the binder, the task's stack of activities | `onStart`/`onStop`, `onServiceConnected`, `accessoryConnected`/`Disconnected` | the service, Android's activity stack |
| Messages, `app/adk/InMessage.java` | a buffer used again for each message | parse | read thread |
| History list, `app/HorizontalListView.java` | scroll position, visible children, recycled views | layout, fling, data set changed | scoring screen |
| Firmware, `src/arduino/babyfoot/babyfoot.{cpp,h}` | `score_red`, `score_blue`, the message buffer | `setup`, `loop`, sensors, answers | an `AndroidAccessory` |
| Simulated accessory, `src/arduino/simulator/lib/AndroidAccessory.cpp` | `usb_handle`, `connected`, `error` | `isConnected`, detection, switch to accessory mode, `read`, `write`, `disconnect` | libusb |
| Accessory on the board, `src/arduino/libraries/AndroidAccessory/` | `connected`, endpoint records | `isConnected`, `configureAndroid`, `switchDevice`, `read`, `write` | USB host stack |
| USB host stack, `usb/Usb.cpp`, `usb/Max3421e.cpp` | `usb_task_state`, `devtable`, `vbusState`, data toggles | `Task`, `busprobe`, control and bulk transfers, retries | the MAX3421E chip, the phone |
| LCD, demokit example, vendored libusb, `AndroidAccessoryAsync.cpp`, Android resources | | | unused, examples, or external |

What is hard in it:

- **The UI thread's queue.** Goals, clicks and the delayed end message are all
  posted, and run later in a state that has changed. Handlers call one another,
  and undo rebuilds what the goals wrote.
- **Android's order.** The DETACHED broadcast, the read error, the start command
  of the next plugging, rebinds and the death of an unused service reach the
  main thread independently of each other, with read threads that outlive their
  instance.
- **The cable.** The phone may be pulled between any two calls of a round, and
  comes back as another device; a phone must be switched to accessory mode,
  which is a disconnection too; any transfer may fail or time out.
- **The chip.** The host sees the line when it is probed only. Packets and their
  acknowledgements are lost, and both ends have to agree on the data toggles
  though the code saves them only when a transfer went well.

What makes each component right is in section 4, at the run that checks it; what
can go wrong in each, at its line, is the list of hazards in `PROJECT.json`.

## 2. Plan

The order is by how much of what a player sees depends on the component, and
within a component: the machine, its abstract specification, its proofs.

1. `ScoreGame`, refining `GameLifecycle`; proofs in `ScoreGameProofs`.
2. `UsbService`, refining `LossyLink`, with proofs in `UsbServiceProofs`; `UsbClients`,
   which extends it with the two activities, with proofs in `UsbClientsProofs`.
3. `SimAccessory` and `Firmware` on it, refining `LossyLink` for goals; proofs in
   `FirmwareProofs`.
4. `UsbHost` and `BoardAccessory` on it; proofs in `BoardAccessoryProofs`.
5. `UsbTransfer` and `UsbControl`, which extends it with the control requests that come
   before the first round; proofs about both in `UsbControlProofs`.
6. `HistoryList`: the layout of the history under a finger, a fling and a history
   that changes; proofs in `HistoryListProofs`.

All of it is built. `SeqFolds` holds the two folds of a sequence that `ScoreGame`, `Firmware`
and `HistoryList` are stated with and the loop (a step repeated until it does nothing) of
`HistoryList`; `SeqFoldsProofs` says what they do to any sequence and with any step.
No module declares a RECURSIVE operator.

What would add most next is a composition of table, service and scoring screen in
which a goal that falls counts at most once on the screen. Both halves refine `LossyLink`, and the scoring screen
takes any sequence of goals, so that the composition holds by what is proved
and checked of its parts; it has not been stated as a specification of its own.

## 3. The modules and the code

`PROJECT.json` maps each definition to the lines it stands for. Definitions have
the names of the code where there is one.

### ScoreGame (and GameLifecycle)

`game` is the record of the activity's fields: scores, `factor`, `status`,
`events`, whether the end message is posted (`endPending`) and whether the
game's buttons are `enabled`. The methods of the activity are operators from a
game to a game (`SetScore`, `AddScore`, `ScoreGoal`, `UndoLastGoal`, ...), since
they call one another; `SetScore` keeps the order of the code: cancel the end
message, cap and append the MORE10 pair, call itself, post the end message.
The handlers are actions: `HandleGoal`, `ClickGamelle`, `ClickUndo`,
`ClickNewGame`, the special goals (`running` is the `while` loop that undoes
MORE10 events, one round a step), `EndTimer` and the lifecycle (`Restart`, `Stop`,
`Recreate`). `uiQueue` is what waits for the UI thread: a goal posted to the
Handler and a click posted by a View run in their turn, whatever has become of
the button. `GameLifecycle` is what a player may rely on: none, playing,
closing, over.

### UsbService, LossyLink, UsbClients

`service` is the living instance (its fields `accessory` and descriptor, whether
it is started); `conns` are the openings of the accessory, each with its read
thread (`AccesoryReadThread.run` is `Reader`: it may be in `read`, hold a message,
have an error to post, or be finished); `android` counts what Android has yet to
deliver; `queue` is the Handler's queue, which keeps its order, and each message
knows the instance it is for. `attachAccessoryIfAny` (`Attach`, and `AfterAttach`
with its early returns), `closeAccessory` (`Shut`) and `listenAccessoryEvents`
(`Listen`) are operators that the handlers compose; `HandleCommand`, `HandleRebind`, `HandleDetached`, `HandleError`, `HandleMessage`,
`DestroyService` are the main thread's steps. Opening a descriptor may fail; the
list of accessories may lag behind the cable.

`UsbClients` gives the clients the life of an activity (`task` is Android's stack,
`acts` the activity objects with `mBound`) and what the two activities do when
told: `ScoreActivity` starts `DisconnectedActivity` and the other way round, each
clearing the task. The callbacks (`onStart`, `onStop`, `onServiceConnected`,
destruction) come one by one in any order. `CloseMayFail` lets the close of the
descriptor throw.

`LossyLink` is the abstract cable: what was sent is handled once at most.

### SimAccessory and Firmware

`Firmware` has the program counter of `loop` at the calls into libusb, the goal in
`fw.goal`, the two scores, stdin as `keys`, and the counted goals as `history`.
`SimAccessory` has the operators for the calls: what `libusb_get_device_list`
shows (in its order, walked from the last index to 1, as the code does), opening, the switch,
transfers with NO_DEVICE, another error or a timeout that may have arrived.
`error`, `connected` and `usb_handle` are the class's fields; `open` counts the
handles that nobody closed. The phone comes and goes between any two calls.
`CharRange` is the number of values of the `char` a score is cut to. `Only`
(of `SeqFolds`) takes the goals out of stdin, of the history and of what the phone received.

### UsbHost and BoardAccessory

`UsbHost` has the line (`SE0`, `attached`, `SE1`), the chip (`irq` is CONDETIRQ, `vbus` what
`busprobe` last read, `probed` that it was read and the interrupt not yet
cleared) and the host (`usb_task_state`, and which endpoint records `devtable[1]`
points to). `max.Task` is two steps, `Probe` and the rest, because the line may move
between the probe and the write that clears the interrupt: that change is lost.
`USB::Task` is an operator from the host's state to the states one call may leave it
in, with the transfers of the enumeration; a wait lasts any number of calls.

`BoardAccessory` has the firmware's places: `isConnected`, the descriptor it asks for
(`getDevDescr`), `configureAndroid`, `switchDevice`, the loop that waits for the phone
to leave (`waitForDevice`) and the transfers of a round. Every request may fail,
where the code returns early. `clean` is a history variable: no change of the
line was lost, no SE1 was read and no transfer of the enumeration failed since the
host was initialized.

### UsbTransfer and UsbControl

`call` is the transfer that runs with its local variables (`left` packets,
`retries`, `naks`, whether USB_XFER_TIMEOUT is over), `ep` the toggles in the endpoint
record, `chip` and `phone` those of the two ends. `OutAcked`, `OutAgain`,
`OutReturns` and `OutGoesOn` are the ways a packet of `outTransfer` ends;
`InTakes`, `InToggleError`, `InAgain`, `InReturns` those of `newInTransfer`. A packet
that failed with anything but a NAK may have arrived. `begun`, `givenUp`, `acked`,
`got` and `taken` are history variables.

`UsbControl` has the requests that come first. `req` is what `ctrlReq` was asked, what it
has read and what it returned; `step` the packet that is dispatched, with the
stage (setup, `get` and `put` for the data, status), retries and NAKs; `pipe`
the phone's endpoint 0, which keeps to USB: a SETUP begins a request whatever it was in,
data begins with toggle 1, the status ends it. `SetupAcked`, `StatusAcked`,
`DispatchAgain` and `DispatchFails` are `dispatchPkt` in the stages it is called from;
`Receive` and `ReceiveError` are `inTransfer`; `PutAcked`, `PutAgain`, `PutFails` and
`PutGoesOn` are `outTransfer` with the strings of `switchDevice`. Requests may fail and be
followed by others, so that the chip's toggles are left anyhow; the rounds of
`UsbTransfer` begin once a SET_CONFIGURATION has returned 0.

### HistoryList

The history is the sequence of the widths of its events. The list has the fields of
the view: the children (`rows`: item, left edge, width), `leftIndex`, `rightIndex`,
`displayOffset`, the queue of removed views (which keep the place they had),
`currentX`, `nextX`, `maxX`, `dataChanged` and the scroller. `HistoryChanges` is the
adapter's notification; `Down`, `Drag` and `Fling` are the gestures; `Layout` is
`onLayout` with all its loops, which runs when one was requested, so that several
changes, moves and flings may come in between. A loop of `onLayout` is its round
(`DropFirst`, `DropLast`, `AddRight`, `AddLeft`), which does nothing once the condition of the loop
fails, repeated as often as there are rows or events; `Views` are the fields the
loops change, and `edge` is the edge a fill loop has reached. `cut` is a history variable (see
`EndInReach`).

## 4. The runs

### Runs that pass

| Run | Instance | Properties |
|---|---|---|
| `score_rules` | win at 2, histories of 5, one posted item | `TypeOK`, `FactorMatchesHistory`, `UndoRestores`, `ScoringCaps`, `ScoreFollowsHistory`, `ClosedGameIsSealed` |
| `score_races` | win at 2, histories of 4, two posted items | `HistoryBegins`, `EndTimerMatchesScore`, `ImplementsLifecycle`, `LoopEnds`, `GameCloses` |
| `usb_service` | 2 pluggings, 2 openings, 1 message, 2 instances, 1 client | `TypeOK`, `ConnectedIsOpen`, `OwnDescriptor`, `ImplementsLossyLink`, `DisconnectNoticed`, `ThreadsEnd`, `PlugServed` |
| `usb_clients` | 3 activity objects, 2 pluggings, 1 opening, 2 moves of the user, close may throw | `NotDisconnectedScreen`, `BoundHears` |
| `table_loop` | 2 pluggings, 2 goals, 2 commands, scores modulo 2, a hub and a device of a known vendor on the bus | `TypeOK`, `EveryPressCounts`, `OneHandle`, `ScoreRespIsScore`, `GoalsReachThePhoneOnce`, `PhoneIsFound`, `GoneIsNoticed` |
| `board_host` | 3 pluggings, 2 glitches of the line | `TypeOK`, `EndpointsKnown`, `ConnectedIsThePhone`, `GoneIsNoticed`, `PhoneIsServed` |
| `board_transfer` | requests of up to 3 packets, messages of 2, 3 messages, 3 commands, limits 3 (retries), 2 and 1 (NAKs) | `TypeOK`, `LossesArePaidFor`, `CommandsReadOnce`, `ControlTypeOK`, `RequestCarriedOut`, `CallsReturn` |
| `history_list` | a window of 3, rows of 1 or 3, 3 events, drags of 1 and 4, places up to 6 | `HistoryShown`, `EndInReach` |

- **score_rules**: whatever goals, special goals, undos and visits to another
  screen, the multiplier is the one the history shows (but behind a MORE10), undo takes a goal back
  exactly, nobody is left over the win by a goal, score and history move by
  the same amounts, with the exceptions the property names, and a closed game
  stays closed.
- **score_races**: two posted items let a click and a goal, or two clicks, wait
  while the timer or a lifecycle callback runs. The end message is posted
  exactly when somebody is at the win, no handler reads the last event of an empty
  history, the loop of the special goals ends, and a game left at the win is closed.
- **usb_service**: two sessions and two connections let the leftovers of the first
  (thread, broadcast, error, dying instance) meet the second.
- **usb_clients**: three objects are the two activities and one that is being
  destroyed while its successor starts.
- **table_loop**: two pluggings let a stale handle meet a new device; two goals
  share one line of stdin; the scores go round.
- **board_host**: three pluggings let a phone be plugged again after a switch and
  after an unseen unplugging; the two glitches let SE1 come before and after it.
  The change that comes between the probe and the clear is in it.
- **board_transfer**: a data stage of three packets has a first, a middle and a last
  one; requests follow one another with the toggles the last one left. With
  three messages of two packets a toggle that was not saved meets the next
  message, and the message after it shows what follows. The limits of retries and NAKs
  (3, and 32000 or the 1 of the loop, in the code) differ, so that either may be met first.
- **history_list**: a row of 3 fills the window and one of 1 does not; drags of 4 and
  places up to 6 let one layout go past every row there is, in either direction.

The bounds are in the guards of the actions that would exceed them; each is a
CONSTANT with the word *bound* at its declaration. The win of 2 (10 in the code)
is above the largest multiplier's first steps and keeps every case: a goal that
reaches it, one that exceeds it, one that exceeds it for both teams. The theorems of
section 6 hold for every value of these constants.

### Runs that find a violation

| Run | What the code does |
|---|---|
| `undo_meets_cap` | An undo while a score is over the win caps inside `undoLastGoal`, appends MORE10 events, removes one of those and keeps the event to undo. |
| `not_detected` | A close that was for the last session (late DETACHED, late read error) takes the new one; the screen "Babyfoot not detected. Try replugging USB." stays with the table plugged. |
| `null_handle` | `write` disconnects in the block for a connected phone, and the `read` after it transfers on a NULL handle. |
| `goal_team` | The message is documented to name the team that scored; the firmware sends the letter of the sensor, and counts that ball for the other team. |

`PROJECT.json` quotes the text each contradicts, under `findings`.

### Deadlock

`CHECK_DEADLOCK FALSE` is set where the system may really stop: a table that is
unplugged for good with nothing left to deliver (`usb_service`, `usb_clients`,
`not_detected`), a program that exited or crashed (`table_loop`, `null_handle`,
`goal_team`), a phone that is away with a host that waits (`board_host`; the bound
on pluggings is what ends it). The scoring screen, the transfers and the history
list are checked for deadlock.

### Observations that are no run

- A capped gamelle keeps its multiplier behind the MORE10 pair; the undo of half
  of the pair makes it 1; a lob or demi that finds no goal has still undone the MORE10
  events. `onStart` zeroes the scores in the middle of a game and keeps the history.
- On a normal plug with the disconnected screen shown, two score screens may
  be launched in a row. A close that throws tells no listener.
- In the simulator's `babyfoot.cpp` the key `r` is the ball in the red goal, and
  gives blue the point. Two letters typed on one line may lose the second.
  Failed switches and phones of known vendors that cannot switch leave
  handles open each round. `read` overwrites the error of `write`, so that a goal
  may be lost in silence.
- On the board, a phone pulled and plugged again within the second after a goal
  leaves `connected` true; a line in SE1 makes the host ILLEGAL and the SE0 that
  follows does not reset it; a failed transfer of the enumeration leaves ERROR
  until unplugged; a START that was not heard keeps `switchDevice` in its loop.
- `usb/Usb.cpp:285` says of the result of `outTransfer` "should be 0 in all cases":
  it is not when the time is over at the last packet; when it is over before, the
  transfer is reported sent without that packet. When the last retry's
  acknowledgement is lost, the next message is taken for a repetition: it is
  acknowledged, reported sent, and lost (what `LossesArePaidFor` accounts for).
- A click of "gamelle" or "undo" posted before the end message closed the game runs
  after it, and changes the closed game; `ClosedGameIsSealed` excepts such clicks.
- A layout of the history that goes past every row it had measures the end from 0: the
  last events are out of reach until the history changes (the exception `cut` of
  `EndInReach`).
- A lost acknowledgement of a status stage leaves a request that returned 0 not done
  (`unheard` in `RequestCarriedOut`), and a string of `switchDevice` may be sent with a
  hole when the five seconds are over in the middle of it.

## 5. Fairness

- *ScoreGame*: `WF(Work)`: the Looper runs what is posted, and a handler goes on.
  `EndTimer` is a delayed message: it comes unless it is cancelled and posted again
  for ever (`[]<><<Rearm>>` is the alternative), and `GameCloses` says so itself.
- *UsbService*: weak fairness of each main-thread delivery and of each read
  thread: Android delivers broadcasts, commands, rebinds and messages, and
  threads are scheduled. Nothing is assumed of users, of the table or of
  `attachAccessoryIfAny`'s outcome. The runs of `UsbClients` check safety
  without fairness.
- *Firmware*: `WF(loop)`: the program runs. The phone comes back after a switch
  (`Reenumerate`). `SF(switchDevice)`: a switch that is tried again and again does
  not fail for ever.
- *BoardAccessory*: `WF(Round)`: the loop runs. `WF` of `LeaveToSwitch`, `ComeBack` and
  `GlitchEnds`: a phone that was told to leaves and comes back, and the line is not SE1 for
  ever. `SF` of `Describe`, `configureAndroid` and `switchDevice`: a phone that is asked
  again and again answers once. Nothing is assumed of the enumeration in
  `USB::Task`: a transfer of it that fails is not clean, and ends in ERROR.
- *UsbTransfer*, *UsbControl*: `WF` of `ControlPacket` and of the rounds' `Packet`: the chip reports the end of
  each packet (HRSL). `WF` of `TimeIsOver` and of the rounds' `TimeOut`: time passes. Which
  result is reported is not fair: a phone may answer NAK for ever.
- *HistoryList*: safety only.

## 6. What is proved

The proofs hold for every value of the constants, under the named assumptions of
the modules; TLC evaluates those on each run. Every safety property that a passing run
checks is proved.

### SeqFoldsProofs

What the points of a history, a count of goals or the list of received goals come to is a fold of a
sequence. `Total` (the sum of a sequence of numbers) and `Only` (the elements of a
sequence that are in a set) are recursive functions on the indices of their sequence,
and the lemmas say what they give for the empty sequence, for one more
element (`TotalAppend`, `OnlyAppend`), for one less at either end (`TotalFront`,
`OnlyTail`) and for a concatenation (`OnlyConcat`).
That such a function exists and is the only one is shown by induction. The induction
theorems of the library take an operator, which the provers cannot instantiate, so
induction is shown once for sets (`NatInduct`, `SeqInduct`): a set of naturals
that holds 0 and the successor of each of its members, and is not all of them, would miss a
least one (`WFMin`).

`Repeat` is a step taken n times, also a recursive function. `RepeatKeeps` is the rule for the
invariant of a loop, `RepeatSettles` the one for its end: a step that does nothing or
makes a number smaller does nothing any more when it has been taken as often as
that number says. Sets stand for the invariant, so that neither takes an operator.

### ScoreGameProofs

From `WinScoreAssumption` (the win is a positive integer), with the bounds arbitrary:
`TypeCorrect`, `HistoryCorrect`, `EndTimerCorrect`, `FactorCorrect` (invariants),
`CapsCorrect`, `SealedCorrect` and `AccountsCorrect` (action properties), `UndoCorrect`,
`LifecycleCorrect` (refinement of `GameLifecycle`) and `TwoCapsSuffice` (the lemma on which the translation of the
recursive `setScore` stands: it caps twice at most).

None of the invariants is inductive alone: that a handler finds an event needs
that the buttons are enabled only while there is one, the timer's invariant
needs the status, the multiplier's needs the shape of the history. The
inductive invariant is `IInv == Core(game) /\ Waiting`. `Core` holds of a single
game and is stated as a predicate of it, so that each method has a lemma "a
game with `Core` is left with `Core`" and a handler's proof is the composition of its
methods' lemmas. `Waiting` says what the posted clicks and the running loop rely
on. `SpecInvariant` is one step per action.

`AccountsCorrect` shows of each method what it does to the difference between a team's
score and the points of its history. `SetScoreCases` has the three things `setScore` can do: set
the scores, cap once, cap twice; `SetScoreDrift` shows that a cap takes from the score what its MORE10
pair takes from the points, so that a call of `setScore` moves the difference by
what it was asked to, and the event that a handler writes before or after
it moves it back (`EventThenScore`, `ScoreThenEvent`). The undo of a MORE10 meets
no cap (`More10MeetsNoCap`), so that the loop of the special goals is no exception.

`UndoCorrect` needs no invariant but `IInv`: `GoalAdds` says what a goal adds to a game with nobody
over the win, one event or three, and `UndoOne` that the undo of an event which is
a MORE10, or leaves nobody over the win, takes away that event and its points and nothing
else. The multiplier comes back by `FactorMatchesHistory`, but behind a MORE10.

### UsbControlProofs

Of `UsbTransfer`, from `TransferBounds` (the limits are positive): `TransferTypeCorrect`,
`CommandsCorrect` and `LossesCorrect`. The inductive invariant is
`IInv == TInv /\ Reading /\ CommandsReadOnce /\ Resending /\ LossesArePaidFor`.

- `Sending` (in `TInv`): the packet being sent was begun and is not counted as
  given up yet, and there is room for those that are left.
- `Reading`: the next command was not taken, and has the saved toggle; or it was
  taken, its acknowledgement was lost, and it has the other toggle. This is what makes
  `CommandsReadOnce` inductive.
- `Resending`: the packet being sent is not acknowledged, and if the phone has
  it, it expects the other toggle. So an acknowledged packet that is lost
  (`AckedStep`) is one that was out of step, and brings the ends in step again;
  only a packet given up (`GivenUpStep`) can take them out of step. The
  cardinality of the lost packets is handled by `LostFinite`.

Of `UsbControl`, from `ControlBounds` as well: `ControlTypeCorrect`, `RequestCorrect` and
`RoundsCorrect`. `RequestCarriedOut` speaks of a request that has returned; the inductive
invariant `CInv` follows it through its stages. A request takes turns with the rounds
(`InTurn`) and has nothing read or dropped at its setup (`Asked`). The host and the phone both
begin the data with toggle 1, whatever the chip was left with. While data is read, the phone
sends the packet that is asked for or, with the other toggle, the last one again, which
`inTransfer` discards (`ReadingOn`). While data is written, each packet that is missing at the phone,
and a toggle that differs, was paid for by a packet that `outTransfer` dropped (`WritingOn`).
`StatusLeft` keeps this until the status stage is over. `CInv` contains `IInv` of
the transfers, which no request disturbs, so that what was proved of the rounds alone holds
of the rounds that follow any requests (`RoundsCorrect`).

### UsbServiceProofs

From `UsbBounds` and for any set of clients: `ServiceTypeCorrect`,
`ConnectedCorrect`, `DescriptorCorrect` and `LinkCorrect`.

The inductive invariant of the first three is `ServiceInv`: the types, that a
session or instance that is named exists (`Plugged`, `Alive`, `Numbered`), and
the two properties themselves, which are inductive with these.
Each handler composes `Attach`, `Shut` and `Listen`, so that each of those has a
lemma, and a handler's proof cites them.

`LinkCorrect` is the refinement of `LossyLink`. The inductive invariant is
`LinkInv`: a message is in one place only, on the wire, with one read thread, in the
Handler's queue or handled (`OnePlace`), and once in that place (`OnceOnWire`,
`OnceHeld`, `OnceQueued`). A step of a thread or of the Handler takes it from one place
and puts it in the next or loses it; only `HandleMessage` adds to what is handled, and it
adds what was in the queue, hence not handled yet.

### UsbClientsProofs

With `ClientAssumption` added: `BoundCorrect` and `ScreenCorrect`, for the specification
`Behaviour` of service and activities together. `ClientsInv` is `ServiceInv`, the type
of the screens and the two properties. An opening and a closing tell the listeners, one
by one, and each may launch a screen and clear the task; `Follows` says what such a
round does to the screens: each is one that was there, or is new and `Unheard`, in
no instance's list. So whoever is in the list while there is an accessory has been told
of it, and a disconnected screen that was told is in the task no more.

### FirmwareProofs

From `BoundsAssumption`: `HandleCorrect`, `TypeCorrect`, `PressCorrect`, `RespCorrect` and `GoalsCorrect`
(refinement of `LossyLink`).

`OneHandle` is inductive with `HandleInv`: there is a handle
exactly when the class is connected (`HandleIsConnection`), none while a device is
looked for or switched (`NotYet`), and a device that comes back from a switch has a number that was
never used (`Numbers`: the device on the bus leaves a number for the one that comes back
switched), so that no handle of its own can be open already.

The others have `CountInv` on top of it. What a press becomes depends on how the two sensors share
a line of stdin: the second reads what the first left, so nothing is lost only because
each goal is followed by an ENTER (`EnterFollows`). With it `DigitalReadTakes` says what a sensor
takes, and `CheckGoalsTakes` that a round moves its goals from stdin to the history (`PressInv`). The scores are the tallies of the
history since its last NEW_GAME (`ScoreInv`), so a SCORE_RESP is true when it is written, and stays true
because it remembers how much of the history it speaks of (`RespInv`). The goals received are
goals that fell, and the one in the program's hands, up to its write, is the last that fell and was not
received yet (`GoalsInv`): the loop writes it in one place and goes on whatever became of it.

### BoardAccessoryProofs

From `HostBounds`: `BoardTypeCorrect`, `EndpointsCorrect` and `ConnectedCorrect`. The
inductive invariant `BoardInv` relates what the chip last read to the host's state and to the
phone: a device is served only while the line was last read attached
(`ServedAttached`); no SE0 was read since the phone was reset (`AddressSinceReset`); a
device that answers at address 1 has endpoint records (`TableForAddress`); while
everything was seen, what was read is what the line is (`SeenAsIs`), and `connected` is told
of a phone that was described as an accessory (`SamePhone`, `ConnectedWhom`).

### HistoryListProofs

From `HistoryListAssumption` (rows are at least 1 and at most the window wide), for every
window, history and move: `HistoryCorrect`, `EndCorrect` and the invariant they come from, `LaidOut`.

`IInv` says what the layout finds. A change of the history leaves the list to be reset; otherwise
the list is `Laid`: its rows are consecutive items (`Lined`), placed where those are (`Placed`),
there is at least one, they cover the window as far as the history goes, and an
end measured with the last event laid out is not beyond the true one. That last part
is what keeps a list from being scrolled past its last row, though the end may be
measured too small; `EndInReach` says when it is exact.

A layout is followed loop by loop (`DropLeftIs`, `DropRightIs`, `FillRightIs`, `FillLeftIs`,
`PlaceIs`), each by the invariant of its loop. The views stay lined up all along,
and the edge of a fill loop differs by a constant (`Lead`) from where the item it has
reached is. `LayoutLays` has three cases:

- a row stays, or there was none because the history changed (`RowsStay`): the constant is
  what it should be, and both loops stop where the window ends;
- all rows left it on the left (`RowsGoneLeft`): the fill measures from 0 what is further
  left, so that it fills at least the window, and an end comes out too small, never too large;
- all rows left it on the right (`RowsGoneRight`): nothing is filled on the right, for
  the first row that was there began within the old window, and the fill on the
  left begins beyond the new one and stops left of it.

### What stays with TLC

Liveness and fairness only: `LoopEnds`, `GameCloses`, `DisconnectNoticed`,
`ThreadsEnd`, `PlugServed`, `PhoneIsFound`, `GoneIsNoticed` (twice), `PhoneIsServed` and
`CallsReturn`.

## 7. What is not modelled

- `InMessage`: a parser of fifteen lines without state of its own but a buffer; the
  firmware's messages are one transfer each, and are taken as they are. What it
  would make of a message of one byte is a hazard without a property.
- `sendMessage` and the write thread of the service: nothing calls them.
  `UsbBroadcastReceiver`: not in the manifest.
- The titles of recycled rows, the taps on the list (no listener is set) and `scrollTo`
  (nothing calls it).
- The LED, the LCD, what the firmware and `printdev` print, texts and layouts.
- `AndroidAccessoryAsync.cpp`: no build file compiles it. The demokit example and
  the vendored libusb: not the product.
- In `SimAccessory`, the handles opened to switch a device and left open by a START that
  fails (`simulator/lib/AndroidAccessory.cpp:136`) are not counted.
- A packet shorter than a command, and the stale rest of the firmware's buffer that
  would be taken for one: the application sends whole commands only.
- On the board: the requests of HID devices, which nothing calls; the chip's registers
  behind SPI; the walk over the configuration descriptor, which is abstracted to whether
  it finds the endpoints.
