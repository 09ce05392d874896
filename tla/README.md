# Roombii in TLA+

Roombii is a robot vacuum whose original electronics are replaced by an ESP32:
a game controller drives it over Bluetooth, a front LED strip shows its status,
a push button makes it dance, and new firmware is uploaded over Wi-Fi. This
directory holds TLA+ models of the firmware, TLC configurations that check them
on small instances, and TLAPS proofs, for every value of the constants, of all
but one of the safety properties that those runs check. Paths below are relative to the repository.

## The system

### Tasks and how they interact

| task | code | core, priority | talks to |
|---|---|---|---|
| drive loop | `src/arduino_main.cpp` `loop()` | 1, 1 | takes the drive mutex, polls controllers and button, notifies the motor task, sends status messages |
| motor task | `src/motor_control.cpp` `_motor_task` | 0, 1 | receives one 32-bit notification value, sets four motors |
| state task | `src/state_manager.cpp` `_state_task` | 0, 2 | receives status messages, holds the drive mutex in parties and after an update, sets the LEDs |
| Wi-Fi task | `src/wifi_manager.cpp` `_wifi_task` | 0, 3 | polls ArduinoOTA, whose callbacks send status messages |
| LED task | `src/state_manager.cpp` `_led_task` | 0, 4 | LED hardware |
| event task | Arduino core | external | runs the Wi-Fi event handlers, which send status messages |
| Bluetooth task | Bluepad32 on BTstack's run loop | 0 | handles controllers, writes the seats the drive loop reads |
| Bluetooth controller's task | ESP-IDF, callbacks in `components/btstack/btstack_port_esp32.c` | external | puts packets into a ring buffer, wakes up the run loop |

There are five meeting points: the **status queue** (ten messages, senders do
not wait), the **drive mutex** `accept_user_drive_coordinates` (created plain,
taken with plain calls by the loop and with recursive calls by the state task),
the **notification value** of the motor task (the last writer wins), the
**seats** `_gamepads` of Bluepad32's Arduino platform (partly protected by a
mutex), and the **run loop** of the Bluetooth task (a ring of bytes, a list of
callbacks and the bits of a task notification).

### Components

For each: state, operations, what is hard, and what makes it correct.

* **State manager** (`src/state_manager.cpp`). *State*: queue, `_states`, the
  mutex, LED segments. *Operations*: five setters that post a message, the task
  that stores it and runs `_determineMode`. *Hard*: a full queue drops reports
  silently; a party sleeps five seconds with the mutex held, perhaps on top of
  the update's hold; the button LED keeps an old colour when no branch applies.
  *Correct*: parties and finished updates exclude driving, the update's lock is
  permanent, the order of reports survives, LEDs tell the truth, parties end.
* **Motor control** (`src/motor_control.cpp`). *State*: the notification value,
  what the motors are set to. *Operations*: `motor_control`, `twirl`, `brake`
  and the motor task with its dance. *Hard*: commands overwrite each other, some
  bytes of a command are uninitialised, a dance takes seconds. *Correct*: the
  last command is never the one that is lost.
* **Steering arithmetic** (`src/motor_control.cpp`, `loop()`'s dead zone).
  *Hard*: a polar conversion in single precision with truncation, then a signed
  byte. *Correct*: a wheel turns in the direction and at the speed asked for.
* **Gamepad bridge and device records** (`components/bluepad32*`, the callbacks
  in `src/arduino_main.cpp`). *State*: device records, seats, the objects the
  application sees, its slots. *Hard*: two CPUs, handlers that are not atomic,
  a controller that drops out while it connects, seats that change hands between
  two polls. *Correct*: seats are neither leaked nor stolen, a reading is never
  attributed to another controller, the slots are what the application was told.
* **Wi-Fi manager and OTA** (`src/wifi_manager.cpp`, `wifi_state_cb`,
  `ota_state_cb`). *State*: what was last reported, whether the OTA server
  listens. *Hard*: two tasks make two-call reports with nothing between them to
  keep them apart; the address outlives the link by a timer. *Correct*: green
  means online, an update that is over leaves no trace in the report.
* **Main loop and click handler** (`src/arduino_main.cpp`). *Hard*: a click is
  handled in the middle of a pass, or in an interrupt. *Correct*: no pass that
  began before a party or an update goes on to drive; once everybody is at rest
  the motors do what the stick says.
* **Connection set-up** (`components/bluepad32/uni_bluetooth.c`, `uni_bt_sdp.c`,
  `uni_bt_conn.c`, `uni_hid_device.c`). *State*: records, the one SDP query, the
  one name request, three kinds of timers. *Hard*: answers that come after their
  time-out, events of several controllers in any order, records that are wiped
  and given away while something still points to them. *Correct*: an attempt to
  connect ends, the query slot becomes free, seats are counted.
* **Set-up of Switch and Wii controllers** (`uni_hid_parser_switch.c`,
  `uni_hid_parser_wii.c`). *Hard*: clones that do not answer, answers that come
  late, extensions that come and go during the set-up. *Correct*: the set-up
  ends, and a controller that is ready was told what it had to be told.
* **Outgoing reports** (`uni_hid_device.c`, `uni_circular_buffer.c`). *Hard*: a
  ring at its limits, and an event that has to be asked for again after each
  report. *Correct*: no report is forgotten.
* **HCI transport and run loop** (`components/btstack`'s `btstack_port_esp32.c`,
  `btstack_run_loop_freertos.c`, `btstack_run_loop.c`, `btstack_ring_buffer.c`).
  *Hard*: three tasks, flags that are tested and cleared outside of any lock, a
  clock that wraps. *Correct*: packets arrive whole and in order, no wake-up is
  lost, timers are called in order and not early.
* **Bump interrupt, battery monitor, LED task, boot**: see "Not modelled".

`PROJECT.json` lists all components, and under "hazards" each thing that can go
wrong with the line at which it would.

## Modules

| module | models | checked by | proved in |
|---|---|---|---|
| `FreeRTOS` | external: bounded queue, plain and recursive mutex calls on one semaphore | through `StateManager` | |
| `StateManager` | the state manager, and the loop task as the mutex's other client | `MCStateManager` | `StateManagerProofs` |
| `DriveGate` | abstract: what `StateManager` promises about driving | `MCStateManager` | `StateManagerProofs` |
| `Throttle` | the arithmetic of `motor_control.cpp` as operators | through the next two | `MotionProofs` |
| `Steering` | the path from stick to motors, one loop pass per step | `MCMotion` | `MotionProofs` |
| `MotorControl` | notification value, motor task, dance, brake | `MCMotion` | `MotionProofs` |
| `Gamepads` | device records, seats, `Bluepad32::update()`, the application's callbacks | `MCGamepads` | `GamepadsProofs` |
| `WifiManager` | events, handlers, OTA session, callbacks, restart | `MCWifiManager` | `WifiManagerProofs` |
| `Roombii` | the composition: a pass of `loop()` with button, state task and motor task | `MCRoombii` | `RoombiiProofs` |
| `BtConnection` | a controller from discovery to its seat | `MCControllerSetup` | `ControllerSetupProofs` |
| `SwitchSetup` | set-up of a Nintendo Switch controller | `MCControllerSetup` | `ControllerSetupProofs` |
| `WiiSetup` | set-up of a Wii controller and its extensions | `MCControllerSetup` | `ControllerSetupProofs` |
| `HciTransport` | controller's task, calling tasks and run loop | `MCBluetoothTask` | `HciTransportProofs` |
| `ByteQueue` | abstract: a bounded queue of bytes | `MCBluetoothTask` | `HciTransportProofs` |
| `RingBuffer` | BTstack's ring buffer, which implements it | `MCBluetoothTask` | `HciTransportProofs` |
| `TimerService` | abstract: what the run loop promises about timers | `MCBluetoothTask` | `BluetoothTaskProofs` |
| `RunLoopTimers` | the run loop's list of timers and its wait | `MCBluetoothTask` | `BluetoothTaskProofs` |
| `OutgoingReports` | a record's buffer of reports and L2CAP's can-send-now events | `MCBluetoothTask` | `BluetoothTaskProofs` |

`MCMotion`, `MCControllerSetup` and `MCBluetoothTask` each hold instances of
several modules that share no state. A variable (`part`, `stage`) says which of
them a behaviour is about; the variables of the others rest in an initial state,
and the fairness of each is restated for its part. What such a run shows of a
part is what a run of that part alone would show.

Definitions keep the source's names where there is one. A definition commented
"Faulty variant" is a plausible bug of the definition below it, kept to show
that a property is able to fail; no specification uses it.

**StateManager.** `queue`, `states`, `partying`, `mutex` and `leds` are the
class's members. `statePc` says where the state task is: waiting for a message
(`receive`), before `_determineMode`'s first take (`lock_for_ota`), before its
second test (`party_or_status`), or asleep in a party (`party`). Each wait of
the task is a step boundary; between waits it runs in one action. The tail call
of `_determineMode` at the end of a party is the jump back to `lock_for_ota`.
`reported` and `lost` are auxiliary: what was last handed to each setter, and
whether that message met a full queue. The mutex is FreeRTOS's: a record of
holder and recursion count in which a plain take counts nothing, so that mixing
both families of calls is modelled as FreeRTOS carries it out.

**Throttle and Steering.** C's `/` and the conversion to `int8_t` are modelled
with truncation and width. `sqrt`, `atan2`, `sin` and `cos` in single precision
are not computed: `WheelThrottles` is the *set* of integers that truncating the
rounded product can give, i.e. those whose square is within a tolerance of the
exact square (one integer, or two next to an integral value). Every property
must hold for each of them. The tolerance, 1 in the square, is an analytical
assumption: the accumulated single precision error of the angle, its sine and
the magnitude stays below 1/3 there.

**MotorControl.** `pending` and `value` are the notification; `pc` and `move`
are the motor task's place, with one step per move of the dance; the bytes
`send_drive_action` leaves uninitialised are chosen from `Garbage`; a missing
motor shield is a choice in `Init`. `last` is auxiliary.

**Gamepads.** Each Bluetooth event is an action. Where a handler writes memory
the other CPU reads without a lock the action is cut in two (`seatTaken`,
`seatCleared`), and `update()` is cut before each seat, and between the look at
a seat's `idx` and the copy of its data. A reading and a controller's properties
are represented by the address they come from. Name and SDP queries are
abstracted to the state `setup`. BTstack's habit of closing L2CAP channels
before it forwards the disconnection event is an assumption, in
`disconnectionComplete`.

**WifiManager.** The network (`link`, `ip`, `events`) and ArduinoOTA's session
are external. A handler is the sequence of calls it makes, performed one by one
(`eventTodo`, `otaTodo`), so the two tasks interleave between any two calls.
After a successful update the device restarts.

**Roombii.** The composition instantiates `StateManager` and `MotorControl` and
puts the loop as it is written in the place of the abstract loop task that each
of them knows. `loopPc` is the place in `loop()`: waiting for the mutex, in
`BP32.update()` slot by slot, in `top_button.tick()`, between the two halves of
`handleClick`, sending the command for one slot, giving the mutex back. A click
may also be handled by the interrupt, in any place. Controllers and Wi-Fi reports
are left free. `ComponentsHold` says that the loop as it is written is one of
the loops the two components were checked for.

**DriveGate.** A gate that is open, closed for a party or locked for good, and a
loop that goes through it. `StateManager` implements it under the mapping
`Gate`: the gate is locked from the state task's take for an update on, closed
while it holds the mutex for a party, and driving is what the loop does.

**BtConnection.** A handler is a function from the whole state to the next one,
built from functions named after those it calls, and an action applies it. `rec`
is `g_devices`, `sdp` the query with its timer and `sdp_device`, `stack` what
BTstack keeps. A name is one of the three kinds the code tells apart. A timer in
the run loop's list whose memory is wiped, or which is added twice, damages the
list: the behaviour ends there with `damaged` saying how, since nothing can be
said about what follows. Assumed of the world: controllers follow the HID
profile (one channel of each kind, control first), BTstack runs one name request
and one SDP query at a time and closes channels before it reports a lost link.

**SwitchSetup and WiiSetup** start where `BtConnection` leaves a record in its
parser's hands. Reports in both directions are sequences (L2CAP loses none and
keeps their order); what a controller was told is kept in `pad`. In `SwitchSetup`
an SDP query may be left running, whose late answer starts the set-up over; in
`WiiSetup` the set-up starts once, and the difficulty is the status that a remote
sends unasked whenever an extension is plugged in or pulled out.

**OutgoingReports.** `buffer`, `head_idx` and `tail_idx` are the circular
buffer's; `waiting`, `notifying`, `busy` and `signal` are what L2CAP and HCI
keep. `made`, `sent`, `refused` and `gone` are auxiliary and account for each
report. A comment at `uni_hid_device.c:636` asks of the request for another
event "TODO: Is this really needed?": it is. Without it (the faulty variant
`reportWithoutEvent`) a report stays in the buffer for good.

**ByteQueue, RingBuffer.** A write stores all of a block or nothing, in one or
two chunks; `last` holds the arguments and the result of the last call, in both
modules, so that the refinement covers what calls return.

**HciTransport.** Each critical section is a step, and so is each access outside
of one: testing and clearing a flag, reading the notification bits, going to
sleep. Packets lie in the ring as length tag and data; `garbled` marks the moment
when tag and data no longer match, where the behaviour ends. The host's flow
control bounds ACL packets; nothing bounds events, so that how far the
controller may be ahead is a constant, `EventsInFlight`.

**TimerService, RunLoopTimers.** The list, a clock modulo `Width`, and the time
`now` the loop has read, which may be old when handlers set timers. Assumed, and
stated in `TimerConstants`: what is pending lies within half a turn of the clock
(24 days); a timer is not added while it is in the list (the two `NoTimerAddedTwice`
say where Bluepad32 does not keep to that).

## Runs

| run | bounds | what it shows |
|---|---|---|
| `state_manager` | queue of 2, at most 2 recursive holds, five different reports | mutual exclusion of driving with parties and updates, permanence of the update's lock, order of reports, truthful LEDs, the refinement of `DriveGate`; parties end, driving resumes unless an update succeeded, queued reports are acted on |
| `state_ota_comment` | the same | **violation**: a failed update does not lock driving |
| `motion` | commands: 4 stick positions, 3 garbage bytes; steering: stick grid of 32, edges of the dead zone, up to 457 | the last command holds, a dance turns on the spot, the motors settle; direction, proportion, straight and sideways pushes, brushes, no lurch |
| `steering_full` | the same grid up to 511 | **violation**: the wheel byte overflows in the corners |
| `gamepads_safety` | 3 controllers, 2 records and seats, symmetry in the controllers | ownership of seats, nobody turned away, no inherited readings, slots and status |
| `gamepads_liveness` | 2 controllers, 2 seats | a controller that stays is noticed, one that stays away is forgotten |
| `wifi` | 3 waiting events, images of 10000 and 12399 bytes | green means online, the server follows the address, no ghost update, honest percentage, the report settles to the truth |
| `roombii` | 1 slot, queue of 1, at most 2 recursive holds | loop and components fit together, nothing drives past a lock, what a dance gives way to, the robot follows the stick in the end |
| `setup_safety` | connection: 2 controllers, 1 record, 2 channels; Switch: 2 seats, 1 late query, 4 answers under way; Wii: all controllers of both generations, 3 plugs | timers, query, seats and records stay consistent; set-ups are timed, complete and take answers for what they are |
| `setup_liveness` | 1 controller, 1 record; 1 plug | attempts to connect end, the SDP query becomes free, set-ups end |
| `bt_timer_cleared` | as the connection of `setup_safety` | **violation**: a record is wiped with a timer in the list |
| `bluetooth_task` | transport: 3 packets, 2 calling tasks; ring: 3 bytes of 2 values, blocks of 0 to 4; timers: 3, clock of 9 ticks, 1 tick late; reports: 5 through a buffer of 3, 2 channels | packets arrive whole, no lost wake-up, delivery; the ring is a queue; timers are called in order, not early, and in the end; no report is forgotten or sent twice |

Several properties that a run checks are conjunctions of the named properties of
its parts; each part has a faulty variant of its own in `PROJECT.json`:

| property | parts |
|---|---|
| `GateLives` | liveness of `DriveGate`; parties end after an update too |
| `Manoeuvres` | `Straight`, `Pivots`, `BrushesFollow`, `DanceInPlace` |
| `SeatsHonest` | `SeatsCounted`, `SeatHasChannel` |
| `TimersKept` | `TimerMatchesQuery`, `NeverForgotten`, `SetupTimed` |
| `Configured` | `Configured` of `SwitchSetup`; `Recognised` and `LedsShowSeat` of `WiiSetup` |
| `SetupsEnd` | `AttemptsEnd`, `SdpFreed`, `SetupEnds` |
| `PacketsIntact` | `NothingDropped`, `PacketsWhole` |
| `TypesOK` | the type invariants of `HciTransport`, `RingBuffer`, `RunLoopTimers`, `OutgoingReports` |
| `WorkIsDone` | `Delivered`, `CallbackRuns`, `TimersFire`, `QueuedLeaves` |

`ImplementsGate` contains `DriveShutOut` and `OtaLockPermanent`, which are stated
separately for the proofs.

Why the bounds are enough.

* *Queue of 2*: full, partly full and empty queues happen and two messages can
  overtake each other if ever they could; the proofs cover every length. In
  `roombii` the queue of 1 is full or empty, which is all the loop can tell.
* *MaxCalls 2*: the update's hold with a party's on top; further SUCCESS messages
  would only count higher, and the environment stops then.
* *Stick grid*: the conversion has no case distinction but the signs, the
  diagonals and the dead zone, all of which the grid has; the byte's faithfulness
  is proved for all positions.
* *Three controllers for two seats*: records run out, and a seat can pass from
  one controller to a second while a third holds the other; with two records the
  loop over the seats has a first and a last turn.
* *Three events*: a loss and a recovery can both wait while a handler is halfway.
  *Image sizes*: one that 100 divides and one it does not.
* *Two controllers, one record*: the record is given away and taken back while
  answers to its former owner are still under way. Two records that compete for
  the one SDP query are beyond what TLC explores together with their channels;
  the contention does happen here, between a record and the query of its former
  owner.
* *Four answers, three plugs*: an extension is pulled out and plugged in again
  within one set-up, with the answers to both still unread.
* *Ring, transport, reports*: small rings wrap often, and full and empty occur
  at each position; proofs cover every size. *Timers*: three timers have a first,
  a middle and a last place in the list, on both sides of the clock's wrap.

Deadlock is checked except where the system really comes to rest: in
`state_manager` and `roombii` after a successful update, when the loop waits for
a mutex that is never given back until the device restarts, and in the runs of
the set-up, where a behaviour ends when the controller is gone or the list of
timers is damaged.

### Fairness

* State task: strong fairness of its next step. It is created to run for ever,
  and the loop sleeps 50 ms between a give and its next take (`delay(50)` at the
  top of `loop()`); a take that is possible again and again is made.
* Loop's take (`driveTake`, `take` in `Roombii`): strong fairness. After each
  message the state task sleeps 100 ms and after a party it waits for the next
  message, and the loop waits with `portMAX_DELAY`, so it cannot be passed over
  for ever.
* Loop's give, the rest of a pass in `Roombii`, motor task, `Bluepad32::update()`,
  event task, a callback that has begun, the second half of a Bluetooth handler,
  the restart: weak fairness, for code that runs to its end and waits for nothing
  but time. The tasks above the motor task on its core (state, Wi-Fi, LED) sleep
  in each of their turns.
* Transport: weak fairness of a callback of the controller's task that has begun,
  of a call from another task that has begun, and of the run loop. The end of a
  wait by time-out is not part of it: packets must not need a timer to arrive.
* Timers: weak fairness of the run loop and of the clock, none of notifications.
* Connection: each time-out is strongly fair, since the run loop calls it as soon
  as its time has come, whatever else happens in between; the end of a name
  request (HCI has a page time-out) and BTstack's closing of channels that are on
  the way down are weakly fair. Nothing is expected of controllers.
* Set-up of a Switch controller: its timer and the start of the set-up. Set-up of
  a Wii controller: the run loop reads reports and the controller answers
  requests; the code has no timer here other than that of the connection.
* Outgoing reports: BTstack hands out the events it owes and the Bluetooth
  controller goes on accepting and completing packets.
* Nothing is assumed of anything else outside: people, the network, whoever
  uploads, and whoever presses the button owe nothing.

### Disagreements between the code and its comments

Three have a run of their own:

1. `src/state_manager.cpp:193`: "We never give this back. If OTA is successful,
   robot resets robot. If OTA fails, human resets robot." The condition
   `_states.ota > OTA_STATE_UPDATING` holds for `OTA_STATE_SUCCESS` only, since
   `OTA_STATE_ERROR` comes before `OTA_STATE_UPDATING` in the enum. After a
   failed update nothing is locked (`state_ota_comment`).
2. `src/motor_control.cpp:114`: "Wheel values should represent throttle values".
   A throttle may exceed 511 with the stick in a corner; its quarter does not
   fit the `int8_t` and the wheel runs backwards (`steering_full`). Within 457
   in each axis this cannot happen (`SafeStickIsFaithful`).
3. `components/bluepad32/uni_hid_device.c:393`: "Remove the timer. If it was
   still running, it will crash if the handler gets called." That is done for
   `connection_timer`, not for `inquiry_remote_name_timer` in the same record
   (`bt_timer_cleared`).

The modules state others that TLC finds violated when the property named is
added to the run's cfg (those of `SwitchSetup` and `WiiSetup` through
`MCControllerSetup`'s instances `S` and `W`):

* `ClickDances` (`Roombii`): "Short press; dance!" (`src/arduino_main.cpp:78`).
  With a controller connected the pass that handles the click goes on to send a
  drive command, which overwrites the dance. `DanceOnlyGivesWay` is what holds.
* `NoTimerAddedTwice` (`BtConnection`, `SwitchSetup`): `btstack_assert(next !=
  timer)` (`btstack_run_loop.c:97`, compiled out). The name timer is added again
  when the name is asked for again; `setup_timer` when a late SDP answer starts
  the Switch set-up over.
* `NoTimerOutlivesRecord` (`SwitchSetup`): as 3., for `setup_timer`.
* `OwnType` (`BtConnection`): "'d'' is destroyed after this call, don't use it"
  (`uni_bt_sdp.c:219`), but `sdp_device` may be that record; an answer is then
  written into a record that belongs to another controller.
* `ReadyStays` (`BtConnection`): "Only update state if the device is not already
  ready." (`uni_bluetooth.c:963`) is done for names, not for SDP answers.
* `CommandsRun` (`HciTransport`), with two `Commands`: "Safe to call these functions from another task
  and/or CPU" (`uni_bluetooth.h:33`). Two calls before the loop has run share one
  registration and the first command is lost.
* `PacketsWhole` (`HciTransport`), with `EventsInFlight` 3 and `MaxPackets` 4: the check `space < len`
  leaves out the "2 byte len tag" (`btstack_port_esp32.c:83`); a packet that fits
  without its tag breaks the stream.
* `AccelMeansImu` (`SwitchSetup`): "Gamepad using gyro+accel"
  (`uni_hid_parser_switch.c:79`) may have its sensors off, if the device
  information is answered after its time-out.
* `StartsWithA4` (`WiiSetup`): "Start with 0xa40000"
  (`uni_hid_parser_wii.c:1251`). A set-up that starts over keeps the other bank.

## Proofs

All are about the modules that TLC checks, for every value of the constants.
Eight modules hold them, one per component or group of components. In each the
argument is the same: an invariant that is inductive implies the property, and
the work is in what has to be added to the property for it to be inductive. The
invariants below say what that is.

* **StateManagerProofs.** The inductive invariant is `TypeOK /\ LockInv`:
  the loop drives iff it is the mutex's holder, the state task is the holder iff
  the recursion count is positive, and a party implies that it is. The second
  fact is what makes the mixture of plain and recursive calls safe: the loop's
  plain take leaves the count at 0, and the state task's give frees the mutex
  only at its last one. `DrivingIsShutOut` follows at once;
  `UpdateLocksDriving` is inductive relative to it; `UpdateLockIsForever` is a
  step argument from it. `ReportsStayInOrder` strengthens `LastReportWins` to
  `ReportInv`: a subject with messages in the queue has the value last reported
  in the *last* of them. Without "last" an older message could be all that the
  invariant knows of. `LedsAreTruthful` adds that the rainbow is only shown in
  a party. `StateManagerIsAGate` is the refinement of `DriveGate`: every action
  is shown to open, close, lock or use the gate, or to leave it alone.
* **MotionProofs**, of `MotorControl`, `Steering` and their arithmetic.
  `LastCommandIsKept` rests on `CommandInv`: a pending value is the last command;
  without one, a task that is at rest has carried out the last command, and one
  that dances does so because of it. `SafeStickIsFaithful`: with axes within
  -457 .. 457, for all positions and all roundings, the unpacked byte keeps the
  direction and the size of the throttle. The square of a throttle is at most 5/4
  of the square of the larger coordinate (Cauchy-Schwarz on `2y + x`), hence a
  throttle is at most 511, hence its quarter fits. `ManoeuvresAreKept` holds for
  the *whole* stick, the corners where the byte wraps included. Straight ahead or
  back, both wheels truncate the same square, which leaves them one apart at
  most; sideways their numerators are opposite; in a dance the square of the
  throttle is 16256 and some, which leaves its truncation no value but 127.
* **WifiManagerProofs.** `CallbackInv` says at which of the three places of its
  two-call report the Wi-Fi task is (before the first call, before the second,
  done) and what can be in the report there, given that the event task only ever
  writes `IDLE` and 0. The percentage is arithmetic: `p / (total / 100)` is the
  exact one or one more, and at most 100, for images of at least 10000 bytes.
  `GreenIsOnline` and `ServerIsWhereTheAddressIs` argue from the last word: the
  state that the *last* waiting event will report (or the handler that is under
  way, or what was reported) is CONNECTED exactly while the robot is online, and
  the last event about the address that waits, or else the handler under way,
  leaves the server where the address is (`NetworkInv`).
* **GamepadsProofs.** `SeatInv` is what the Bluetooth task keeps: no two ready
  devices share a seat, a ready device's seat is marked, a marked seat has its
  device, the readings in it are that device's, and the number of seats in use is
  the cardinality of those marked. A handler that is cut in two is described
  between its halves (`Seating`, `Clearing`), and `Taken` leaves out the one seat
  that it works on: this is the whole of the argument that the drive loop, which
  reads in between, cannot see a seat that is somebody else's. `LoopInv` is what
  the drive loop keeps: `Told`, the controllers that the application knows of in
  the middle of the notifications, are those marked as connected, and each has
  exactly one slot. Four properties follow: `EverySeatHasItsOwner`,
  `NobodyIsTurnedAway` (by a pigeonhole argument: used seats, ready devices and
  records are counted against each other), `ReadingsAreNotInherited`,
  `SlotsAlwaysMatch`.
* **HciTransportProofs**, of `HciTransport`, `RingBuffer` and `ByteQueue`.
  `NoWakeupIsLost` strengthens `NoLostWakeup` to `WorkIsSeen`, which says for each
  place of the run loop what may be left to do behind its back: a flag set after
  it was tested has its notification pending, given, or about to be given by the
  task that set it. `PacketsLie` says that the ring is a sequence of packets, each
  behind its tag, and that no more of them are under way than the storage was
  sized for: then there is room for one more (`ThereIsRoom`), and what is read at
  the head is a whole packet. `RingIsAQueue`: the bytes between the indices are
  the abstract queue; a write in one chunk or two appends its block, a read in one
  chunk or two takes the oldest bytes, and both return what the queue would.
* **BluetoothTaskProofs** adds `OutgoingReports` and `RunLoopTimers`.
  `ReportsAreAttended` strengthens `NothingStuck` to `Attended`: a record with
  queued reports is waiting for an event, is being served one, or has asked for
  the next. `EveryReportHasOneFate` rests on `FatesInv`: what is sent, queued,
  refused and gone are disjoint sets that make up all reports, and neither the
  sequence of those sent nor the queue repeats one. `TimersKeepTheirTime` is the
  refinement of `TimerService`: as long as all that is pending lies within half a
  turn of the clock, `btstack_time_delta` of two moments is their true distance
  although the clock wraps, so a list in the order of the deltas is one in the
  order of the times, and inserting by delta keeps it (`TimersInv`). `TypesOK` and
  `PacketsIntact`, of the parts of the run together, are `NothingOverruns` and
  `PacketsComeThrough`.
* **ControllerSetupProofs**, of `BtConnection`, `SwitchSetup` and `WiiSetup`. Its
  handlers are functions from the whole state to the next one, so most lemmas say
  what one function does to a state that is sound, and a handler is taken through
  them call by call. `Sound(Now)` is the invariant of the connection: each channel
  belongs to a link, a record's channels are its own controller's and of the right
  kind, seat, state and connection of a record go together, a record without a
  seat has its timer, the query has a timer while it has a device, and the count
  of seats is right. `SwitchInv`: past the request for full reports either the
  controller has them or the request is under way; a ready controller shows its
  LEDs or their request is the last one under way; the timer runs exactly during
  the set-up. `WiiInv`: at most one request that has an answer is under way, that
  answer will fit the state, and what is known so far is true of the controller.
  They give `SeatsAreHonest`, `NoStageIsUntimed`, `ReadyMeansConfigured` and
  `AnswersAreFit`.
* **RoombiiProofs.** `ComponentsAreIntact` is the refinement of both components by
  the firmware: every step of loop, button and tasks is one of the state manager
  or none of its business, and so for the motor task. It needs the state manager's
  own invariant: the reports made inside a pass are within the bound `MaxCalls`
  only because the loop's take leaves the recursion count at 0. Given the
  refinement, the theorems of `StateManagerProofs` and `MotionProofs` are
  instantiated with the firmware's state and hold of it (`PromisesAreKept`).
  `LockedOutIsLockedOut` and `DancesGiveWayToDriversOnly` are about two components
  at once and are step arguments from the same invariant.

Two assumptions came out of the proofs; every instance that TLC checked met them:

* `Recognised` needs a Wii U Pro controller to work with the first of the two
  register banks, which `WiiConstants` now says. The code relies on it: it starts
  with that bank for "all Wii devices, except for the Wii Remote Plus"
  (`uni_hid_parser_wii.c:1251`).
* `ComponentsHold` needs `Reports` to contain what the Bluetooth callbacks report,
  and `MaxCalls` not to be 0 (`RoombiiConstants`); both are about the bounds of
  the model, not about the code.

Assumptions, all named and evaluated by TLC in the runs: `ConstantsAssumption`
(queue length positive, reports natural), `InputsAssumption` and
`AxisAssumption` (ranges of the joystick and of a byte), `TotalsAssumption`
(images of 10000 bytes or more), `ReceivedAssumption`, `MaxEventsAssumption`,
`MaxDevicesAssumption`, `AddressAssumption`, `RingConstants`,
`TransportConstants`, `ReportConstants`, `TimerConstants`, `BtConstants`,
`ParserConstants`, `RoombiiConstants` (sizes positive, sets finite, the clock wide
enough for what is pending). Two theorems have a hypothesis of their own, because
the property is false without it and the code does not guarantee it:
`SafeStickIsFaithful` (axes within `SafeRange`; `steering_full` violates it
outside) and `PacketsComeThrough` (the controller is ahead by no more events than
the storage is sized for; see `PacketsWhole` above).

**Only model-checked**: all liveness (`GateLives`, `ReportsArrive`,
`SilenceSettles`, `EventuallyNoticed`, `StatusSettles`, `FollowsStick`,
`SetupsEnd`, `BecomesReady`, `WorkIsDone`), which needs fairness and ENABLED, out
of TLAPS's reach; and `NoLurch`, which bounds the difference of two quotients with
square roots in the denominators, an argument in real analysis rather than in the
integer arithmetic that the solver does.

## Not modelled

* **OneButton, WS2812FX, Adafruit's motor shield and INA219, ArduinoOTA, the
  network stack**: libraries outside the repository. They appear as what the
  code makes them do. Data races inside them (the LED task and the state task
  use one WS2812FX object, event task and Wi-Fi task one ArduinoOTA) cannot be
  modelled from here.
* **Bump interrupt, battery monitor**: they set variables nothing reads.
* **LED task**: it makes the hardware show what `leds` holds.
* **Boot**: a fixed sequence; its result is `Init`. `setup()` hangs if the
  current sensor is missing.
* **BTstack's protocols and profiles** (HCI, L2CAP, SDP beyond what Bluepad32
  depends on; audio, mesh, file transfer and all of Bluetooth Low Energy):
  nine tenths of the repository's lines, third-party code vendored unchanged,
  most of it not even linked into this firmware.
* **Other Bluepad32 platforms**: not built. **The other HID parsers and the
  decoding of reports**: functions from bytes to a gamepad's fields.
* **Requests from the application to a controller** (LEDs, rumble, colour): the
  application makes none.
* **Console commands**: third-party examples; only their way into the Bluetooth
  task is modelled.
* **Timing**: delays are step boundaries without durations.

## Plan

Every safety property of the runs but `NoLurch` is proved. What is left, in order
of worth:

1. `NoLurch`: a bound on how the truncated square root of `SquaredThrottle` grows
   with each coordinate, by cases on the diagonals.
2. `StateManagerIsAGate` and `TimersKeepTheirTime` in the firmware as a whole, as
   `PromisesAreKept` does it for the invariants.
3. Action properties of the set-up: a seat, once taken, is given up only with its
   connection.
