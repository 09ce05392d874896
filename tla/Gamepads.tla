------------------------------ MODULE Gamepads ------------------------------
(***************************************************************************)
(* How a game controller reaches the drive loop.                           *)
(*                                                                         *)
(* CPU 0 runs the Bluetooth task: it keeps a record per remote device      *)
(* (uni_hid_device.c) and gives every ready device a seat in the shared    *)
(* array _gamepads (uni_platform_arduino.c).  CPU 1 runs the drive loop:   *)
(* Bluepad32::update() copies the seats, finds out which came and went,    *)
(* and calls the application back, which keeps its own list myGamepads and *)
(* reports the Bluetooth status (arduino_main.cpp).  Only the copies of a  *)
(* seat's data are made under a mutex: the seat's idx, its properties and  *)
(* the memset that clears it are not, so the two CPUs interleave between   *)
(* the steps of a handler.                                                 *)
(*                                                                         *)
(* A reading, and the properties of a controller, are represented by the   *)
(* address of the controller they come from, Zero being cleared memory.  A *)
(* copy torn by the unlocked memset mixes a reading with zeros; it counts  *)
(* as a reading of that controller.                                        *)
(***************************************************************************)
EXTENDS Integers, FiniteSets, FiniteSetsExt, Functions

CONSTANTS
  Addresses,               \* Bluetooth addresses of the controllers
  MAX_DEVICES,             \* CONFIG_BLUEPAD32_MAX_DEVICES = BP32_MAX_GAMEPADS
  Zero                     \* cleared data or properties

ASSUME MaxDevicesAssumption == MAX_DEVICES \in Nat \ {0}
ASSUME AddressAssumption == IsFiniteSet(Addresses) /\ Zero \notin Addresses

VARIABLES
  device,                  \* g_devices, by address
  bt,                      \* the handler the Bluetooth task is in the middle of
  seat,                    \* _gamepads of uni_platform_arduino.c
  used,                    \* _used_gamepads
  pad,                     \* Bluepad32::_gamepads, the objects the application sees
  prev,                    \* Bluepad32::_prevConnectedGamepads
  myGamepads,              \* the application's slots
  status,                  \* the Bluetooth state last reported to the state manager
  app                      \* where the drive loop is inside Bluepad32::update()

btVars == <<device, bt, used>>
appVars == <<pad, prev, myGamepads, status, app>>
vars == <<btVars, seat, appVars>>
-----------------------------------------------------------------------------
INVALID == -1              \* UNI_ARDUINO_GAMEPAD_INVALID

Seats == 0 .. MAX_DEVICES - 1

\* The connection states of a device that the handlers below tell apart:
\* no record, being set up, UNI_BT_CONN_STATE_DEVICE_PENDING_READY and
\* UNI_BT_CONN_STATE_DEVICE_READY.
ConnStates == {"none", "setup", "pending", "ready"}

\* A deleted record is all zeros, and so is a new one: its platform data then
\* reads gamepad_idx 0 until the device is connected.
Deleted == [state |-> "none", connected |-> FALSE, gamepad_idx |-> 0]

EmptySeat == [idx |-> INVALID, data |-> Zero, properties |-> Zero]

Present == {a \in Addresses : device[a].state # "none"}

FreeSeats == {i \in Seats : seat[i].idx = INVALID}

Idle == [step |-> "idle", a |-> Zero, i |-> INVALID]

TypeOK ==
  /\ device \in [Addresses -> [state : ConnStates, connected : BOOLEAN, gamepad_idx : Seats \cup {INVALID}]]
  /\ bt \in [step : {"idle", "seating", "clearing"}, a : Addresses \cup {Zero}, i : Seats \cup {INVALID}]
  /\ seat \in [Seats -> [idx : Seats \cup {INVALID}, data : Addresses \cup {Zero}, properties : Addresses \cup {Zero}]]
  /\ used \in 0 .. MAX_DEVICES
  /\ pad \in [Seats -> [connected : BOOLEAN, data : Addresses \cup {Zero}, properties : Addresses \cup {Zero}]]
  /\ prev \subseteq Seats
  /\ myGamepads \in [Seats -> Seats \cup {INVALID}]
  /\ status \in BOOLEAN
  /\ app \in [step : {"idle", "check", "copy", "notify"}, i : Seats, connectedGamepads : SUBSET Seats]

Init ==
  /\ device = [a \in Addresses |-> Deleted]
  /\ bt = Idle
  /\ seat = [i \in Seats |-> EmptySeat]
  /\ used = 0
  /\ pad = [i \in Seats |-> [connected |-> FALSE, data |-> Zero, properties |-> Zero]]
  /\ prev = {}
  /\ myGamepads = [i \in Seats |-> INVALID]
  /\ status = FALSE
  /\ app = [step |-> "idle", i |-> 0, connectedGamepads |-> {}]
-----------------------------------------------------------------------------
(* The Bluetooth task *)

\* A connection request, an inquiry result or an incoming control channel of an
\* unknown address creates a record, if there is one left.
uni_hid_device_create(a) ==
  /\ bt = Idle
  /\ a \notin Present
  /\ Cardinality(Present) < MAX_DEVICES
  /\ device' = [device EXCEPT ![a] = [Deleted EXCEPT !.state = "setup"]]
  /\ UNCHANGED <<bt, seat, used, appVars>>

\* The interrupt channel is open: the device is connected and has no seat.  A
\* ready device is deleted before a second connection of it is accepted.
uni_hid_device_connect(a) ==
  /\ bt = Idle
  /\ device[a].state \in {"setup", "pending"}
  /\ device' = [device EXCEPT ![a] = [state |-> "setup", connected |-> TRUE, gamepad_idx |-> INVALID]]
  /\ UNCHANGED <<bt, seat, used, appVars>>

\* The connection state machine has what it needs (which for an incoming device
\* with a known name may be before its channels are open) and starts the parser.
uni_hid_device_set_ready(a) ==
  /\ bt = Idle
  /\ device[a].state = "setup"
  /\ device' = [device EXCEPT ![a].state = "pending"]
  /\ UNCHANGED <<bt, seat, used, appVars>>

\* Faulty variant: the check of `connected` is missing.
disconnectUnconnected(a) ==
  IF device[a].gamepad_idx # INVALID
  THEN LET i == device[a].gamepad_idx
       IN  /\ used' = used - 1
           /\ seat' = [seat EXCEPT ![i] = [EmptySeat EXCEPT !.idx = 0]]
           /\ bt' = [step |-> "clearing", a |-> a, i |-> i]
           /\ UNCHANGED device
  ELSE /\ device' = [device EXCEPT ![a] = Deleted]
       /\ UNCHANGED <<bt, seat, used>>

\* Faulty variant: the seat is invalidated but not cleared.
disconnectNoMemset(a) ==
  IF device[a].connected /\ device[a].gamepad_idx # INVALID
  THEN LET i == device[a].gamepad_idx
       IN  /\ used' = used - 1
           /\ bt' = [step |-> "clearing", a |-> a, i |-> i]
           /\ UNCHANGED <<seat, device>>
  ELSE /\ device' = [device EXCEPT ![a] = Deleted]
       /\ UNCHANGED <<bt, seat, used>>

\* Faulty variant: the record is deleted without telling the platform.
deleteOnly(a) ==
  /\ device' = [device EXCEPT ![a] = Deleted]
  /\ UNCHANGED <<bt, seat, used>>

\* uni_hid_device_disconnect followed by uni_hid_device_delete.  Only a connected
\* device is reported to the platform, which, if the device has a seat, clears
\* the seat with a memset (its idx reads 0 then) before it invalidates it.
disconnectAndDelete(a) ==
  IF device[a].connected /\ device[a].gamepad_idx # INVALID
  THEN LET i == device[a].gamepad_idx
       IN  /\ used' = used - 1
           /\ seat' = [seat EXCEPT ![i] = [EmptySeat EXCEPT !.idx = 0]]
           /\ bt' = [step |-> "clearing", a |-> a, i |-> i]
           /\ UNCHANGED device
  ELSE /\ device' = [device EXCEPT ![a] = Deleted]
       /\ UNCHANGED <<bt, seat, used>>

\* A channel is closed or fails to open, an SDP query fails, a new connection
\* of a ready device comes in, or the connection timer of a device that is not
\* ready fires.
drop(a) ==
  /\ bt = Idle
  /\ a \in Present
  /\ disconnectAndDelete(a)
  /\ UNCHANGED appVars

\* Faulty variant: the event reaches bluepad32 before L2CAP.
disconnectionCompleteFirst(a) ==
  /\ bt = Idle
  /\ a \in Present
  /\ device' = [device EXCEPT ![a] = Deleted]
  /\ UNCHANGED <<bt, seat, used, appVars>>

\* HCI_EVENT_DISCONNECTION_COMPLETE deletes the record without disconnecting it.
\* BTstack passes the event to L2CAP first, which closes the open channels: a
\* record that is still there belongs to a device that is not connected.
disconnectionComplete(a) ==
  /\ bt = Idle
  /\ a \in Present
  /\ ~ device[a].connected
  /\ device' = [device EXCEPT ![a] = Deleted]
  /\ UNCHANGED <<bt, seat, used, appVars>>

\* The second half of arduino_on_device_disconnected, and the deletion.
seatCleared ==
  /\ bt.step = "clearing"
  /\ seat' = [seat EXCEPT ![bt.i].idx = INVALID]
  /\ device' = [device EXCEPT ![bt.a] = Deleted]
  /\ bt' = Idle
  /\ UNCHANGED <<used, appVars>>

\* The parser is done: the platform seats the device or declines it.  The seat
\* is visible to the loop before its properties are filled in.  Were there no
\* free seat although the count says so, the device would be ready without one.
uni_hid_device_set_ready_complete(a) ==
  /\ bt = Idle
  /\ device[a].state = "pending"
  /\ \/ /\ used = MAX_DEVICES \/ device[a].gamepad_idx # INVALID
        /\ disconnectAndDelete(a)
     \/ /\ used # MAX_DEVICES /\ device[a].gamepad_idx = INVALID
        /\ IF FreeSeats = {}
           THEN /\ device' = [device EXCEPT ![a].state = "ready"]
                /\ UNCHANGED <<bt, seat>>
           ELSE LET i == Min(FreeSeats)
                IN  /\ seat' = [seat EXCEPT ![i].idx = i]
                    /\ bt' = [step |-> "seating", a |-> a, i |-> i]
                    /\ UNCHANGED device
        /\ UNCHANGED used
  /\ UNCHANGED appVars

\* The second half of arduino_on_device_ready.
seatTaken ==
  /\ bt.step = "seating"
  /\ seat' = [seat EXCEPT ![bt.i].properties = bt.a]
  /\ device' = [device EXCEPT ![bt.a].gamepad_idx = bt.i, ![bt.a].state = "ready"]
  /\ used' = used + 1
  /\ bt' = Idle
  /\ UNCHANGED appVars

\* An input report of a ready device is stored in its seat, under the mutex.
arduino_on_gamepad_data(a) ==
  /\ bt = Idle
  /\ device[a].state = "ready"
  /\ device[a].gamepad_idx \in Seats
  /\ seat' = [seat EXCEPT ![device[a].gamepad_idx].data = a]
  /\ UNCHANGED <<btVars, appVars>>

Bluetooth ==
  \/ seatCleared \/ seatTaken
  \/ \E a \in Addresses :
       \/ uni_hid_device_create(a) \/ uni_hid_device_connect(a)
       \/ uni_hid_device_set_ready(a) \/ uni_hid_device_set_ready_complete(a)
       \/ drop(a) \/ disconnectionComplete(a) \/ arduino_on_gamepad_data(a)
-----------------------------------------------------------------------------
(* The drive loop *)

\* The loop has the drive mutex and calls Bluepad32::update().
update ==
  /\ app.step = "idle"
  /\ app' = [step |-> "check", i |-> 0, connectedGamepads |-> {}]
  /\ UNCHANGED <<btVars, seat, pad, prev, myGamepads, status>>

\* Faulty variant: nothing is notified while as many controllers are connected
\* as before.
scannedCounting(connectedGamepads) ==
  IF app.i < MAX_DEVICES - 1
  THEN app' = [step |-> "check", i |-> app.i + 1, connectedGamepads |-> connectedGamepads]
  ELSE app' = [step |-> IF Cardinality(connectedGamepads) = Cardinality(prev) THEN "idle" ELSE "notify",
               i |-> 0, connectedGamepads |-> connectedGamepads]

\* The scan goes on with the next seat.  After the last one update() returns if
\* nothing changed since its last call, and starts notifying otherwise.
scanned(connectedGamepads) ==
  IF app.i < MAX_DEVICES - 1
  THEN app' = [step |-> "check", i |-> app.i + 1, connectedGamepads |-> connectedGamepads]
  ELSE app' = [step |-> IF connectedGamepads = prev THEN "idle" ELSE "notify",
               i |-> 0, connectedGamepads |-> connectedGamepads]

\* arduino_get_gamepad_data looks at the seat's idx without the mutex ...
checkSeat ==
  /\ app.step = "check"
  /\ IF seat[app.i].idx = INVALID
     THEN scanned(app.connectedGamepads)
     ELSE app' = [app EXCEPT !.step = "copy"]
  /\ UNCHANGED <<btVars, seat, pad, prev, myGamepads, status>>

\* ... and copies the seat's data under it.
copySeat ==
  /\ app.step = "copy"
  /\ pad' = [pad EXCEPT ![app.i].data = seat[app.i].data]
  /\ scanned(app.connectedGamepads \cup {app.i})
  /\ UNCHANGED <<btVars, seat, prev, myGamepads, status>>

\* update_bt_controller_status: is a slot filled with a connected controller?
update_bt_controller_status(slots, pads) ==
  status' = \E k \in Seats : slots[k] # INVALID /\ pads[slots[k]].connected

\* Gamepad::onConnected reads the seat's properties, if it is still taken, and
\* onConnectedGamepad puts the controller into the first empty slot, if any.
onConnected(i) ==
  LET empty == {k \in Seats : myGamepads[k] = INVALID}
      properties == IF seat[i].idx = INVALID THEN pad[i].properties ELSE seat[i].properties
  IN  /\ pad' = [pad EXCEPT ![i].connected = TRUE, ![i].properties = properties]
      /\ myGamepads' = IF empty = {} THEN myGamepads ELSE [myGamepads EXCEPT ![Min(empty)] = i]

\* Faulty variant: the slot is not emptied.
onDisconnectedKeepsSlot(i) ==
  /\ pad' = [pad EXCEPT ![i].connected = FALSE]
  /\ UNCHANGED myGamepads

\* onDisconnectedGamepad empties the first slot that holds the controller; only
\* then Gamepad::onDisconnected marks it as disconnected.
onDisconnected(i) ==
  LET found == {k \in Seats : myGamepads[k] = i}
  IN  /\ myGamepads' = IF found = {} THEN myGamepads ELSE [myGamepads EXCEPT ![Min(found)] = INVALID]
      /\ pad' = [pad EXCEPT ![i].connected = FALSE]

\* One turn of the loop that compares the connected seats with those of the last
\* call.  The status is taken after the slots changed and, for a controller that
\* left, before the object is marked as disconnected.
notifySeat ==
  /\ app.step = "notify"
  /\ LET i == app.i
         current == i \in app.connectedGamepads
     IN  \/ /\ current /\ i \notin prev
            /\ onConnected(i)
            /\ update_bt_controller_status(myGamepads', pad')
         \/ /\ ~ current /\ i \in prev
            /\ onDisconnected(i)
            /\ update_bt_controller_status(myGamepads', pad)
         \/ /\ current <=> i \in prev
            /\ UNCHANGED <<pad, myGamepads, status>>
  /\ IF app.i < MAX_DEVICES - 1
     THEN app' = [app EXCEPT !.i = @ + 1] /\ UNCHANGED prev
     ELSE app' = [app EXCEPT !.step = "idle", !.i = 0] /\ prev' = app.connectedGamepads
  /\ UNCHANGED <<btVars, seat>>

Loop == update \/ checkSeat \/ copySeat \/ notifySeat
-----------------------------------------------------------------------------
Next == Bluetooth \/ Loop

\* The Bluetooth task finishes the handlers it starts; the loop runs again every
\* 50 ms while it can get the drive mutex.  What remote devices do is up to them.
Fairness == WF_vars(seatCleared \/ seatTaken) /\ WF_vars(Loop)

Spec == Init /\ [][Next]_vars /\ Fairness
-----------------------------------------------------------------------------
(* Properties *)

\* The devices that own a seat.  A record that was never connected reads 0 in
\* gamepad_idx and owns nothing.
Owners(i) == {a \in Present : device[a].connected /\ device[a].gamepad_idx = i}

\* Between two handlers of the Bluetooth task every seat in use has exactly one
\* owner, a free one has none, and _used_gamepads counts them: neither a device
\* that drops out while it connects nor one that connects again can leave a seat
\* behind or free somebody else's.
SeatsAreOwned ==
  bt = Idle =>
    /\ \A i \in Seats : IF seat[i].idx = INVALID THEN Owners(i) = {}
                        ELSE seat[i].idx = i /\ Cardinality(Owners(i)) = 1
    /\ used = Cardinality(Seats \ FreeSeats)

\* A controller that gets through its set-up always finds a seat: the platform
\* never has to turn one away, nor to call a device ready that has no seat.
NobodyTurnedAway ==
  bt = Idle => \A a \in Present :
    /\ device[a].connected /\ device[a].state # "ready" => used < MAX_DEVICES /\ FreeSeats # {}
    /\ device[a].state = "ready" => device[a].gamepad_idx \in Seats

\* A seat never shows a reading or the properties of anybody but the device that
\* has it: a controller does not start to drive with what another one last sent.
NoInheritedReadings ==
  bt = Idle => \A i \in Seats :
    /\ seat[i].data # Zero => Owners(i) = {seat[i].data}
    /\ seat[i].properties # Zero => Owners(i) = {seat[i].properties}

\* Between two calls of update() the application's slots hold exactly the
\* controllers it was told are connected, each once, and the status it reported
\* says whether there is one.
SlotsMatch ==
  app.step = "idle" =>
    /\ \A i \in Seats : Cardinality({k \in Seats : myGamepads[k] = i}) = IF i \in prev THEN 1 ELSE 0
    /\ \A i \in Seats : pad[i].connected <=> i \in prev
    /\ status <=> prev # {}

\* A controller that stays is in the application's list for good, and one that
\* stays away is not, whatever came and went before.
EventuallyNoticed ==
  \A i \in Seats :
    /\ <>[](seat[i].idx # INVALID) => <>[](i \in Range(myGamepads) /\ status)
    /\ <>[](seat[i].idx = INVALID) => <>[](i \notin Range(myGamepads))
=============================================================================
