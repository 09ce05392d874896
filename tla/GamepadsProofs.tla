--------------------------- MODULE GamepadsProofs ---------------------------
(***************************************************************************)
(* Proofs about Gamepads, for any number of controllers and of seats.      *)
(*                                                                         *)
(* The Bluetooth task and the drive loop share the seats and nothing else, *)
(* and the loop only reads them, so the argument is in two halves.  The    *)
(* first follows a seat through the two handlers that change it in two     *)
(* steps (SeatInv) and counts: a device that is connected and not yet      *)
(* ready holds a record that none of the seated devices has, so records    *)
(* run out before seats do.  The second follows the loop of update() that  *)
(* notifies the application seat by seat (LoopInv).                        *)
(***************************************************************************)
EXTENDS Gamepads, FiniteSetTheorems, TLAPS

\* A set of seats that is not empty has a first one.
LEMMA MinIsMember ==
  ASSUME NEW S, S \subseteq Seats, S # {}
  PROVE  Min(S) \in S
<1> DEFINE R == OpToRel(<, Nat)
<1>1. IsWellFoundedOn(R, Nat)
  BY NatLessThanWellFounded
<1>2. \A x, y \in Nat : <<x, y>> \in R <=> x < y
  BY DEF OpToRel
<1> HIDE DEF R
<1>3. S \subseteq Nat
  BY MaxDevicesAssumption DEF Seats
<1>4. PICK x \in S : \A y \in S : ~ (<<y, x>> \in R)
  BY <1>1, <1>3, WFMin
<1>5. \A y \in S : ~ (y < x)
  BY <1>2, <1>3, <1>4, Zenon
<1>6. \A y \in S : x =< y
  BY <1>3, <1>5
<1> QED BY <1>6, Zenon DEF Min

\* There are MAX_DEVICES seats, and INVALID is none of them.
LEMMA SeatsFacts ==
  /\ IsFiniteSet(Seats) /\ Cardinality(Seats) = MAX_DEVICES
  /\ INVALID \notin Seats /\ 0 \in Seats /\ Seats \subseteq Nat
<1>1. MAX_DEVICES \in Nat /\ MAX_DEVICES > 0
  BY MaxDevicesAssumption
<1>2. IsFiniteSet(Seats) /\ Cardinality(Seats) = MAX_DEVICES
  BY <1>1, FS_Interval DEF Seats
<1> QED BY <1>1, <1>2 DEF Seats, INVALID

\* Adding or removing an element changes a cardinality by at most one.
LEMMA AddRemove ==
  ASSUME NEW S, IsFiniteSet(S), NEW x
  PROVE  /\ Cardinality(S) \in Nat
         /\ Cardinality(S \ {x}) \in Nat /\ Cardinality(S \ {x}) <= Cardinality(S)
         /\ Cardinality(S \cup {x}) \in Nat /\ Cardinality(S \cup {x}) <= Cardinality(S) + 1
         /\ x \in S => Cardinality(S \cup {x}) = Cardinality(S)
<1>1. Cardinality(S) \in Nat
  BY FS_CardinalityType
<1>2. /\ IsFiniteSet(S \ {x})
      /\ Cardinality(S \ {x}) = IF x \in S THEN Cardinality(S) - 1 ELSE Cardinality(S)
  BY FS_RemoveElement
<1>3. /\ IsFiniteSet(S \cup {x})
      /\ Cardinality(S \cup {x}) = IF x \in S THEN Cardinality(S) ELSE Cardinality(S) + 1
  BY FS_AddElement
<1>4. Cardinality(S \ {x}) \in Nat
  BY <1>2, FS_CardinalityType
<1> QED BY <1>1, <1>2, <1>3, <1>4
-----------------------------------------------------------------------------
(* The Bluetooth task *)

DeviceRecord == [state : ConnStates, connected : BOOLEAN, gamepad_idx : Seats \cup {INVALID}]

SeatRecord == [idx : Seats \cup {INVALID}, data : Addresses \cup {Zero}, properties : Addresses \cup {Zero}]

\* The types of what the Bluetooth task owns.
BluetoothTypeOK ==
  /\ device \in [Addresses -> DeviceRecord]
  /\ bt \in [step : {"idle", "seating", "clearing"}, a : Addresses \cup {Zero}, i : Seats \cup {INVALID}]
  /\ seat \in [Seats -> SeatRecord]

\* A device has a seat once it is ready, and INVALID between its connection and
\* then; what a record reads before its connection is 0 and means nothing.
RecordOK(r) ==
  /\ r.state = "none" => r = Deleted
  /\ ~ r.connected => r.state # "ready" /\ r.gamepad_idx = 0
  /\ r.connected => r.gamepad_idx \in IF r.state = "ready" THEN Seats ELSE {INVALID}

Ready == {a \in Addresses : device[a].state = "ready"}

\* The seats in use, but for the one that a handler is in the middle of.
Taken == {i \in Seats : seat[i].idx # INVALID} \ {bt.i}

\* Who has which seat.
Unshared == \A a, b \in Ready : device[a].gamepad_idx = device[b].gamepad_idx => a = b

Marked == \A a \in Ready : seat[device[a].gamepad_idx].idx # INVALID

Owned == \A i \in Taken : seat[i].idx = i /\ \E a \in Ready : device[a].gamepad_idx = i

Own(v, i) == v # Zero => v \in Ready /\ device[v].gamepad_idx = i

OwnReadings == \A i \in Seats : Own(seat[i].data, i) /\ Own(seat[i].properties, i)

Counted == used = Cardinality(Taken) /\ Cardinality(Present) <= MAX_DEVICES

\* The handlers that take two steps, between these.
Seating ==
  /\ bt.step = "seating" /\ bt.a \in Addresses /\ bt.i \in Seats
  /\ device[bt.a] = [state |-> "pending", connected |-> TRUE, gamepad_idx |-> INVALID]
  /\ seat[bt.i] = [EmptySeat EXCEPT !.idx = bt.i]
  /\ \A a \in Ready : device[a].gamepad_idx # bt.i

Clearing ==
  /\ bt.step = "clearing" /\ bt.a \in Addresses /\ bt.i \in Seats
  /\ device[bt.a] = [state |-> "ready", connected |-> TRUE, gamepad_idx |-> bt.i]
  /\ seat[bt.i] = [EmptySeat EXCEPT !.idx = 0]

\* The inductive invariant of the Bluetooth task.
SeatInv ==
  /\ BluetoothTypeOK
  /\ \A a \in Addresses : RecordOK(device[a])
  /\ Unshared /\ Marked /\ Owned /\ OwnReadings
  /\ Counted
  /\ bt = Idle \/ Seating \/ Clearing

\* Nothing is connected at first.
LEMMA InitSeat == Init => SeatInv
<1> SUFFICES ASSUME Init PROVE SeatInv
  OBVIOUS
<1> USE DEF Init
<1>1. BluetoothTypeOK
  BY SeatsFacts DEF BluetoothTypeOK, DeviceRecord, SeatRecord, ConnStates, Deleted, EmptySeat, Idle
<1>2. \A a \in Addresses : RecordOK(device[a])
  BY DEF RecordOK, Deleted
<1>3. Ready = {} /\ Present = {} /\ Taken = {}
  BY DEF Ready, Present, Taken, Deleted, EmptySeat
<1>4. Unshared /\ Marked /\ Owned /\ OwnReadings
  BY <1>3 DEF Unshared, Marked, Owned, OwnReadings, Own, EmptySeat
<1>5. Counted
  BY <1>3, FS_EmptySet, MaxDevicesAssumption DEF Counted
<1> QED BY <1>1, <1>2, <1>4, <1>5 DEF SeatInv

\* The sets that are counted are finite, and the number of taken seats a number.
LEMMA Finite ==
  /\ IsFiniteSet(Present) /\ Cardinality(Present) \in Nat
  /\ IsFiniteSet(Taken) /\ Cardinality(Taken) \in 0 .. MAX_DEVICES
<1>1. Present \in SUBSET Addresses /\ Taken \in SUBSET Seats
  BY DEF Present, Taken
<1>2. IsFiniteSet(Present) /\ IsFiniteSet(Taken) /\ Cardinality(Taken) <= MAX_DEVICES
  BY <1>1, AddressAssumption, SeatsFacts, FS_Subset
<1> QED BY <1>2, FS_CardinalityType, MaxDevicesAssumption

\* As long as some device with a record is not ready, a seat is left: each taken
\* seat belongs to a ready device of its own, and each of these holds a record.
LEMMA SeatsLeft ==
  ASSUME SeatInv, NEW a \in Present, a \notin Ready
  PROVE  Cardinality(Taken) < MAX_DEVICES
<1> DEFINE P == Present \ {a}
           owner == [i \in Taken |-> CHOOSE b \in Ready : device[b].gamepad_idx = i]
<1>1. IsFiniteSet(P) /\ Cardinality(P) = Cardinality(Present) - 1
  BY Finite, FS_RemoveElement
<1>2. \A i \in Taken : owner[i] \in Ready /\ device[owner[i]].gamepad_idx = i
  BY DEF SeatInv, Owned
<1>3. Ready \subseteq P
  BY DEF Ready, Present
<1> HIDE DEF P
<1>4. owner \in [Taken -> P]
  BY <1>2, <1>3
<1> HIDE DEF owner
<1>5. owner \in Injection(Taken, P)
  BY <1>2, <1>4 DEF Injection, IsInjective
<1>6. Cardinality(Taken) <= Cardinality(P)
  BY <1>1, <1>5, FS_Injection
<1> QED BY <1>1, <1>6, Finite, MaxDevicesAssumption DEF SeatInv, Counted

\* In particular there is a free seat between two handlers.
LEMMA FreeSeatLeft ==
  ASSUME SeatInv, bt = Idle, NEW a \in Present, a \notin Ready
  PROVE  used < MAX_DEVICES /\ FreeSeats # {}
<1>1. used < MAX_DEVICES
  BY SeatsLeft DEF SeatInv, Counted
<1>2. SUFFICES ASSUME FreeSeats = {} PROVE FALSE
  BY <1>1
<1>3. Taken = Seats
  BY <1>2, SeatsFacts DEF FreeSeats, Taken, Idle
<1> QED BY <1>3, SeatsLeft, SeatsFacts, MaxDevicesAssumption

\* What the invariant says of the seats and their owners depends on nothing but
\* the ready devices, the seats and the seat that a handler is in the middle of.
LEMMA SameOwners ==
  ASSUME SeatInv, BluetoothTypeOK',
         Ready' = Ready, \A b \in Ready : device'[b] = device[b],
         seat' = seat, bt' = bt
  PROVE  Taken' = Taken /\ Unshared' /\ Marked' /\ Owned' /\ OwnReadings'
<1>1. Taken' = Taken
  BY DEF Taken
<1>2. Unshared' /\ Marked'
  BY DEF SeatInv, Unshared, Marked
<1>3. Owned'
  BY <1>1 DEF SeatInv, Owned
<1>4. OwnReadings'
  BY DEF SeatInv, OwnReadings, Own
<1> QED BY <1>1, <1>2, <1>3, <1>4

\* A handler that changes the record of a device that is not ready, and does not
\* make it ready, keeps the invariant.
LEMMA RecordStep ==
  ASSUME SeatInv, bt = Idle, NEW a \in Addresses, a \notin Ready,
         NEW r \in DeviceRecord, RecordOK(r), r.state # "ready",
         a \in Present \/ Cardinality(Present) < MAX_DEVICES,
         device' = [device EXCEPT ![a] = r], UNCHANGED <<bt, seat, used>>
  PROVE  SeatInv'
<1>1. BluetoothTypeOK'
  BY DEF SeatInv, BluetoothTypeOK
<1>2. device'[a] = r /\ \A b \in Addresses : b # a => device'[b] = device[b]
  BY DEF SeatInv, BluetoothTypeOK
<1>3. \A b \in Addresses : RecordOK(device'[b])
  BY <1>2 DEF SeatInv
<1>4. Ready' = Ready /\ \A b \in Ready : device'[b] = device[b]
  BY <1>2 DEF Ready
<1>5. Taken' = Taken /\ Unshared' /\ Marked' /\ Owned' /\ OwnReadings'
  BY <1>1, <1>4, SameOwners
<1>6. Cardinality(Present') <= MAX_DEVICES
  <2>1. Present' = IF r.state = "none" THEN Present \ {a} ELSE Present \cup {a}
    BY <1>2 DEF Present
  <2> DEFINE n == Cardinality(Present)
             less == Cardinality(Present \ {a})
             more == Cardinality(Present \cup {a})
  <2>2. n <= MAX_DEVICES /\ MAX_DEVICES \in Nat
    BY MaxDevicesAssumption DEF SeatInv, Counted
  <2>3. /\ n \in Nat /\ less \in Nat /\ more \in Nat
        /\ less <= n /\ more <= n + 1
        /\ a \in Present => more = n
    BY Finite, AddRemove
  <2>4. a \in Present \/ n < MAX_DEVICES
    OBVIOUS
  <2>5. Cardinality(Present') \in {less, more}
    BY <2>1
  <2> HIDE DEF n, less, more
  <2> QED BY <2>2, <2>3, <2>4, <2>5
<1>7. Counted'
  BY <1>5, <1>6 DEF SeatInv, Counted
<1> QED BY <1>1, <1>3, <1>5, <1>7 DEF SeatInv, Idle

\* Between two handlers the taken seats are those that are not free.
LEMMA TakenIdle ==
  ASSUME bt = Idle
  PROVE  Taken = Seats \ FreeSeats
BY SeatsFacts DEF Taken, FreeSeats, Idle

\* uni_hid_device_disconnect and uni_hid_device_delete, or the first half of them.
LEMMA DisconnectStep ==
  ASSUME SeatInv, bt = Idle, NEW a \in Present, disconnectAndDelete(a)
  PROVE  SeatInv'
<1>0. a \in Addresses /\ device[a] \in DeviceRecord /\ RecordOK(device[a])
  BY DEF Present, SeatInv, BluetoothTypeOK
<1>1. CASE device[a].connected /\ device[a].gamepad_idx # INVALID
  <2> DEFINE i == device[a].gamepad_idx
  <2>1. a \in Ready /\ i \in Seats /\ device[a].state = "ready"
    BY <1>0, <1>1 DEF RecordOK, Ready
  <2>2. device[a] = [state |-> "ready", connected |-> TRUE, gamepad_idx |-> i]
    BY <1>0, <1>1, <2>1 DEF DeviceRecord
  <2> HIDE DEF i
  <2>3. /\ used' = used - 1 /\ device' = device
        /\ seat' = [seat EXCEPT ![i] = [EmptySeat EXCEPT !.idx = 0]]
        /\ bt' = [step |-> "clearing", a |-> a, i |-> i]
    BY <1>1 DEF disconnectAndDelete, i
  <2>4. BluetoothTypeOK'
    <3>1. [EmptySeat EXCEPT !.idx = 0] \in SeatRecord
      BY SeatsFacts DEF EmptySeat, SeatRecord
    <3>2. seat' \in [Seats -> SeatRecord]
      BY <2>3, <3>1 DEF SeatInv, BluetoothTypeOK
    <3>3. bt' \in [step : {"idle", "seating", "clearing"}, a : Addresses \cup {Zero}, i : Seats \cup {INVALID}]
      BY <2>1, <2>3, <1>0
    <3> QED BY <2>3, <3>2, <3>3 DEF SeatInv, BluetoothTypeOK
  <2>5. /\ seat'[i] = [EmptySeat EXCEPT !.idx = 0]
        /\ \A j \in Seats : j # i => seat'[j] = seat[j]
    BY <2>1, <2>3 DEF SeatInv, BluetoothTypeOK
  <2>6. Ready' = Ready /\ Present' = Present
    BY <2>3 DEF Ready, Present
  <2>7. Taken' = Taken \ {i} /\ i \in Taken
    <3>1. Taken' = {j \in Seats : seat'[j].idx # INVALID} \ {i}
      BY <2>3 DEF Taken
    <3>2. {j \in Seats : seat'[j].idx # INVALID} \ {i} = {j \in Seats : seat[j].idx # INVALID} \ {i}
      BY <2>5
    <3>3. i \in {j \in Seats : seat[j].idx # INVALID}
      BY <2>1 DEF SeatInv, Marked, i
    <3>4. Taken = {j \in Seats : seat[j].idx # INVALID}
      BY SeatsFacts DEF Taken, Idle
    <3> QED BY <3>1, <3>2, <3>3, <3>4
  <2>8. Unshared'
    BY <2>3, <2>6 DEF SeatInv, Unshared
  <2>9. Marked'
    BY <2>1, <2>3, <2>5, <2>6, SeatsFacts DEF SeatInv, Marked, EmptySeat, INVALID, RecordOK, Ready
  <2>10. Owned'
    BY <2>3, <2>5, <2>6, <2>7 DEF SeatInv, Owned, Taken
  <2>11. OwnReadings'
    BY <2>1, <2>3, <2>5, <2>6 DEF SeatInv, OwnReadings, Own, EmptySeat
  <2>12. Counted'
    <3>1. Cardinality(Taken') = Cardinality(Taken) - 1
      BY <2>7, Finite, FS_RemoveElement
    <3> QED BY <3>1, <2>3, <2>6 DEF SeatInv, Counted
  <2>13. Clearing'
    BY <1>0, <2>1, <2>2, <2>3, <2>5 DEF Clearing
  <2>14. \A b \in Addresses : RecordOK(device'[b])
    BY <2>3 DEF SeatInv
  <2> QED BY <2>4, <2>8, <2>9, <2>10, <2>11, <2>12, <2>13, <2>14 DEF SeatInv
<1>2. CASE ~ (device[a].connected /\ device[a].gamepad_idx # INVALID)
  <2>1. device' = [device EXCEPT ![a] = Deleted] /\ UNCHANGED <<bt, seat, used>>
    BY <1>2 DEF disconnectAndDelete
  <2>2. a \notin Ready
    BY <1>0, <1>2, SeatsFacts DEF RecordOK, Ready
  <2>3. Deleted \in DeviceRecord /\ RecordOK(Deleted) /\ Deleted.state # "ready"
    BY SeatsFacts DEF Deleted, DeviceRecord, ConnStates, RecordOK
  <2> QED BY <1>0, <2>1, <2>2, <2>3, RecordStep
<1> QED BY <1>1, <1>2

\* The second half of arduino_on_device_disconnected, and the deletion.
LEMMA SeatClearedStep ==
  ASSUME SeatInv, seatCleared
  PROVE  SeatInv'
<1> DEFINE a == bt.a
           i == bt.i
<1>1. Clearing /\ a \in Addresses /\ i \in Seats
  BY DEF SeatInv, seatCleared, Idle, Seating, Clearing
<1>2. /\ a \in Ready /\ device[a].gamepad_idx = i
      /\ seat[i] = [EmptySeat EXCEPT !.idx = 0]
  BY <1>1 DEF Clearing, Ready
<1>3. /\ seat' = [seat EXCEPT ![i].idx = INVALID]
      /\ device' = [device EXCEPT ![a] = Deleted]
      /\ bt' = Idle /\ used' = used
  BY DEF seatCleared
<1>4. Taken = {j \in Seats : seat[j].idx # INVALID} \ {i}
  BY DEF Taken
<1> HIDE DEF a, i
<1>5. /\ seat'[i] = EmptySeat
      /\ \A j \in Seats : j # i => seat'[j] = seat[j]
  BY <1>1, <1>2, <1>3 DEF SeatInv, BluetoothTypeOK, EmptySeat
<1>6. device'[a] = Deleted /\ \A b \in Addresses : b # a => device'[b] = device[b]
  BY <1>1, <1>3 DEF SeatInv, BluetoothTypeOK
<1>7. BluetoothTypeOK'
  <2>1. Deleted \in DeviceRecord /\ EmptySeat \in SeatRecord
    BY SeatsFacts DEF Deleted, DeviceRecord, ConnStates, EmptySeat, SeatRecord
  <2>2. device' \in [Addresses -> DeviceRecord]
    BY <2>1, <1>3 DEF SeatInv, BluetoothTypeOK
  <2>3. seat' \in [Seats -> SeatRecord]
    BY <2>1, <1>3, <1>5 DEF SeatInv, BluetoothTypeOK
  <2> QED BY <2>2, <2>3, <1>3 DEF BluetoothTypeOK, Idle
<1>8. Ready' = Ready \ {a} /\ Present' = Present \ {a}
  BY <1>1, <1>6 DEF Ready, Present, Deleted
<1>9. Taken' = Taken
  BY <1>3, <1>4, <1>5, SeatsFacts DEF Taken, Idle, EmptySeat
<1>10. \A b \in Addresses : RecordOK(device'[b])
  BY <1>6 DEF SeatInv, RecordOK, Deleted
<1>11. \A b \in Ready : b # a => device[b].gamepad_idx # i
  BY <1>2 DEF SeatInv, Unshared
<1>12. Unshared'
  BY <1>6, <1>8 DEF SeatInv, Unshared, Ready
<1>13. Marked'
  BY <1>5, <1>6, <1>8, <1>11 DEF SeatInv, Marked, Ready, RecordOK
<1>14. Owned'
  <2> SUFFICES ASSUME NEW j \in Taken
               PROVE  seat'[j].idx = j /\ \E b \in Ready \ {a} : device'[b].gamepad_idx = j
    BY <1>8, <1>9 DEF Owned
  <2>1. j \in Seats /\ j # i
    BY <1>4
  <2>2. PICK b \in Ready : device[b].gamepad_idx = j
    BY DEF SeatInv, Owned
  <2>3. b # a /\ b \in Addresses
    BY <2>1, <2>2, <1>2 DEF Ready
  <2> QED BY <2>1, <2>2, <2>3, <1>5, <1>6 DEF SeatInv, Owned
<1>15. OwnReadings'
  <2> SUFFICES ASSUME NEW j \in Seats
               PROVE  Own(seat[j].data, j)' /\ Own(seat[j].properties, j)'
    BY DEF OwnReadings
  <2>1. CASE j = i
    BY <2>1, <1>5 DEF Own, EmptySeat
  <2>2. CASE j # i
    BY <2>2, <1>2, <1>5, <1>6, <1>8 DEF SeatInv, OwnReadings, Own, Ready
  <2> QED BY <2>1, <2>2
<1>16. Counted'
  <2>1. Cardinality(Present') <= Cardinality(Present) /\ Cardinality(Present') \in Nat
    BY <1>8, Finite, AddRemove
  <2> QED BY <2>1, <1>3, <1>9, Finite, MaxDevicesAssumption DEF SeatInv, Counted
<1> QED BY <1>3, <1>7, <1>10, <1>12, <1>13, <1>14, <1>15, <1>16 DEF SeatInv

\* The first half of arduino_on_device_ready: the first free seat is marked.
LEMMA SeatingStep ==
  ASSUME SeatInv, bt = Idle, NEW a \in Addresses,
         device[a].state = "pending", device[a].gamepad_idx = INVALID,
         NEW i \in FreeSeats,
         seat' = [seat EXCEPT ![i].idx = i],
         bt' = [step |-> "seating", a |-> a, i |-> i],
         UNCHANGED <<device, used>>
  PROVE  SeatInv'
<1>1. i \in Seats /\ seat[i].idx = INVALID
  BY DEF FreeSeats
<1>2. /\ seat'[i] = [seat[i] EXCEPT !.idx = i]
      /\ \A j \in Seats : j # i => seat'[j] = seat[j]
  BY <1>1 DEF SeatInv, BluetoothTypeOK
<1>3. BluetoothTypeOK'
  <2>1. seat' \in [Seats -> SeatRecord]
    BY <1>1 DEF SeatInv, BluetoothTypeOK, SeatRecord
  <2>2. bt' \in [step : {"idle", "seating", "clearing"}, a : Addresses \cup {Zero}, i : Seats \cup {INVALID}]
    BY <1>1
  <2> QED BY <2>1, <2>2 DEF SeatInv, BluetoothTypeOK
<1>4. Ready' = Ready /\ Present' = Present
  BY DEF Ready, Present
<1>5. \A b \in Ready : device[b].gamepad_idx # i
  BY <1>1 DEF SeatInv, Marked
<1>6. Taken' = Taken
  BY <1>1, <1>2, SeatsFacts DEF Taken, Idle
<1>7. Unshared'
  BY <1>4 DEF SeatInv, Unshared
<1>8. Marked'
  BY <1>2, <1>4, <1>5 DEF SeatInv, Marked, Ready, RecordOK
<1>9. Owned'
  <2>1. \A j \in Taken : j \in Seats /\ j # i
    BY <1>1 DEF Taken
  <2> QED BY <2>1, <1>2, <1>4, <1>6 DEF SeatInv, Owned
<1>10. seat[i] = EmptySeat
  <2>1. seat[i].data = Zero /\ seat[i].properties = Zero
    BY <1>1, <1>5 DEF SeatInv, OwnReadings, Own
  <2> QED BY <1>1, <2>1 DEF SeatInv, BluetoothTypeOK, SeatRecord, EmptySeat
<1>11. OwnReadings'
  <2> SUFFICES ASSUME NEW j \in Seats
               PROVE  Own(seat[j].data, j)' /\ Own(seat[j].properties, j)'
    BY DEF OwnReadings
  <2>1. CASE j = i
    BY <2>1, <1>2, <1>10 DEF Own, EmptySeat
  <2>2. CASE j # i
    BY <2>2, <1>2, <1>4 DEF SeatInv, OwnReadings, Own
  <2> QED BY <2>1, <2>2
<1>12. Seating'
  <2>1. device[a] = [state |-> "pending", connected |-> TRUE, gamepad_idx |-> INVALID]
    <3>1. device[a] \in DeviceRecord /\ RecordOK(device[a])
      BY DEF SeatInv, BluetoothTypeOK
    <3>2. device[a].connected = TRUE
      BY <3>1 DEF RecordOK, DeviceRecord, INVALID
    <3> QED BY <3>1, <3>2 DEF DeviceRecord
  <2> QED BY <2>1, <1>1, <1>2, <1>4, <1>5, <1>10 DEF Seating
<1>13. Counted' /\ \A b \in Addresses : RecordOK(device'[b])
  BY <1>4, <1>6 DEF SeatInv, Counted
<1> QED BY <1>3, <1>7, <1>8, <1>9, <1>11, <1>12, <1>13 DEF SeatInv

\* The second half of arduino_on_device_ready.
LEMMA SeatTakenStep ==
  ASSUME SeatInv, seatTaken
  PROVE  SeatInv'
<1> DEFINE a == bt.a
           i == bt.i
           r == [state |-> "ready", connected |-> TRUE, gamepad_idx |-> i]
<1>1. Seating /\ a \in Addresses /\ i \in Seats
  BY DEF SeatInv, seatTaken, Idle, Seating, Clearing
<1>2. /\ device[a] = [state |-> "pending", connected |-> TRUE, gamepad_idx |-> INVALID]
      /\ seat[i] = [EmptySeat EXCEPT !.idx = i]
      /\ \A b \in Ready : device[b].gamepad_idx # i
  BY <1>1 DEF Seating
<1>3. /\ seat' = [seat EXCEPT ![i].properties = a]
      /\ device' = [device EXCEPT ![a].gamepad_idx = i, ![a].state = "ready"]
      /\ bt' = Idle /\ used' = used + 1
  BY DEF seatTaken
<1>4. Taken = {j \in Seats : seat[j].idx # INVALID} \ {i}
  BY DEF Taken
<1> HIDE DEF a, i
<1>5. /\ seat'[i] = [idx |-> i, data |-> Zero, properties |-> a]
      /\ \A j \in Seats : j # i => seat'[j] = seat[j]
  BY <1>1, <1>2, <1>3 DEF SeatInv, BluetoothTypeOK, EmptySeat
<1>6. device'[a] = r /\ \A b \in Addresses : b # a => device'[b] = device[b]
  BY <1>1, <1>2, <1>3 DEF SeatInv, BluetoothTypeOK
<1>7. BluetoothTypeOK'
  <2>1. r \in DeviceRecord /\ [idx |-> i, data |-> Zero, properties |-> a] \in SeatRecord
    BY <1>1 DEF DeviceRecord, ConnStates, SeatRecord
  <2>2. device' \in [Addresses -> DeviceRecord]
    BY <2>1, <1>3, <1>6 DEF SeatInv, BluetoothTypeOK
  <2>3. seat' \in [Seats -> SeatRecord]
    BY <2>1, <1>3, <1>5 DEF SeatInv, BluetoothTypeOK
  <2> QED BY <2>2, <2>3, <1>3 DEF BluetoothTypeOK, Idle
<1>8. Ready' = Ready \cup {a} /\ a \notin Ready /\ Present' = Present
  BY <1>1, <1>2, <1>6 DEF Ready, Present
<1>9. Taken' = Taken \cup {i} /\ i \notin Taken
  BY <1>1, <1>3, <1>4, <1>5, SeatsFacts DEF Taken, Idle
<1>10. \A b \in Addresses : RecordOK(device'[b])
  BY <1>1, <1>6 DEF SeatInv, RecordOK
<1>11. \A b \in Ready : b # a /\ b \in Addresses /\ device'[b] = device[b] /\ device'[b].gamepad_idx # i
  BY <1>2, <1>6, <1>8 DEF Ready
<1>12. Unshared'
  BY <1>6, <1>8, <1>11 DEF SeatInv, Unshared
<1>13. Marked'
  BY <1>1, <1>5, <1>6, <1>8, <1>11, SeatsFacts DEF SeatInv, Marked, Ready, RecordOK
<1>14. Owned'
  <2> SUFFICES ASSUME NEW j \in Taken \cup {i}
               PROVE  seat'[j].idx = j /\ \E b \in Ready \cup {a} : device'[b].gamepad_idx = j
    BY <1>8, <1>9 DEF Owned
  <2>1. CASE j = i
    BY <2>1, <1>5, <1>6
  <2>2. CASE j # i
    <3>1. j \in Seats /\ seat'[j] = seat[j] /\ seat[j].idx = j
      BY <2>2, <1>4, <1>5 DEF SeatInv, Owned
    <3>2. \E b \in Ready : device[b].gamepad_idx = j
      BY <2>2 DEF SeatInv, Owned
    <3> QED BY <3>1, <3>2, <1>11
  <2> QED BY <2>1, <2>2
<1>15. OwnReadings'
  <2> SUFFICES ASSUME NEW j \in Seats
               PROVE  Own(seat[j].data, j)' /\ Own(seat[j].properties, j)'
    BY DEF OwnReadings
  <2>1. CASE j = i
    BY <2>1, <1>5, <1>6, <1>8 DEF Own
  <2>2. CASE j # i
    BY <2>2, <1>5, <1>8, <1>11 DEF SeatInv, OwnReadings, Own
  <2> QED BY <2>1, <2>2
<1>16. Counted'
  <2>1. Cardinality(Taken') = Cardinality(Taken) + 1
    BY <1>9, Finite, FS_AddElement
  <2> QED BY <2>1, <1>3, <1>8 DEF SeatInv, Counted
<1> QED BY <1>3, <1>7, <1>10, <1>12, <1>13, <1>14, <1>15, <1>16 DEF SeatInv

\* A reading goes to the seat of the device it comes from.
LEMMA DataStep ==
  ASSUME SeatInv, NEW a \in Addresses, arduino_on_gamepad_data(a)
  PROVE  SeatInv'
<1> DEFINE i == device[a].gamepad_idx
<1>1. /\ bt = Idle /\ a \in Ready /\ i \in Seats
      /\ seat' = [seat EXCEPT ![i].data = a] /\ UNCHANGED <<device, bt, used>>
  BY DEF arduino_on_gamepad_data, btVars, Ready
<1>2. device[a].gamepad_idx = i
  OBVIOUS
<1> HIDE DEF i
<1>3. /\ seat'[i] = [seat[i] EXCEPT !.data = a]
      /\ \A j \in Seats : j # i => seat'[j] = seat[j]
  BY <1>1 DEF SeatInv, BluetoothTypeOK
<1>4. \A j \in Seats : seat'[j].idx = seat[j].idx /\ seat'[j].properties = seat[j].properties
  BY <1>1, <1>3 DEF SeatInv, BluetoothTypeOK, SeatRecord
<1>5. seat' \in [Seats -> SeatRecord]
  BY <1>1 DEF SeatInv, BluetoothTypeOK, SeatRecord
<1>6. BluetoothTypeOK'
  BY <1>1, <1>5 DEF SeatInv, BluetoothTypeOK
<1>7. Ready' = Ready /\ Present' = Present /\ Taken' = Taken
  BY <1>1, <1>4 DEF Ready, Present, Taken
<1>8. Unshared' /\ Owned' /\ Counted' /\ \A b \in Addresses : RecordOK(device'[b])
  <2>1. Unshared' /\ \A b \in Addresses : RecordOK(device'[b])
    BY <1>1, <1>7 DEF SeatInv, Unshared
  <2>2. Owned'
    BY <1>1, <1>4, <1>7 DEF SeatInv, Owned, Taken
  <2>3. Counted'
    BY <1>1, <1>7 DEF SeatInv, Counted
  <2> QED BY <2>1, <2>2, <2>3
<1>9. Marked'
  BY <1>1, <1>4, <1>7 DEF SeatInv, Marked, Ready, RecordOK
<1>10. OwnReadings'
  <2> SUFFICES ASSUME NEW j \in Seats
               PROVE  Own(seat[j].data, j)' /\ Own(seat[j].properties, j)'
    BY DEF OwnReadings
  <2>1. Own(seat[j].properties, j)'
    BY <1>1, <1>4, <1>7 DEF SeatInv, OwnReadings, Own
  <2>2. CASE j = i
    <3>1. seat'[j].data = a
      BY <2>2, <1>1, <1>3 DEF SeatInv, BluetoothTypeOK, SeatRecord
    <3> QED BY <3>1, <2>1, <2>2, <1>1, <1>2, <1>7 DEF Own
  <2>3. CASE j # i
    BY <2>1, <2>3, <1>1, <1>3, <1>7 DEF SeatInv, OwnReadings, Own
  <2> QED BY <2>2, <2>3
<1> QED BY <1>1, <1>6, <1>8, <1>9, <1>10 DEF SeatInv

\* Every step keeps the invariant of the Bluetooth task.
LEMMA NextSeat == SeatInv /\ [Next]_vars => SeatInv'
<1> SUFFICES ASSUME SeatInv, [Next]_vars PROVE SeatInv'
  OBVIOUS
<1>0. \A a \in Addresses : device[a] \in DeviceRecord /\ RecordOK(device[a])
  BY DEF SeatInv, BluetoothTypeOK
<1>1. ASSUME NEW a \in Addresses, uni_hid_device_create(a) PROVE SeatInv'
  <2> DEFINE r == [Deleted EXCEPT !.state = "setup"]
  <2>1. r \in DeviceRecord /\ RecordOK(r) /\ r.state # "ready"
    BY SeatsFacts DEF Deleted, DeviceRecord, ConnStates, RecordOK
  <2>2. a \notin Ready
    BY <1>1 DEF uni_hid_device_create, Present, Ready
  <2> QED BY <1>1, <2>1, <2>2, RecordStep DEF uni_hid_device_create
<1>2. ASSUME NEW a \in Addresses, uni_hid_device_connect(a) PROVE SeatInv'
  <2> DEFINE r == [state |-> "setup", connected |-> TRUE, gamepad_idx |-> INVALID]
  <2>1. r \in DeviceRecord /\ RecordOK(r) /\ r.state # "ready"
    BY DEF DeviceRecord, ConnStates, RecordOK
  <2>2. a \notin Ready /\ a \in Present
    BY <1>2 DEF uni_hid_device_connect, Present, Ready
  <2> QED BY <1>2, <2>1, <2>2, RecordStep DEF uni_hid_device_connect
<1>3. ASSUME NEW a \in Addresses, uni_hid_device_set_ready(a) PROVE SeatInv'
  <2> DEFINE r == [device[a] EXCEPT !.state = "pending"]
  <2>1. r \in DeviceRecord /\ RecordOK(r) /\ r.state # "ready"
    BY <1>0, <1>3 DEF uni_hid_device_set_ready, DeviceRecord, ConnStates, RecordOK
  <2>2. a \notin Ready /\ a \in Present
    BY <1>3 DEF uni_hid_device_set_ready, Present, Ready
  <2>3. device' = [device EXCEPT ![a] = r] /\ bt = Idle /\ UNCHANGED <<bt, seat, used>>
    BY <1>3 DEF uni_hid_device_set_ready
  <2> QED BY <2>1, <2>2, <2>3, RecordStep
<1>4. ASSUME NEW a \in Addresses, drop(a) PROVE SeatInv'
  BY <1>4, DisconnectStep DEF drop
<1>5. ASSUME NEW a \in Addresses, disconnectionComplete(a) PROVE SeatInv'
  <2>1. Deleted \in DeviceRecord /\ RecordOK(Deleted) /\ Deleted.state # "ready"
    BY SeatsFacts DEF Deleted, DeviceRecord, ConnStates, RecordOK
  <2>2. a \notin Ready /\ a \in Present
    BY <1>0, <1>5 DEF disconnectionComplete, RecordOK, Ready
  <2> QED BY <1>5, <2>1, <2>2, RecordStep DEF disconnectionComplete
<1>6. ASSUME NEW a \in Addresses, uni_hid_device_set_ready_complete(a) PROVE SeatInv'
  <2>1. bt = Idle /\ device[a].state = "pending" /\ a \in Present /\ a \notin Ready
    BY <1>6 DEF uni_hid_device_set_ready_complete, Present, Ready
  <2>2. CASE disconnectAndDelete(a)
    BY <2>1, <2>2, DisconnectStep
  <2>3. CASE ~ disconnectAndDelete(a)
    <3>1. FreeSeats # {}
      BY <2>1, FreeSeatLeft
    <3> DEFINE i == Min(FreeSeats)
    <3>2. i \in FreeSeats
      BY <3>1, MinIsMember DEF FreeSeats
    <3> HIDE DEF i
    <3>3. /\ device[a].gamepad_idx = INVALID
          /\ seat' = [seat EXCEPT ![i].idx = i]
          /\ bt' = [step |-> "seating", a |-> a, i |-> i]
          /\ UNCHANGED <<device, used>>
      BY <1>6, <2>3, <3>1 DEF uni_hid_device_set_ready_complete, i
    <3> QED BY <2>1, <3>2, <3>3, SeatingStep
  <2> QED BY <2>2, <2>3
<1>7. CASE Loop \/ UNCHANGED vars
  <2>1. UNCHANGED <<device, bt, used, seat>>
    BY <1>7 DEF Loop, update, checkSeat, copySeat, notifySeat, vars, btVars
  <2>2. BluetoothTypeOK' /\ Ready' = Ready /\ Present' = Present
    BY <2>1 DEF SeatInv, BluetoothTypeOK, Ready, Present
  <2>3. Taken' = Taken /\ Unshared' /\ Marked' /\ Owned' /\ OwnReadings'
    BY <2>1, <2>2, SameOwners
  <2> QED BY <2>1, <2>2, <2>3 DEF SeatInv, Counted, Seating, Clearing
<1> QED
  BY <1>1, <1>2, <1>3, <1>4, <1>5, <1>6, <1>7, SeatClearedStep, SeatTakenStep, DataStep
  DEF Next, Bluetooth

\* The invariant of the Bluetooth task holds throughout.
LEMMA SeatInvariant == Spec => []SeatInv
BY InitSeat, NextSeat, PTL DEF Spec

\* The owners of a seat are the ready devices that have it.
LEMMA OwnersAreReady ==
  ASSUME SeatInv, NEW i \in Seats
  PROVE  Owners(i) = {a \in Ready : device[a].gamepad_idx = i}
BY SeatsFacts DEF SeatInv, BluetoothTypeOK, DeviceRecord, RecordOK, Owners, Ready, Present

\* Whatever order controllers connect, drop out and reconnect in, between two
\* handlers every seat in use has exactly one owner, a free one none, and
\* _used_gamepads is their number.
THEOREM EverySeatHasItsOwner == Spec => []SeatsAreOwned
<1>1. ASSUME SeatInv PROVE SeatsAreOwned
  <2> SUFFICES ASSUME bt = Idle
               PROVE  /\ \A i \in Seats : IF seat[i].idx = INVALID THEN Owners(i) = {}
                                          ELSE seat[i].idx = i /\ Cardinality(Owners(i)) = 1
                      /\ used = Cardinality(Seats \ FreeSeats)
    BY DEF SeatsAreOwned
  <2>1. Taken = Seats \ FreeSeats
    BY TakenIdle
  <2>2. ASSUME NEW i \in Seats, seat[i].idx = INVALID PROVE Owners(i) = {}
    BY <1>1, <2>2, OwnersAreReady DEF SeatInv, Marked
  <2>3. ASSUME NEW i \in Seats, seat[i].idx # INVALID
        PROVE  seat[i].idx = i /\ Cardinality(Owners(i)) = 1
    <3>1. i \in Taken
      BY <2>1, <2>3 DEF FreeSeats
    <3>2. PICK a \in Ready : device[a].gamepad_idx = i
      BY <1>1, <3>1 DEF SeatInv, Owned
    <3>3. Owners(i) = {a}
      BY <1>1, <3>2, OwnersAreReady DEF SeatInv, Unshared
    <3> QED BY <1>1, <3>1, <3>3, FS_Singleton DEF SeatInv, Owned
  <2> QED BY <1>1, <2>1, <2>2, <2>3 DEF SeatInv, Counted
<1> QED BY <1>1, SeatInvariant, PTL

\* However many controllers there are, one that is connected always finds a seat,
\* and a device that is ready has one.
THEOREM NobodyIsTurnedAway == Spec => []NobodyTurnedAway
<1>1. ASSUME SeatInv PROVE NobodyTurnedAway
  <2> SUFFICES ASSUME bt = Idle, NEW a \in Present
               PROVE  /\ device[a].connected /\ device[a].state # "ready" => used < MAX_DEVICES /\ FreeSeats # {}
                      /\ device[a].state = "ready" => device[a].gamepad_idx \in Seats
    BY DEF NobodyTurnedAway
  <2>1. device[a].state # "ready" => used < MAX_DEVICES /\ FreeSeats # {}
    BY <1>1, FreeSeatLeft DEF Ready
  <2>2. a \in Addresses /\ RecordOK(device[a])
    BY <1>1 DEF SeatInv, Present
  <2> QED BY <2>1, <2>2 DEF RecordOK
<1> QED BY <1>1, SeatInvariant, PTL

\* A seat never shows a reading or the properties of a controller that has left,
\* although the seat is cleared without the mutex and handed on.
THEOREM ReadingsAreNotInherited == Spec => []NoInheritedReadings
<1>1. ASSUME SeatInv PROVE NoInheritedReadings
  <2> SUFFICES ASSUME NEW i \in Seats, NEW v, v # Zero, Own(v, i) PROVE Owners(i) = {v}
    BY <1>1 DEF NoInheritedReadings, SeatInv, OwnReadings
  <2> QED BY <1>1, OwnersAreReady DEF Own, SeatInv, Unshared
<1> QED BY <1>1, SeatInvariant, PTL
-----------------------------------------------------------------------------
(* The drive loop *)

PadRecord == [connected : BOOLEAN, data : Addresses \cup {Zero}, properties : Addresses \cup {Zero}]

\* The types of what the drive loop owns.
LoopTypeOK ==
  /\ pad \in [Seats -> PadRecord]
  /\ prev \subseteq Seats
  /\ myGamepads \in [Seats -> Seats \cup {INVALID}]
  /\ status \in BOOLEAN
  /\ app \in [step : {"idle", "check", "copy", "notify"}, i : Seats, connectedGamepads : SUBSET Seats]

\* The controllers the application has been told are connected: in the middle of
\* the notifications the seats before app.i are up to date and the others are not.
Told == {i \in Seats : i \in IF app.step = "notify" /\ i < app.i THEN app.connectedGamepads ELSE prev}

\* The controllers whose objects are marked as connected.
Connected == {i \in Seats : pad[i].connected}

\* Every connected controller has one slot, and no other has any.
Filled == \A k \in Seats : myGamepads[k] # INVALID => myGamepads[k] \in Connected

Listed == \A i \in Connected : \E k \in Seats : myGamepads[k] = i

Once == \A j, k \in Seats : myGamepads[j] = myGamepads[k] /\ myGamepads[j] # INVALID => j = k

\* The inductive invariant of the drive loop.
LoopInv ==
  /\ LoopTypeOK
  /\ Connected = Told
  /\ Filled /\ Listed /\ Once
  /\ status <=> Connected # {}

\* Nobody has been announced at first.
LEMMA InitLoop == Init => LoopInv
<1> SUFFICES ASSUME Init PROVE LoopInv
  OBVIOUS
<1> USE DEF Init
<1>1. LoopTypeOK
  BY SeatsFacts DEF LoopTypeOK, PadRecord
<1>2. Connected = {} /\ Told = {}
  BY DEF Connected, Told
<1> QED BY <1>1, <1>2 DEF LoopInv, Filled, Listed, Once

\* With a controller that is not connected there is an empty slot.
LEMMA EmptySlot ==
  ASSUME LoopInv, NEW i \in Seats, i \notin Connected
  PROVE  {k \in Seats : myGamepads[k] = INVALID} # {}
<1> SUFFICES ASSUME \A k \in Seats : myGamepads[k] # INVALID PROVE FALSE
  OBVIOUS
<1> DEFINE T == Seats \ {i}
<1>1. IsFiniteSet(T) /\ Cardinality(T) = MAX_DEVICES - 1
  BY SeatsFacts, FS_RemoveElement
<1>2. myGamepads \in [Seats -> Seats \cup {INVALID}]
  BY DEF LoopInv, LoopTypeOK
<1>3. \A k \in Seats : myGamepads[k] \in T
  BY <1>2 DEF LoopInv, Filled, Connected
<1> HIDE DEF T
<1>4. myGamepads \in [Seats -> T]
  BY <1>2, <1>3
<1>5. Cardinality(T) < Cardinality(Seats)
  BY <1>1, SeatsFacts, MaxDevicesAssumption
<1>6. \E j, k \in Seats : j # k /\ myGamepads[j] = myGamepads[k]
  BY <1>1, <1>4, <1>5, SeatsFacts, FS_PigeonHole
<1> QED BY <1>6 DEF LoopInv, Once

\* The end of a turn of the notification loop: if the turn has brought seat app.i
\* up to date, the next turn, or the next call of update(), starts from there.
LEMMA TurnEnds ==
  ASSUME LoopInv, app.step = "notify", notifySeat,
         Connected' = (Connected \ {app.i}) \cup (app.connectedGamepads \cap {app.i})
  PROVE  Connected' = Told' /\ prev' \subseteq Seats
         /\ app' \in [step : {"idle", "check", "copy", "notify"}, i : Seats, connectedGamepads : SUBSET Seats]
<1> DEFINE n == app.i
           c == app.connectedGamepads
<1>1. n \in Seats /\ c \subseteq Seats /\ prev \subseteq Seats
  BY DEF LoopInv, LoopTypeOK
<1>2. \A i \in Seats : i \in Told <=> IF i < n THEN i \in c ELSE i \in prev
  BY DEF Told
<1>3. Connected = Told
  BY DEF LoopInv
<1>4. Connected' = (Told \ {n}) \cup (c \cap {n})
  BY <1>3
<1>5. \A i \in Seats : i \in Connected' <=> IF i < n \/ i = n THEN i \in c ELSE i \in prev
  <2> SUFFICES ASSUME NEW i \in Seats
               PROVE  i \in Connected' <=> IF i < n \/ i = n THEN i \in c ELSE i \in prev
    OBVIOUS
  <2>1. CASE i = n
    BY <2>1, <1>4
  <2>2. CASE i # n
    BY <2>2, <1>2, <1>4
  <2> QED BY <2>1, <2>2
<1>6. Connected' \subseteq Seats
  BY DEF Connected
<1>7. app \in [step : {"idle", "check", "copy", "notify"}, i : Seats, connectedGamepads : SUBSET Seats]
  BY DEF LoopInv, LoopTypeOK
<1>8. MAX_DEVICES \in Nat
  BY MaxDevicesAssumption
<1>9. CASE app.i < MAX_DEVICES - 1
  <2>1. app' = [app EXCEPT !.i = n + 1] /\ prev' = prev
    BY <1>9 DEF notifySeat
  <2>2. n + 1 \in Seats
    BY <1>1, <1>8, <1>9 DEF Seats
  <2>3. app'.step = "notify" /\ app'.i = n + 1 /\ app'.connectedGamepads = c
    BY <2>1, <1>7
  <2> HIDE DEF n, c
  <2>4. \A i \in Seats : i < n + 1 <=> i < n \/ i = n
    BY <1>1, SeatsFacts
  <2>5. \A i \in Seats : i \in Told' <=> i \in Connected'
    BY <2>1, <2>3, <2>4, <1>5 DEF Told
  <2>6. Told' = Connected'
    BY <2>5, <1>6 DEF Told
  <2> QED BY <2>1, <2>2, <2>6, <1>1, <1>7
<1>10. CASE ~ app.i < MAX_DEVICES - 1
  <2>1. app' = [app EXCEPT !.step = "idle", !.i = 0] /\ prev' = c
    BY <1>10 DEF notifySeat
  <2>2. app'.step = "idle"
    BY <2>1, <1>7
  <2>3. Told' = c
    BY <2>1, <2>2, <1>1 DEF Told
  <2>4. \A i \in Seats : i < n \/ i = n
    BY <1>1, <1>8, <1>10 DEF Seats
  <2> HIDE DEF n, c
  <2>5. Connected' = c
    BY <2>4, <1>1, <1>5, <1>6
  <2> QED BY <2>1, <2>3, <2>5, <1>1, <1>7, SeatsFacts
<1> QED BY <1>9, <1>10

\* One turn of the loop that notifies.
LEMMA NotifyStep ==
  ASSUME LoopInv, BluetoothTypeOK, notifySeat
  PROVE  LoopInv'
<1> DEFINE i == app.i
           c == app.connectedGamepads
<1>1. /\ app.step = "notify" /\ i \in Seats /\ c \subseteq Seats
      /\ pad \in [Seats -> PadRecord] /\ myGamepads \in [Seats -> Seats \cup {INVALID}]
  BY DEF LoopInv, LoopTypeOK, notifySeat
<1>2. i \in Connected <=> i \in prev
  <2>1. \A j \in Seats : ~ (j < j)
    BY SeatsFacts
  <2> HIDE DEF i
  <2>2. i \in Told <=> i \in prev
    BY <2>1, <1>1 DEF Told, i
  <2> QED BY <2>2 DEF LoopInv
<1>3. CASE i \in c /\ i \notin prev
  <2> DEFINE empty == {k \in Seats : myGamepads[k] = INVALID}
             properties == IF seat[i].idx = INVALID THEN pad[i].properties ELSE seat[i].properties
             m == Min(empty)
  <2>1. empty # {}
    BY <1>1, <1>2, <1>3, EmptySlot
  <2>2. m \in Seats /\ myGamepads[m] = INVALID
    BY <2>1, MinIsMember
  <2>3. /\ pad' = [pad EXCEPT ![i].connected = TRUE, ![i].properties = properties]
        /\ myGamepads' = [myGamepads EXCEPT ![m] = i]
        /\ status' = \E k \in Seats : myGamepads'[k] # INVALID /\ pad'[myGamepads'[k]].connected
    BY <1>3, <2>1 DEF notifySeat, onConnected, update_bt_controller_status
  <2>4. properties \in Addresses \cup {Zero}
    BY <1>1 DEF BluetoothTypeOK, SeatRecord, PadRecord
  <2> HIDE DEF empty, properties, m
  <2>5. pad' \in [Seats -> PadRecord] /\ pad'[i].connected = TRUE
        /\ \A j \in Seats : j # i => pad'[j] = pad[j]
    BY <1>1, <2>3, <2>4 DEF PadRecord
  <2>6. myGamepads' \in [Seats -> Seats \cup {INVALID}] /\ myGamepads'[m] = i
        /\ \A k \in Seats : k # m => myGamepads'[k] = myGamepads[k]
    BY <1>1, <2>2, <2>3
  <2>7. Connected' = Connected \cup {i}
    BY <1>1, <2>5 DEF Connected
  <2>8. Filled' /\ Listed' /\ Once'
    <3>1. Filled'
      BY <2>6, <2>7 DEF LoopInv, Filled
    <3>2. Listed'
      BY <2>2, <2>6, <2>7, SeatsFacts DEF LoopInv, Listed, Connected
    <3>3. \A k \in Seats : myGamepads[k] # i
      BY <1>1, <1>2, <1>3, SeatsFacts DEF LoopInv, Filled
    <3>4. Once'
      BY <2>2, <2>6, <3>3 DEF LoopInv, Once
    <3> QED BY <3>1, <3>2, <3>4
  <2>9. status' = TRUE
    BY <1>1, <2>2, <2>3, <2>5, <2>6, SeatsFacts
  <2>10. Connected' = (Connected \ {i}) \cup (c \cap {i})
    BY <1>3, <2>7
  <2>11. Connected' = Told' /\ prev' \subseteq Seats
         /\ app' \in [step : {"idle", "check", "copy", "notify"}, i : Seats, connectedGamepads : SUBSET Seats]
    BY <1>1, <2>10, TurnEnds
  <2> QED BY <2>5, <2>6, <2>7, <2>8, <2>9, <2>11 DEF LoopInv, LoopTypeOK
<1>4. CASE i \notin c /\ i \in prev
  <2> DEFINE found == {k \in Seats : myGamepads[k] = i}
             m == Min(found)
  <2>1. found # {}
    BY <1>1, <1>2, <1>4 DEF LoopInv, Listed
  <2>2. m \in Seats /\ myGamepads[m] = i
    BY <2>1, MinIsMember
  <2>3. /\ pad' = [pad EXCEPT ![i].connected = FALSE]
        /\ myGamepads' = [myGamepads EXCEPT ![m] = INVALID]
        /\ status' = \E k \in Seats : myGamepads'[k] # INVALID /\ pad[myGamepads'[k]].connected
    BY <1>4, <2>1 DEF notifySeat, onDisconnected, update_bt_controller_status
  <2> HIDE DEF found, m
  <2>4. pad' \in [Seats -> PadRecord] /\ pad'[i].connected = FALSE
        /\ \A j \in Seats : j # i => pad'[j] = pad[j]
    BY <1>1, <2>3 DEF PadRecord
  <2>5. myGamepads' \in [Seats -> Seats \cup {INVALID}] /\ myGamepads'[m] = INVALID
        /\ \A k \in Seats : k # m => myGamepads'[k] = myGamepads[k]
    BY <1>1, <2>2, <2>3
  <2>6. Connected' = Connected \ {i}
    BY <1>1, <2>4 DEF Connected
  <2>7. \A k \in Seats : k # m => myGamepads[k] # i
    BY <1>1, <2>2, SeatsFacts DEF LoopInv, Once
  <2>8. Filled' /\ Listed' /\ Once'
    <3>1. Filled'
      BY <2>5, <2>6, <2>7 DEF LoopInv, Filled
    <3>2. Listed'
      BY <2>2, <2>5, <2>6 DEF LoopInv, Listed
    <3>3. Once'
      BY <2>5 DEF LoopInv, Once
    <3> QED BY <3>1, <3>2, <3>3
  <2>9. status' <=> Connected' # {}
    <3>1. ASSUME NEW k \in Seats, myGamepads'[k] # INVALID PROVE Connected' # {} /\ status'
      <4>1. myGamepads'[k] \in Connected'
        BY <3>1, <2>8 DEF Filled
      <4>2. pad[myGamepads'[k]].connected
        BY <4>1, <2>6 DEF Connected
      <4> QED BY <4>1, <4>2, <3>1, <2>3
    <3>2. ASSUME NEW j \in Connected' PROVE \E k \in Seats : myGamepads'[k] # INVALID
      BY <2>8, SeatsFacts DEF Listed, Connected
    <3> QED BY <3>1, <3>2, <2>3
  <2>10. Connected' = (Connected \ {i}) \cup (c \cap {i})
    BY <1>4, <2>6
  <2>11. Connected' = Told' /\ prev' \subseteq Seats
         /\ app' \in [step : {"idle", "check", "copy", "notify"}, i : Seats, connectedGamepads : SUBSET Seats]
    BY <1>1, <2>10, TurnEnds
  <2>12. status' \in BOOLEAN
    BY <2>3
  <2> QED BY <2>4, <2>5, <2>8, <2>9, <2>11, <2>12 DEF LoopInv, LoopTypeOK
<1>5. CASE i \in c <=> i \in prev
  <2>1. UNCHANGED <<pad, myGamepads, status>>
    BY <1>5 DEF notifySeat
  <2>2. Connected' = Connected
    BY <2>1 DEF Connected
  <2>3. Connected' = (Connected \ {i}) \cup (c \cap {i})
    BY <1>2, <1>5, <2>2
  <2>4. Connected' = Told' /\ prev' \subseteq Seats
         /\ app' \in [step : {"idle", "check", "copy", "notify"}, i : Seats, connectedGamepads : SUBSET Seats]
    BY <1>1, <2>3, TurnEnds
  <2> QED BY <2>1, <2>2, <2>4 DEF LoopInv, LoopTypeOK, Filled, Listed, Once
<1> QED BY <1>3, <1>4, <1>5

\* The scan looks at the next seat, returns or starts to notify.
LEMMA ScanStep ==
  ASSUME LoopTypeOK, app.step \in {"check", "copy"}, NEW c \in SUBSET Seats, scanned(c)
  PROVE  /\ app' \in [step : {"idle", "check", "copy", "notify"}, i : Seats, connectedGamepads : SUBSET Seats]
         /\ app'.step = "notify" => app'.i = 0
<1>1. app.i \in Seats /\ 0 \in Seats
  BY SeatsFacts DEF LoopTypeOK
<1>2. CASE app.i < MAX_DEVICES - 1
  <2>1. app' = [step |-> "check", i |-> app.i + 1, connectedGamepads |-> c]
    BY <1>2 DEF scanned
  <2>2. app.i + 1 \in Seats
    BY <1>1, <1>2, MaxDevicesAssumption DEF Seats
  <2> QED BY <2>1, <2>2
<1>3. CASE ~ (app.i < MAX_DEVICES - 1)
  <2>1. \E s \in {"idle", "notify"} : app' = [step |-> s, i |-> 0, connectedGamepads |-> c]
    BY <1>3 DEF scanned
  <2> QED BY <1>1, <2>1
<1> QED BY <1>2, <1>3

\* Every step keeps the invariant of the drive loop.
LEMMA NextLoop == LoopInv /\ BluetoothTypeOK /\ [Next]_vars => LoopInv'
<1> SUFFICES ASSUME LoopInv, BluetoothTypeOK, [Next]_vars PROVE LoopInv'
  OBVIOUS
<1> DEFINE AppType == [step : {"idle", "check", "copy", "notify"}, i : Seats, connectedGamepads : SUBSET Seats]
\* A step that notifies nobody leaves the application where it was.
<1>1. ASSUME UNCHANGED <<prev, myGamepads, status>>, pad' \in [Seats -> PadRecord],
             \A i \in Seats : pad'[i].connected = pad[i].connected,
             app' \in AppType, app.step # "notify", app'.step = "notify" => app'.i = 0
      PROVE  LoopInv'
  <2>1. Connected' = Connected
    BY <1>1 DEF Connected
  <2>2. Told = prev
    BY <1>1 DEF Told, LoopInv, LoopTypeOK
  <2>3. Told' = prev
    <3>1. \A i \in Seats : ~ (i < 0)
      BY SeatsFacts
    <3> QED BY <1>1, <3>1 DEF Told, LoopInv, LoopTypeOK
  <2> QED BY <1>1, <2>1, <2>2, <2>3 DEF LoopInv, LoopTypeOK, Filled, Listed, Once
<1>2. CASE update
  BY <1>1, <1>2, SeatsFacts DEF update, LoopInv, LoopTypeOK
<1>3. CASE checkSeat
  <2>1. CASE seat[app.i].idx = INVALID
    <3>1. scanned(app.connectedGamepads) /\ app.connectedGamepads \in SUBSET Seats /\ app.step = "check"
      BY <1>3, <2>1 DEF checkSeat, LoopInv, LoopTypeOK
    <3>2. app' \in AppType /\ (app'.step = "notify" => app'.i = 0)
      BY <3>1, ScanStep DEF LoopInv
    <3> QED BY <1>1, <1>3, <3>1, <3>2 DEF checkSeat, LoopInv, LoopTypeOK
  <2>2. CASE seat[app.i].idx # INVALID
    <3>1. app.step = "check" /\ app' = [app EXCEPT !.step = "copy"]
      BY <1>3, <2>2 DEF checkSeat
    <3>2. app' \in AppType /\ app'.step = "copy"
      BY <3>1 DEF LoopInv, LoopTypeOK
    <3> QED BY <1>1, <1>3, <3>1, <3>2 DEF checkSeat, LoopInv, LoopTypeOK
  <2> QED BY <2>1, <2>2
<1>4. CASE copySeat
  <2>1. /\ app.step = "copy" /\ scanned(app.connectedGamepads \cup {app.i})
        /\ app.connectedGamepads \cup {app.i} \in SUBSET Seats
    BY <1>4 DEF copySeat, LoopInv, LoopTypeOK
  <2>2. app' \in AppType /\ (app'.step = "notify" => app'.i = 0)
    BY <2>1, ScanStep DEF LoopInv
  <2>3. pad' = [pad EXCEPT ![app.i].data = seat[app.i].data] /\ app.i \in Seats
        /\ seat[app.i].data \in Addresses \cup {Zero}
    BY <1>4 DEF copySeat, LoopInv, LoopTypeOK, BluetoothTypeOK, SeatRecord
  <2>4. pad' \in [Seats -> PadRecord] /\ \A i \in Seats : pad'[i].connected = pad[i].connected
    BY <2>3 DEF LoopInv, LoopTypeOK, PadRecord
  <2> QED BY <1>1, <1>4, <2>1, <2>2, <2>4 DEF copySeat
<1>5. CASE notifySeat
  BY <1>5, NotifyStep
<1>6. CASE Bluetooth \/ UNCHANGED vars
  <2>1. UNCHANGED <<pad, prev, myGamepads, status, app>>
    BY <1>6 DEF Bluetooth, seatCleared, seatTaken, uni_hid_device_create, uni_hid_device_connect,
                uni_hid_device_set_ready, uni_hid_device_set_ready_complete, drop,
                disconnectionComplete, arduino_on_gamepad_data, vars, appVars
  <2> QED BY <2>1 DEF LoopInv, LoopTypeOK, Connected, Told, Filled, Listed, Once
<1> QED BY <1>2, <1>3, <1>4, <1>5, <1>6 DEF Next, Loop

\* The invariant of the drive loop holds throughout.
LEMMA LoopInvariant == Spec => []LoopInv
<1>1. SeatInv => BluetoothTypeOK
  BY DEF SeatInv
<1> QED BY <1>1, InitLoop, NextLoop, SeatInvariant, PTL DEF Spec

\* Between two calls of update() the application's slots, the objects it sees and
\* the status it reported agree, however the seats changed under the scan.
THEOREM SlotsAlwaysMatch == Spec => []SlotsMatch
<1>1. ASSUME LoopInv PROVE SlotsMatch
  <2> SUFFICES ASSUME app.step = "idle"
               PROVE  /\ \A i \in Seats : Cardinality({k \in Seats : myGamepads[k] = i}) = IF i \in prev THEN 1 ELSE 0
                      /\ \A i \in Seats : pad[i].connected <=> i \in prev
                      /\ status <=> prev # {}
    BY DEF SlotsMatch
  <2>1. Connected = prev
    BY <1>1 DEF LoopInv, LoopTypeOK, Told
  <2>2. ASSUME NEW i \in Seats, i \in prev PROVE Cardinality({k \in Seats : myGamepads[k] = i}) = 1
    <3>1. PICK k \in Seats : myGamepads[k] = i
      BY <1>1, <2>1, <2>2 DEF LoopInv, Listed
    <3>2. {j \in Seats : myGamepads[j] = i} = {k}
      BY <1>1, <3>1, SeatsFacts DEF LoopInv, Once
    <3> QED BY <3>2, FS_Singleton
  <2>3. ASSUME NEW i \in Seats, i \notin prev PROVE Cardinality({k \in Seats : myGamepads[k] = i}) = 0
    <3>1. {k \in Seats : myGamepads[k] = i} = {}
      BY <1>1, <2>1, <2>3, SeatsFacts DEF LoopInv, Filled
    <3> QED BY <3>1, FS_EmptySet
  <2> QED BY <1>1, <2>1, <2>2, <2>3 DEF LoopInv, Connected
<1> QED BY <1>1, LoopInvariant, PTL

\* Type correctness, the count of seats included: _used_gamepads neither goes
\* below zero nor beyond the number of seats.
THEOREM GamepadsTypes == Spec => []TypeOK
<1>1. ASSUME SeatInv, LoopInv PROVE TypeOK
  <2>1. used \in 0 .. MAX_DEVICES
    BY <1>1, Finite DEF SeatInv, Counted
  <2> QED BY <1>1, <2>1 DEF TypeOK, SeatInv, BluetoothTypeOK, LoopInv, LoopTypeOK, DeviceRecord, SeatRecord, PadRecord
<1> QED BY <1>1, SeatInvariant, LoopInvariant, PTL
=============================================================================
