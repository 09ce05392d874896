------------------------- MODULE StateManagerProofs -------------------------
(***************************************************************************)
(* Proofs about StateManager for every queue length, every set of reported *)
(* values and every bound on the recursive takes.                          *)
(***************************************************************************)
EXTENDS StateManager, TLAPS

(* The mutex tells who is where: the loop task holds it exactly while it   *)
(* drives, without a recursive count, and the state task holds it exactly  *)
(* while it has takes to give back, as it does during a party.             *)
LockInv ==
    /\ drivePc = "drive" <=> mutex.holder = "loop"
    /\ mutex.holder = "state" <=> mutex.calls > 0
    /\ statePc = "party" => mutex.holder = "state"

(* The last waiting message about s carries what was last reported of s.   *)
LastWaiting(s, i) ==
    /\ queue[i].subject = s
    /\ queue[i].value = reported[s]
    /\ \A j \in DOMAIN queue : j > i => queue[j].subject # s

ReportInv ==
    \A s \in Subjects \ lost :
        \/ \E i \in DOMAIN queue : LastWaiting(s, i)
        \/ ~Waiting(s) /\ states[s] = reported[s]

-----------------------------------------------------------------------------
(* What every setter does to the queue: it stays a queue of messages       *)
(* within its capacity.                                                    *)
LEMMA PostType ==
    ASSUME TypeOK, NEW s \in Subjects \cup {"PARTY"}, NEW v \in Nat, post(s, v)
    PROVE  queue' \in Seq(StateMessage) /\ Len(queue') <= QUEUE_LENGTH
<1>1. QUEUE_LENGTH \in Nat
    BY ConstantsAssumption
<1>2. [subject |-> s, value |-> v] \in StateMessage
    BY DEF StateMessage
<1>. QED
    BY <1>1, <1>2 DEF TypeOK, post, QueueSend, QueueHasRoom

(* The message at the head of a queue is a message, and the rest a queue.  *)
LEMMA HeadTail ==
    ASSUME TypeOK, queue # <<>>
    PROVE  /\ Head(queue) \in StateMessage
           /\ Tail(queue) \in Seq(StateMessage)
           /\ Len(Tail(queue)) = Len(queue) - 1
    BY DEF TypeOK

(* The LED functions return colours. *)
LEMMA LedType ==
    ASSUME NEW st, NEW shown \in [ALL : {"off", "rainbow"},
               WIFI : {"off", "green", "red", "yellow"},
               BTN : {"off", "green", "red", "yellow"}]
    PROVE  statusLeds(st, shown) \in [ALL : {"off", "rainbow"},
               WIFI : {"off", "green", "red", "yellow"},
               BTN : {"off", "green", "red", "yellow"}]
<1>1. wifiLed(st["WIFI"]) \in {"off", "green", "red", "yellow"}
    BY DEF wifiLed
<1>2. buttonLed(st, shown.BTN) \in {"off", "green", "red", "yellow"}
    BY DEF buttonLed
<1>. QED
    BY <1>1, <1>2 DEF statusLeds

-----------------------------------------------------------------------------
(* The constructor and begin() leave well-typed state. *)
LEMMA TypeInit == Init => TypeOK
<1>. SUFFICES ASSUME Init PROVE TypeOK
    OBVIOUS
<1>1. InitStates \in [Subjects -> Nat]
    BY DEF InitStates, Subjects, WIFI_STATE_DISCONNECTED, OTA_STATE_OFF,
           BLUETOOTH_STATE_DISCONNECTED
<1>2. leds \in [ALL : {"off", "rainbow"}, WIFI : {"off", "green", "red", "yellow"},
                BTN : {"off", "green", "red", "yellow"}]
    BY LedType DEF Init, Off
<1>3. Len(queue) <= QUEUE_LENGTH
    BY ConstantsAssumption DEF Init
<1>4. queue \in Seq(StateMessage)
    BY DEF Init
<1>5. mutex \in [holder : {NoTask, "state", "loop"}, calls : Nat]
    BY DEF Init, FreeMutex
<1>. QED
    BY <1>1, <1>2, <1>3, <1>4, <1>5 DEF Init, TypeOK

(* Steps preserve types.  Giving the mutex back at the end of a party does *)
(* so only because the party holds it: hence LockInv.                      *)
LEMMA TypeStep == TypeOK /\ LockInv /\ [Next]_vars => TypeOK'
<1>. SUFFICES ASSUME TypeOK, LockInv, [Next]_vars PROVE TypeOK'
    OBVIOUS
<1>1. ASSUME NEW s \in Subjects, NEW v \in Reports[s], report(s, v)
      PROVE  TypeOK'
  <2>1. v \in Nat
      BY <1>1, ConstantsAssumption
  <2>2. queue' \in Seq(StateMessage) /\ Len(queue') <= QUEUE_LENGTH
      BY <1>1, <2>1, PostType DEF report
  <2>. QED
      BY <1>1, <2>1, <2>2 DEF report, TypeOK
<1>2. CASE startParty
  <2>1. queue' \in Seq(StateMessage) /\ Len(queue') <= QUEUE_LENGTH
      BY <1>2, PostType DEF startParty
  <2>. QED
      BY <1>2, <2>1 DEF startParty, TypeOK
<1>3. CASE receive
  <2>1. stored(Head(queue)) \in [Subjects -> Nat]
      BY <1>3, HeadTail DEF receive, stored, TypeOK, StateMessage
  <2>2. Len(Tail(queue)) <= QUEUE_LENGTH
      BY <1>3, HeadTail, ConstantsAssumption DEF receive, TypeOK
  <2>. QED
      BY <1>3, <2>1, <2>2, HeadTail DEF receive, TypeOK
<1>4. CASE lockForOta
    BY <1>4 DEF lockForOta, takeDrive, TakeRecursive, TypeOK
<1>5. CASE partyBegin
    BY <1>5 DEF partyBegin, takeDrive, TakeRecursive, Off, TypeOK
<1>6. CASE partyEnd
  <2>1. mutex.calls - 1 \in Nat
      BY <1>6 DEF partyEnd, LockInv, TypeOK
  <2>2. mutex' \in [holder : {NoTask, "state", "loop"}, calls : Nat]
      BY <1>6, <2>1 DEF partyEnd, GiveRecursive, TypeOK
  <2>. QED
      BY <1>6, <2>2 DEF partyEnd, Off, TypeOK
<1>7. CASE showStatus
  <2>1. leds' \in [ALL : {"off", "rainbow"}, WIFI : {"off", "green", "red", "yellow"},
                   BTN : {"off", "green", "red", "yellow"}]
      BY <1>7, LedType DEF showStatus, TypeOK
  <2>. QED
      BY <1>7, <2>1 DEF showStatus, TypeOK
<1>8. CASE driveTake
    BY <1>8 DEF driveTake, Take, TypeOK
<1>9. CASE driveGive
    BY <1>9 DEF driveGive, Give, TypeOK
<1>10. CASE UNCHANGED vars
    BY <1>10 DEF vars, TypeOK
<1>. QED
    BY <1>1, <1>2, <1>3, <1>4, <1>5, <1>6, <1>7, <1>8, <1>9, <1>10
    DEF Next, Environment, StateTask

(* Steps preserve the relation between the mutex and the two tasks.        *)
LEMMA LockStep == TypeOK /\ LockInv /\ [Next]_vars => LockInv'
<1>. SUFFICES ASSUME TypeOK, LockInv, [Next]_vars PROVE LockInv'
    OBVIOUS
<1>1. ASSUME NEW s \in Subjects, NEW v \in Reports[s], report(s, v)
      PROVE  LockInv'
    BY <1>1 DEF report, LockInv
<1>2. CASE startParty
    BY <1>2 DEF startParty, LockInv
<1>3. CASE receive
    BY <1>3 DEF receive, LockInv
<1>4. CASE lockForOta
    BY <1>4 DEF lockForOta, takeDrive, CanTakeRecursive, TakeRecursive, NoTask, LockInv, TypeOK
<1>5. CASE partyBegin
    BY <1>5 DEF partyBegin, takeDrive, CanTakeRecursive, TakeRecursive, NoTask, LockInv, TypeOK
<1>6. CASE partyEnd
    BY <1>6 DEF partyEnd, GiveRecursive, NoTask, LockInv, TypeOK
<1>7. CASE showStatus
    BY <1>7 DEF showStatus, LockInv
<1>8. CASE driveTake
    BY <1>8 DEF driveTake, CanTake, Take, NoTask, LockInv, TypeOK
<1>9. CASE driveGive
    BY <1>9 DEF driveGive, Give, NoTask, LockInv, TypeOK
<1>10. CASE UNCHANGED vars
    BY <1>10 DEF vars, LockInv
<1>. QED
    BY <1>1, <1>2, <1>3, <1>4, <1>5, <1>6, <1>7, <1>8, <1>9, <1>10
    DEF Next, Environment, StateTask

(* The inductive invariant the other theorems start from.                  *)
THEOREM LockCorrect == Spec => [](TypeOK /\ LockInv)
<1>1. Init => LockInv
    BY DEF Init, LockInv, FreeMutex, NoTask
<1>. QED
    BY <1>1, TypeInit, TypeStep, LockStep, PTL DEF Spec

(* Type correctness: struct States keeps its types, the status queue never *)
(* exceeds QUEUE_LENGTH and only the two clients ever hold the mutex.      *)
THEOREM TypeCorrect == Spec => []TypeOK
    BY LockCorrect, PTL

(* Driving excludes parties and finished updates, although the loop task   *)
(* uses the plain and the state task the recursive calls on one mutex      *)
(* (arduino_main.cpp:273,302 and state_manager.cpp:195,201,207).           *)
THEOREM DrivingIsShutOut == Spec => []DriveShutOut
<1>1. TypeOK /\ LockInv => DriveShutOut
    BY DEF TypeOK, LockInv, DriveShutOut, OtaLocked
<1>. QED
    BY <1>1, LockCorrect, PTL

(* A successful update has locked driving by the time _determineMode is    *)
(* past its test, whatever parties surround it.                            *)
THEOREM UpdateLocksDriving == Spec => []SuccessLocks
<1>1. Init => SuccessLocks
    BY DEF Init, InitStates, Subjects, SuccessLocks, OTA_STATE_OFF, OTA_STATE_SUCCESS
<1>2. TypeOK /\ LockInv /\ SuccessLocks /\ [Next]_vars => SuccessLocks'
  <2>. SUFFICES ASSUME TypeOK, LockInv, SuccessLocks, [Next]_vars,
                       states'["OTA"] = OTA_STATE_SUCCESS, statePc' # "lock_for_ota"
                PROVE  OtaLocked'
      BY DEF SuccessLocks
  <2>1. ASSUME NEW s \in Subjects, NEW v \in Reports[s], report(s, v)
        PROVE  OtaLocked'
      BY <2>1 DEF report, SuccessLocks, OtaLocked
  <2>2. CASE startParty
      BY <2>2 DEF startParty, SuccessLocks, OtaLocked
  <2>3. CASE receive
      BY <2>3 DEF receive
  <2>4. CASE lockForOta
    <3>1. otaLocks
        BY <2>4 DEF lockForOta, otaLocks, OTA_STATE_SUCCESS, OTA_STATE_UPDATING
    <3>. QED
        BY <2>4, <3>1 DEF lockForOta, takeDrive, TakeRecursive, OtaLocked, TypeOK
  <2>5. CASE partyBegin
    <3>1. OtaLocked
        BY <2>5 DEF partyBegin, SuccessLocks
    <3>. QED
        BY <2>5, <3>1 DEF partyBegin, takeDrive, TakeRecursive, OtaLocked, TypeOK
  <2>6. CASE partyEnd
      BY <2>6 DEF partyEnd
  <2>7. CASE showStatus
      BY <2>7 DEF showStatus, SuccessLocks, OtaLocked
  <2>8. CASE driveTake
      BY <2>8 DEF driveTake, CanTake, NoTask, SuccessLocks, OtaLocked
  <2>9. CASE driveGive
      BY <2>9 DEF driveGive, LockInv, SuccessLocks, OtaLocked
  <2>10. CASE UNCHANGED vars
      BY <2>10 DEF vars, SuccessLocks, OtaLocked
  <2>. QED
      BY <2>1, <2>2, <2>3, <2>4, <2>5, <2>6, <2>7, <2>8, <2>9, <2>10
      DEF Next, Environment, StateTask
<1>. QED
    BY <1>1, <1>2, LockCorrect, PTL DEF Spec

(* "We never give this back" (state_manager.cpp:193): no step gives up the *)
(* mutex taken for an update, in particular not the give that ends a party.*)
THEOREM UpdateLockIsForever == Spec => OtaLockPermanent
<1>1. TypeOK /\ LockInv /\ [Next]_vars => [OtaLocked => OtaLocked']_vars
  <2>. SUFFICES ASSUME TypeOK, LockInv, OtaLocked, [Next]_vars
                PROVE  OtaLocked'
      OBVIOUS
  <2>1. ASSUME NEW s \in Subjects, NEW v \in Reports[s], report(s, v)
        PROVE  OtaLocked'
      BY <2>1 DEF report, OtaLocked
  <2>2. CASE startParty
      BY <2>2 DEF startParty, OtaLocked
  <2>3. CASE receive
      BY <2>3 DEF receive, OtaLocked
  <2>4. CASE lockForOta
      BY <2>4 DEF lockForOta, takeDrive, TakeRecursive, OtaLocked, TypeOK
  <2>5. CASE partyBegin
      BY <2>5 DEF partyBegin, takeDrive, TakeRecursive, OtaLocked, TypeOK
  <2>6. CASE partyEnd
      BY <2>6 DEF partyEnd, GiveRecursive, OtaLocked, TypeOK
  <2>7. CASE showStatus
      BY <2>7 DEF showStatus, OtaLocked
  <2>8. CASE driveTake
      BY <2>8 DEF driveTake, CanTake, NoTask, OtaLocked
  <2>9. CASE driveGive
      BY <2>9 DEF driveGive, LockInv, OtaLocked
  <2>10. CASE UNCHANGED vars
      BY <2>10 DEF vars, OtaLocked
  <2>. QED
      BY <2>1, <2>2, <2>3, <2>4, <2>5, <2>6, <2>7, <2>8, <2>9, <2>10
      DEF Next, Environment, StateTask
<1>. QED
    BY <1>1, LockCorrect, PTL DEF Spec, OtaLockPermanent

(* The state manager implements the gate: under Mode every step of the     *)
(* tasks and their callers is a step of DriveGate or leaves it as it is.   *)
(* The mutex is what makes a closing step one in which nobody is driving.  *)
THEOREM StateManagerIsAGate == Spec => ImplementsGate
<1>1. Init => Gate!Init
    BY DEF Init, Gate!Init, Mode, OtaLocked, FreeMutex, NoTask
<1>2. TypeOK /\ LockInv /\ [Next]_vars => [Gate!Next]_(Gate!vars)
  <2>. SUFFICES ASSUME TypeOK, LockInv, [Next]_vars
                PROVE  [Gate!Next]_(Gate!vars)
      OBVIOUS
  <2>. USE DEF Gate!vars, Mode, OtaLocked
  <2>1. ASSUME NEW s \in Subjects, NEW v \in Reports[s], report(s, v)
        PROVE  UNCHANGED Gate!vars
      BY <2>1 DEF report
  <2>2. CASE startParty
      BY <2>2 DEF startParty
  <2>3. CASE receive
      BY <2>3 DEF receive
  <2>4. CASE lockForOta
    <3>1. CASE otaLocks
      <4>1. mutex.holder \in {NoTask, "state"} /\ drivePc # "drive"
          BY <2>4, <3>1 DEF lockForOta, takeDrive, CanTakeRecursive, LockInv, NoTask
      <4>2. Mode' = "locked" /\ UNCHANGED drivePc
          BY <2>4, <3>1 DEF lockForOta, takeDrive, TakeRecursive, TypeOK
      <4>3. Mode \in {"open", "locked"}
          BY <2>4 DEF lockForOta
      <4>. QED
          BY <4>1, <4>2, <4>3 DEF Gate!Next, Gate!Close
    <3>2. CASE ~otaLocks
        BY <2>4, <3>2 DEF lockForOta
    <3>. QED
        BY <3>1, <3>2
  <2>5. CASE partyBegin
    <3>1. mutex.holder \in {NoTask, "state"} /\ drivePc # "drive"
        BY <2>5 DEF partyBegin, takeDrive, CanTakeRecursive, LockInv, NoTask
    <3>2. /\ mutex.calls = 0 => Mode = "open" /\ Mode' = "party"
          /\ mutex.calls > 0 => Mode = "locked" /\ Mode' = "locked"
        BY <2>5 DEF partyBegin, takeDrive, TakeRecursive, LockInv, TypeOK
    <3>3. mutex.calls = 0 \/ mutex.calls > 0
        BY DEF TypeOK
    <3>4. UNCHANGED drivePc
        BY <2>5 DEF partyBegin
    <3>. QED
        BY <3>1, <3>2, <3>3, <3>4 DEF Gate!Next, Gate!Close
  <2>6. CASE partyEnd
    <3>1. /\ mutex.calls = 1 => Mode = "party" /\ Mode' = "open"
          /\ mutex.calls > 1 => Mode = "locked" /\ Mode' = "locked"
        BY <2>6 DEF partyEnd, GiveRecursive, LockInv, NoTask, TypeOK
    <3>2. mutex.calls = 1 \/ mutex.calls > 1
        BY <2>6 DEF partyEnd, LockInv, TypeOK
    <3>3. UNCHANGED drivePc
        BY <2>6 DEF partyEnd
    <3>. QED
        BY <3>1, <3>2, <3>3 DEF Gate!Next, Gate!EndParty
  <2>7. CASE showStatus
      BY <2>7 DEF showStatus
  <2>8. CASE driveTake
    <3>1. Mode = "open" /\ UNCHANGED Mode
        BY <2>8 DEF driveTake, CanTake, Take, NoTask, LockInv, TypeOK
    <3>2. drivePc = "wait" /\ drivePc' = "drive"
        BY <2>8 DEF driveTake
    <3>. QED
        BY <3>1, <3>2 DEF Gate!Next, Gate!StartDriving
  <2>9. CASE driveGive
    <3>1. UNCHANGED Mode
        BY <2>9 DEF driveGive, Give, NoTask, LockInv, TypeOK
    <3>2. drivePc = "drive" /\ drivePc' = "wait"
        BY <2>9 DEF driveGive
    <3>. QED
        BY <3>1, <3>2 DEF Gate!Next, Gate!StopDriving
  <2>10. CASE UNCHANGED vars
      BY <2>10 DEF vars
  <2>. QED
      BY <2>1, <2>2, <2>3, <2>4, <2>5, <2>6, <2>7, <2>8, <2>9, <2>10
      DEF Next, Environment, StateTask
<1>. QED
    BY <1>1, <1>2, LockCorrect, PTL DEF Spec, ImplementsGate, Gate!Spec

-----------------------------------------------------------------------------
(* Sending a message about t leaves the last waiting message about any     *)
(* other subject in place, and nobody starts to wait but t.                *)
LEMMA PostOther ==
    ASSUME TypeOK, NEW t \in Subjects \cup {"PARTY"}, NEW v \in Nat, post(t, v),
           NEW s \in Subjects, s # t, reported'[s] = reported[s]
    PROVE  /\ \A i \in DOMAIN queue : LastWaiting(s, i) =>
                  i \in DOMAIN queue' /\ LastWaiting(s, i)'
           /\ ~Waiting(s) => ~Waiting(s)'
<1>. DEFINE m == [subject |-> t, value |-> v]
<1>1. CASE ~QueueHasRoom(queue, QUEUE_LENGTH)
    BY <1>1 DEF post, QueueSend, LastWaiting, Waiting
<1>2. CASE QueueHasRoom(queue, QUEUE_LENGTH)
  <2>1. m.subject = t
      OBVIOUS
  <2>. HIDE DEF m
  <2>2. queue' = Append(queue, m)
      BY <1>2 DEF post, QueueSend, m
  <2>3. /\ DOMAIN queue' = 1 .. (Len(queue) + 1)
        /\ DOMAIN queue = 1 .. Len(queue)
        /\ Len(queue) \in Nat
        /\ queue'[Len(queue) + 1] = m
        /\ \A i \in 1 .. Len(queue) : queue'[i] = queue[i]
      BY <2>2 DEF TypeOK
  <2>. QED
      BY <2>1, <2>3 DEF LastWaiting, Waiting
<1>. QED
    BY <1>1, <1>2

(* Reports of one subject are neither reordered nor dropped on the way but *)
(* at a full queue: the setters and _state_task preserve, for every        *)
(* subject, that the last message waiting is the last report.              *)
THEOREM ReportsStayInOrder == Spec => []LastReportWins
<1>1. Init => ReportInv
    BY DEF Init, ReportInv, Waiting
<1>2. TypeOK /\ ReportInv /\ [Next]_vars => ReportInv'
  <2>. SUFFICES ASSUME TypeOK, ReportInv, [Next]_vars,
                       NEW s \in Subjects, s \notin lost'
                PROVE  \/ \E i \in DOMAIN queue' : LastWaiting(s, i)'
                       \/ ~Waiting(s)' /\ states'[s] = reported'[s]
      BY DEF ReportInv
  <2>. DEFINE Goal == \/ \E i \in DOMAIN queue' : LastWaiting(s, i)'
                      \/ ~Waiting(s)' /\ states'[s] = reported'[s]
  <2>1. ASSUME NEW t \in Subjects, NEW v \in Reports[t], report(t, v)
        PROVE  Goal
    <3>1. v \in Nat /\ post(t, v) /\ states' = states
        BY <2>1, ConstantsAssumption DEF report
    <3>2. CASE s # t
      <4>1. s \notin lost /\ reported'[s] = reported[s]
          BY <2>1, <3>2 DEF report, TypeOK
      <4>2. \/ \E i \in DOMAIN queue : LastWaiting(s, i)
            \/ ~Waiting(s) /\ states[s] = reported[s]
          BY <4>1 DEF ReportInv
      <4>. QED
          BY <3>1, <3>2, <4>1, <4>2, PostOther
    <3>3. CASE s = t
      <4>1. QueueHasRoom(queue, QUEUE_LENGTH)
          BY <2>1, <3>3 DEF report
      <4>. DEFINE m == [subject |-> t, value |-> v]
      <4>2. m.subject = t /\ m.value = v
          OBVIOUS
      <4>. HIDE DEF m
      <4>3. queue' = Append(queue, m)
          BY <3>1, <4>1 DEF post, QueueSend, m
      <4>4. /\ DOMAIN queue' = 1 .. (Len(queue) + 1)
            /\ Len(queue) \in Nat
            /\ queue'[Len(queue) + 1] = m
          BY <4>3 DEF TypeOK
      <4>5. reported'[s] = v
          BY <2>1, <3>3 DEF report, TypeOK
      <4>6. PICK n : n = Len(queue) + 1
          OBVIOUS
      <4>7. n \in DOMAIN queue' /\ LastWaiting(s, n)'
          BY <3>3, <4>2, <4>4, <4>5, <4>6 DEF LastWaiting
      <4>. QED
          BY <4>7
    <3>. QED
        BY <3>2, <3>3
  <2>2. CASE startParty
    <3>1. post("PARTY", 1) /\ states' = states /\ reported' = reported /\ lost' = lost
        BY <2>2 DEF startParty
    <3>2. \/ \E i \in DOMAIN queue : LastWaiting(s, i)
          \/ ~Waiting(s) /\ states[s] = reported[s]
        BY <3>1 DEF ReportInv
    <3>3. s # "PARTY"
        BY DEF Subjects
    <3>. QED
        BY <3>1, <3>2, <3>3, PostOther
  <2>3. CASE receive
    <3>1. /\ queue # <<>> /\ queue' = Tail(queue)
          /\ states' = stored(Head(queue))
          /\ reported' = reported /\ lost' = lost
        BY <2>3 DEF receive
    <3>2. /\ Len(queue) \in Nat /\ Len(queue) >= 1
          /\ DOMAIN queue = 1 .. Len(queue)
          /\ DOMAIN queue' = 1 .. (Len(queue) - 1)
          /\ Head(queue) = queue[1]
          /\ \A i \in 1 .. (Len(queue) - 1) : queue'[i] = queue[i + 1]
        BY <3>1 DEF TypeOK
    <3>3. /\ queue[1].subject = s => states'[s] = queue[1].value
          /\ queue[1].subject # s => states'[s] = states[s]
      <4>1. queue[1] \in StateMessage
          BY <3>1, <3>2, HeadTail
      <4>. QED
          BY <3>1, <3>2, <4>1 DEF stored, TypeOK, StateMessage, Subjects
    <3>4. CASE \E i \in DOMAIN queue : LastWaiting(s, i)
      <4>1. PICK i \in 1 .. Len(queue) : LastWaiting(s, i)
          BY <3>2, <3>4
      <4>2. CASE i = 1
          BY <3>1, <3>2, <3>3, <4>1, <4>2 DEF LastWaiting, Waiting
      <4>3. CASE i # 1
        <5>1. i - 1 \in DOMAIN queue' /\ LastWaiting(s, i - 1)'
            BY <3>1, <3>2, <4>1, <4>3 DEF LastWaiting
        <5>. QED
            BY <5>1
      <4>. QED
          BY <4>2, <4>3
    <3>5. CASE ~Waiting(s) /\ states[s] = reported[s]
        BY <3>1, <3>2, <3>3, <3>5 DEF Waiting
    <3>. QED
        BY <3>1, <3>4, <3>5 DEF ReportInv
  <2>4. CASE \/ lockForOta \/ partyBegin \/ partyEnd \/ showStatus
             \/ driveTake \/ driveGive \/ UNCHANGED vars
    <3>1. UNCHANGED <<queue, states, reported, lost>>
        BY <2>4 DEF lockForOta, partyBegin, partyEnd, showStatus, driveTake, driveGive, vars
    <3>. QED
        BY <3>1 DEF ReportInv, LastWaiting, Waiting
  <2>. QED
      BY <2>1, <2>2, <2>3, <2>4 DEF Next, Environment, StateTask
<1>3. ReportInv => LastReportWins
    BY DEF ReportInv, LastReportWins, LastWaiting, Waiting
<1>. QED
    BY <1>1, <1>2, <1>3, TypeCorrect, PTL DEF Spec

-----------------------------------------------------------------------------
(* The rainbow is on during parties only. *)
RainbowInv == statePc # "party" => leds.ALL = "off"

(* After _determineMode the LEDs show no party, the Wi-Fi state, and green *)
(* for a controller only if there is one, although the button segment may  *)
(* keep a colour from several messages ago (state_manager.cpp:226-232).    *)
THEOREM LedsAreTruthful == Spec => []LedsTruthful
<1>. DEFINE Inv == RainbowInv /\ LedsTruthful
<1>1. Init => Inv
    BY DEF Init, Off, statusLeds, wifiLed, buttonLed, InitStates, Subjects,
           RainbowInv, LedsTruthful, WIFI_STATE_DISCONNECTED, WIFI_STATE_CONNECTED,
           WIFI_STATE_ERROR, OTA_STATE_OFF, OTA_STATE_ERROR,
           BLUETOOTH_STATE_DISCONNECTED, BLUETOOTH_STATE_CONNECTED
<1>2. TypeOK /\ Inv /\ [Next]_vars => Inv'
  <2>. SUFFICES ASSUME TypeOK, Inv, [Next]_vars PROVE Inv'
      OBVIOUS
  <2>1. ASSUME NEW s \in Subjects, NEW v \in Reports[s], report(s, v)
        PROVE  Inv'
      BY <2>1 DEF report, RainbowInv, LedsTruthful
  <2>2. CASE startParty
      BY <2>2 DEF startParty, RainbowInv, LedsTruthful
  <2>3. CASE receive
      BY <2>3 DEF receive, RainbowInv, LedsTruthful
  <2>4. CASE lockForOta
      BY <2>4 DEF lockForOta, RainbowInv, LedsTruthful
  <2>5. CASE partyBegin
      BY <2>5 DEF partyBegin, RainbowInv, LedsTruthful
  <2>6. CASE partyEnd
      BY <2>6 DEF partyEnd, Off, RainbowInv, LedsTruthful
  <2>7. CASE showStatus
    <3>1. leds' = statusLeds(states, leds) /\ states' = states /\ leds.ALL = "off"
        BY <2>7 DEF showStatus, RainbowInv
    <3>2. leds'.ALL = "off" /\ leds'.WIFI = wifiLed(states["WIFI"])
        BY <3>1 DEF statusLeds, TypeOK
    <3>3. leds'.BTN = buttonLed(states, leds.BTN)
        BY <3>1 DEF statusLeds, TypeOK
    <3>4. leds'.BTN = "green" => states["BLUETOOTH"] # BLUETOOTH_STATE_DISCONNECTED
        BY <3>3 DEF buttonLed, BLUETOOTH_STATE_DISCONNECTED, BLUETOOTH_STATE_CONNECTED
    <3>. QED
        BY <3>1, <3>2, <3>4 DEF RainbowInv, LedsTruthful
  <2>8. CASE driveTake \/ driveGive
      BY <2>8 DEF driveTake, driveGive, RainbowInv, LedsTruthful
  <2>9. CASE UNCHANGED vars
      BY <2>9 DEF vars, RainbowInv, LedsTruthful
  <2>. QED
      BY <2>1, <2>2, <2>3, <2>4, <2>5, <2>6, <2>7, <2>8, <2>9
      DEF Next, Environment, StateTask
<1>. QED
    BY <1>1, <1>2, TypeCorrect, PTL DEF Spec
=============================================================================
