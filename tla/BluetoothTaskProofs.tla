------------------------- MODULE BluetoothTaskProofs ------------------------
(***************************************************************************)
(* Proofs about what the Bluetooth task does beside its transport, for     *)
(* every size of its buffers, every number of channels, reports and timers *)
(* and every width of the clock: no report is forgotten or sent twice      *)
(* (OutgoingReports), timers keep their promise (RunLoopTimers), and what  *)
(* is proved of each part holds where they are put together                *)
(* (MCBluetoothTask).                                                      *)
(***************************************************************************)
EXTENDS MCBluetoothTask, HciTransportProofs

(* What is queued is waited for, and the one who waits will hear. *)
Awaited == ~uni_circular_buffer_is_empty => waiting # {}
WillHear == ~notifying /\ waiting # {} => busy \/ signal
Flags == notifying \in BOOLEAN /\ busy \in BOOLEAN /\ signal \in BOOLEAN
Attended == Flags /\ Awaited /\ WillHear

-----------------------------------------------------------------------------
(* uni_hid_device_send_report leaves a channel waiting, whatever becomes   *)
(* of the report.                                                          *)
LEMMA ReportLeavesEvent ==
    ASSUME NEW r, NEW big, NEW others, busy \in BOOLEAN, uni_hid_device_send_report(r, big, others)
    PROVE  waiting' # {} /\ busy' \in BOOLEAN
BY DEF uni_hid_device_send_report, trySend

(* Every step keeps queued reports attended to. *)
LEMMA StaysAttended == Attended /\ [ReportsNext]_reportVars => Attended'
<1>. SUFFICES ASSUME Attended, [ReportsNext]_reportVars
              PROVE  Attended'
    OBVIOUS
<1>. USE DEF Attended, Flags, Awaited, WillHear, uni_circular_buffer_is_empty
<1>1. ASSUME NEW c \in Channels, NEW big \in BOOLEAN, sendReport(c, big)
      PROVE  Attended'
    <2>1. waiting' # {} /\ busy' \in BOOLEAN
        BY <1>1, ReportLeavesEvent DEF sendReport
    <2>. QED
        BY <1>1, <2>1 DEF sendReport
<1>2. ASSUME NEW c \in waiting, notifying, ~busy, uni_hid_device_send_queued_reports(c),
             UNCHANGED <<notifying, signal>>
      PROVE  Attended'
    <2>1. CASE uni_circular_buffer_is_empty /\ UNCHANGED <<queueVars, busy>>
        BY <1>2, <2>1 DEF queueVars
    <2>2. CASE uni_hid_device_send_report(buffer[head_idx], FALSE, waiting \ {c})
        <3>1. waiting' # {} /\ busy' \in BOOLEAN
            BY <2>2 DEF uni_hid_device_send_report, trySend
        <3>2. notifying' = notifying /\ signal' = signal
            BY <1>2
        <3>. QED
            BY <1>2, <3>1, <3>2
    <2>. QED
        BY <1>2, <2>1, <2>2 DEF uni_hid_device_send_queued_reports
<1>3. CASE l2cap_notify_channel_can_send
    <2>1. CASE (busy \/ waiting = {}) /\ notifying' = FALSE
                 /\ UNCHANGED <<queueVars, waiting, busy, signal>>
        BY <2>1 DEF queueVars
    <2>. QED
        BY <1>2, <1>3, <2>1 DEF l2cap_notify_channel_can_send
<1>4. CASE controllerReady
    BY <1>4 DEF controllerReady, queueVars
<1>5. CASE packetSent
    BY <1>5 DEF packetSent, queueVars
<1>6. CASE uni_hid_device_delete
    BY <1>6 DEF uni_hid_device_delete
<1>7. CASE UNCHANGED reportVars
    BY <1>7 DEF reportVars, queueVars
<1>. QED
    BY <1>1, <1>3, <1>4, <1>5, <1>6, <1>7 DEF ReportsNext

(* Whenever reports lie in the circular buffer and L2CAP is not about to   *)
(* emit its events, a channel of the device waits for one and the          *)
(* controller is busy or has announced that it is not any more: the event  *)
(* that uni_hid_device_send_report asks for after every report, sent or    *)
(* queued, is what keeps the buffer moving.                                *)
THEOREM ReportsAreAttended == ReportsSpec => []NothingStuck
<1>1. ReportsInit => Attended
    BY DEF ReportsInit, Attended, Flags, Awaited, WillHear, uni_circular_buffer_is_empty
<1>2. Attended => NothingStuck
    BY DEF Attended, Flags, Awaited, WillHear, NothingStuck
<1>. QED
    BY <1>1, <1>2, StaysAttended, PTL DEF ReportsSpec

-----------------------------------------------------------------------------
(* The fates of reports, for a sequence s of the numbers that were sent    *)
(* and a queue q of reports: every report has one fate.                    *)
Numbers(s) == {s[i] : i \in DOMAIN s}
Distinct(s) == \A i, j \in DOMAIN s : s[i] = s[j] => i = j
DistinctIds(q) == \A i, j \in DOMAIN q : q[i].id = q[j].id => i = j

Apart(S, Q, R, G) ==
    S \cap Q = {} /\ S \cap R = {} /\ S \cap G = {} /\ Q \cap R = {} /\ Q \cap G = {} /\ R \cap G = {}

OneFate(s, q, m, R, G) ==
    /\ m \in Nat /\ s \in Seq(Nat) /\ q \in Seq(Report)
    /\ Distinct(s) /\ DistinctIds(q)
    /\ Apart(Numbers(s), ids(q), R, G)
    /\ Numbers(s) \cup ids(q) \cup R \cup G = 1 .. m

(* A number, or a report, at the end of a sequence. *)
LEMMA NumbersAppend ==
    ASSUME NEW s \in Seq(Nat), NEW e \in Nat, Distinct(s), e \notin Numbers(s)
    PROVE  /\ Append(s, e) \in Seq(Nat)
           /\ Numbers(Append(s, e)) = Numbers(s) \cup {e}
           /\ Distinct(Append(s, e))
<1>. DEFINE t == Append(s, e)
            n == Len(s)
<1>1. /\ n \in Nat /\ DOMAIN s = 1 .. n /\ DOMAIN t = 1 .. n + 1
      /\ t[n + 1] = e /\ \A i \in 1 .. n : t[i] = s[i]
      /\ t \in Seq(Nat)
    OBVIOUS
<1>. HIDE DEF t, n
<1>2. Numbers(t) = Numbers(s) \cup {e}
    <2>1. ASSUME NEW x \in Numbers(t) PROVE x \in Numbers(s) \cup {e}
        <3>1. PICK i \in 1 .. n + 1 : x = t[i]
            BY <1>1, <2>1 DEF Numbers
        <3>. QED
            BY <1>1, <3>1 DEF Numbers
    <2>2. ASSUME NEW x \in Numbers(s) \cup {e} PROVE x \in Numbers(t)
        <3>1. CASE x = e
            BY <1>1, <3>1 DEF Numbers
        <3>2. CASE x \in Numbers(s)
            BY <1>1, <3>2 DEF Numbers
        <3>. QED
            BY <2>2, <3>1, <3>2
    <2>. QED
        BY <2>1, <2>2
<1>3. Distinct(t)
    BY <1>1 DEF Distinct, Numbers
<1>. QED
    BY <1>1, <1>2, <1>3 DEF t

(* A report at the end of a queue. *)
LEMMA IdsAppend ==
    ASSUME NEW q \in Seq(Report), NEW r \in Report, DistinctIds(q), r.id \notin ids(q)
    PROVE  /\ Append(q, r) \in Seq(Report)
           /\ ids(Append(q, r)) = ids(q) \cup {r.id}
           /\ DistinctIds(Append(q, r))
<1>. DEFINE t == Append(q, r)
            n == Len(q)
<1>1. /\ n \in Nat /\ DOMAIN q = 1 .. n /\ DOMAIN t = 1 .. n + 1
      /\ t[n + 1] = r /\ \A i \in 1 .. n : t[i] = q[i]
      /\ t \in Seq(Report)
    OBVIOUS
<1>. HIDE DEF t, n
<1>2. ids(t) = ids(q) \cup {r.id}
    <2>1. ASSUME NEW x \in ids(t) PROVE x \in ids(q) \cup {r.id}
        <3>1. PICK i \in 1 .. n + 1 : x = t[i].id
            BY <1>1, <2>1 DEF ids
        <3>. QED
            BY <1>1, <3>1 DEF ids
    <2>2. ASSUME NEW x \in ids(q) \cup {r.id} PROVE x \in ids(t)
        <3>1. CASE x = r.id
            BY <1>1, <3>1 DEF ids
        <3>2. CASE x \in ids(q)
            BY <1>1, <3>2 DEF ids
        <3>. QED
            BY <2>2, <3>1, <3>2
    <2>. QED
        BY <2>1, <2>2
<1>3. DistinctIds(t)
    BY <1>1 DEF DistinctIds, ids
<1>. QED
    BY <1>1, <1>2, <1>3 DEF t

(* A queue without its oldest report. *)
LEMMA IdsTail ==
    ASSUME NEW q \in Seq(Report), q # <<>>, DistinctIds(q)
    PROVE  /\ Tail(q) \in Seq(Report) /\ Head(q) \in Report
           /\ Head(q).id \in ids(q)
           /\ ids(Tail(q)) = ids(q) \ {Head(q).id}
           /\ DistinctIds(Tail(q))
<1>. DEFINE t == Tail(q)
            n == Len(q)
            h == Head(q)
<1>1. /\ n \in Nat /\ n >= 1 /\ DOMAIN q = 1 .. n /\ DOMAIN t = 1 .. n - 1
      /\ h = q[1] /\ \A i \in 1 .. n - 1 : t[i] = q[i + 1]
      /\ t \in Seq(Report) /\ h \in Report
    OBVIOUS
<1>. HIDE DEF t, n, h
<1>2. h.id \in ids(q)
    BY <1>1 DEF ids
<1>3. ids(t) = ids(q) \ {h.id}
    <2>1. ASSUME NEW x \in ids(t) PROVE x \in ids(q) \ {h.id}
        <3>1. PICK i \in 1 .. n - 1 : x = t[i].id
            BY <1>1, <2>1 DEF ids
        <3>2. i + 1 \in 1 .. n /\ 1 \in 1 .. n /\ i + 1 # 1 /\ x = q[i + 1].id
            BY <1>1, <3>1
        <3>3. x \in ids(q)
            BY <1>1, <3>2 DEF ids
        <3>4. q[i + 1].id # q[1].id
            BY <1>1, <3>2 DEF DistinctIds
        <3>. QED
            BY <1>1, <3>2, <3>3, <3>4
    <2>2. ASSUME NEW x \in ids(q) \ {h.id} PROVE x \in ids(t)
        <3>1. PICK i \in 1 .. n : x = q[i].id
            BY <1>1, <2>2 DEF ids
        <3>2. i # 1
            BY <1>1, <2>2, <3>1
        <3>3. i - 1 \in 1 .. n - 1 /\ t[i - 1] = q[i]
            BY <1>1, <3>1, <3>2
        <3>. QED
            BY <1>1, <3>1, <3>3 DEF ids
    <2>. QED
        BY <2>1, <2>2
<1>4. DistinctIds(t)
    <2>. SUFFICES ASSUME NEW i \in 1 .. n - 1, NEW j \in 1 .. n - 1, t[i].id = t[j].id
                  PROVE  i = j
        BY <1>1 DEF DistinctIds
    <2>1. i + 1 \in 1 .. n /\ j + 1 \in 1 .. n /\ q[i + 1].id = q[j + 1].id
        BY <1>1
    <2>2. i + 1 = j + 1
        BY <1>1, <2>1 DEF DistinctIds
    <2>. QED
        BY <2>2
<1>. QED
    BY <1>1, <1>2, <1>3, <1>4 DEF t, h

(* A new report is sent at once, queued or turned away. *)
LEMMA NewReport ==
    ASSUME NEW s, NEW q, NEW m, NEW R, NEW G, OneFate(s, q, m, R, G),
           NEW r \in Report, r.id = m + 1
    PROVE  /\ OneFate(Append(s, r.id), q, m + 1, R, G)
           /\ OneFate(s, Append(q, r), m + 1, R, G)
           /\ OneFate(s, q, m + 1, R \cup {r.id}, G)
<1>1. m + 1 \notin Numbers(s) \cup ids(q) \cup R \cup G /\ m \in Nat
    BY DEF OneFate
<1>2. 1 .. m + 1 = (1 .. m) \cup {m + 1}
    BY <1>1
<1>3. OneFate(Append(s, r.id), q, m + 1, R, G)
    BY <1>1, <1>2, NumbersAppend DEF OneFate, Apart
<1>4. OneFate(s, Append(q, r), m + 1, R, G)
    BY <1>1, <1>2, IdsAppend DEF OneFate, Apart
<1>5. OneFate(s, q, m + 1, R \cup {r.id}, G)
    BY <1>1, <1>2 DEF OneFate, Apart
<1>. QED
    BY <1>3, <1>4, <1>5

(* The oldest report of the queue is sent. *)
LEMMA QueuedReport ==
    ASSUME NEW s, NEW q, NEW m, NEW R, NEW G, OneFate(s, q, m, R, G), q # <<>>
    PROVE  OneFate(Append(s, Head(q).id), Tail(q), m, R, G)
<1>1. /\ Tail(q) \in Seq(Report) /\ Head(q).id \in ids(q) /\ Head(q).id \in Nat
      /\ ids(Tail(q)) = ids(q) \ {Head(q).id} /\ DistinctIds(Tail(q))
    BY IdsTail DEF OneFate, Report
<1>2. Head(q).id \notin Numbers(s)
    BY <1>1 DEF OneFate, Apart
<1>3. /\ Append(s, Head(q).id) \in Seq(Nat) /\ Distinct(Append(s, Head(q).id))
      /\ Numbers(Append(s, Head(q).id)) = Numbers(s) \cup {Head(q).id}
    BY <1>1, <1>2, NumbersAppend DEF OneFate
<1>. QED
    BY <1>1, <1>2, <1>3 DEF OneFate, Apart

(* The queue goes with its device. *)
LEMMA QueueGone ==
    ASSUME NEW s, NEW q, NEW m, NEW R, NEW G, OneFate(s, q, m, R, G)
    PROVE  OneFate(s, <<>>, m, R, G \cup ids(q))
<1>1. <<>> \in Seq(Report) /\ ids(<<>>) = {} /\ DistinctIds(<<>>)
    BY DEF ids, DistinctIds
<1>. QED
    BY <1>1 DEF OneFate, Apart

-----------------------------------------------------------------------------
(* The circular buffer is a queue. *)
Indices ==
    /\ buffer \in [Slots -> Report]
    /\ head_idx \in Slots /\ tail_idx \in Slots

slot(i) == IF head_idx + i - 1 < SIZE THEN head_idx + i - 1 ELSE head_idx + i - 1 - SIZE

LaidOut ==
    /\ length \in 0 .. SIZE - 1
    /\ \A i \in 1 .. length : slot(i) \in Slots /\ slot(i) # tail_idx /\ queued[i] = buffer[slot(i)]
    /\ queued \in Seq(Report) /\ Len(queued) = length /\ DOMAIN queued = 1 .. length
    /\ uni_circular_buffer_is_empty <=> length = 0

(* The circular buffer holds its reports in the order of the indices. *)
LEMMA QueuedSeq == Indices => LaidOut
<1>. SUFFICES ASSUME Indices
              PROVE  LaidOut
    OBVIOUS
<1>1. SIZE \in Nat /\ SIZE > 0 /\ head_idx \in 0 .. SIZE - 1 /\ tail_idx \in 0 .. SIZE - 1
    BY ReportConstants DEF Indices, Slots
<1>2. length \in 0 .. SIZE - 1 /\ length \in Nat
    BY <1>1 DEF length
<1>3. ASSUME NEW i \in 1 .. length PROVE slot(i) \in Slots /\ slot(i) # tail_idx
    BY <1>1, <1>2 DEF slot, length, Slots
<1>4. queued = [i \in 1 .. length |-> buffer[slot(i)]]
    BY DEF queued, slot
<1>5. queued \in [1 .. length -> Report]
    BY <1>3, <1>4 DEF Indices
<1>6. queued \in Seq(Report) /\ Len(queued) = length
    BY <1>2, <1>5, FunctionIsSeq
<1>7. uni_circular_buffer_is_empty <=> length = 0
    BY <1>1 DEF length, uni_circular_buffer_is_empty
<1>. QED
    BY <1>2, <1>3, <1>4, <1>6, <1>7 DEF LaidOut

(* Putting a report into a buffer that is not full appends it. *)
LEMMA PutAppends ==
    ASSUME Indices, ~uni_circular_buffer_is_full, NEW r \in Report,
           uni_circular_buffer_put(r), head_idx' = head_idx
    PROVE  Indices' /\ queued' = Append(queued, r)
<1>1. /\ SIZE \in Nat /\ SIZE > 0 /\ head_idx \in 0 .. SIZE - 1 /\ tail_idx \in 0 .. SIZE - 1
      /\ head_idx \in Int /\ tail_idx \in Int
    BY ReportConstants DEF Indices, Slots
<1>2. /\ tail_idx' = IF tail_idx + 1 = SIZE THEN 0 ELSE tail_idx + 1
      /\ buffer' = [buffer EXCEPT ![tail_idx] = r]
    BY DEF uni_circular_buffer_put, next
<1>3. tail_idx + 1 # head_idx /\ ~(head_idx = 0 /\ tail_idx = SIZE - 1)
    BY DEF uni_circular_buffer_is_full
<1>4. tail_idx' \in 0 .. SIZE - 1
    BY <1>1, <1>2
<1>5. Indices'
    BY <1>2, <1>4 DEF Indices, Slots
<1>6. length' = length + 1 /\ length \in 0 .. SIZE - 1
    <2>1. length' = IF tail_idx' >= head_idx THEN tail_idx' - head_idx ELSE tail_idx' - head_idx + SIZE
        BY DEF length
    <2>2. length = IF tail_idx >= head_idx THEN tail_idx - head_idx ELSE tail_idx - head_idx + SIZE
        BY DEF length
    <2>. QED
        BY <2>1, <2>2, <1>1, <1>2, <1>3
<1>7. \A i \in Nat : slot(i)' = slot(i)
    BY DEF slot
<1>8. slot(length + 1) = tail_idx
    BY <1>1, <1>3, <1>6 DEF slot, length
<1>9. /\ queued \in Seq(Report) /\ Len(queued) = length /\ DOMAIN queued = 1 .. length
      /\ \A i \in 1 .. length : slot(i) \in Slots /\ slot(i) # tail_idx /\ queued[i] = buffer[slot(i)]
    BY QueuedSeq DEF LaidOut
<1>10. /\ queued' \in Seq(Report) /\ Len(queued') = length + 1 /\ DOMAIN queued' = 1 .. length + 1
       /\ \A i \in 1 .. length + 1 : queued'[i] = buffer'[slot(i)']
    <2>1. LaidOut'
        BY <1>5, QueuedSeq, PTL
    <2>. QED
        BY <2>1, <1>6 DEF LaidOut
<1>11. \A i \in 1 .. length : queued'[i] = queued[i]
    BY <1>2, <1>6, <1>7, <1>9, <1>10 DEF Indices
<1>12. queued'[length + 1] = r
    BY <1>1, <1>2, <1>6, <1>7, <1>8, <1>10 DEF Indices, Slots
<1>. DEFINE t == Append(queued, r)
<1>13. /\ t \in Seq(Report) /\ Len(t) = length + 1
       /\ t[length + 1] = r /\ \A i \in 1 .. length : t[i] = queued[i]
    BY <1>9
<1>. HIDE DEF t
<1>14. \A i \in 1 .. length + 1 : queued'[i] = t[i]
    BY <1>6, <1>11, <1>12, <1>13
<1>15. queued' = t
    BY <1>10, <1>13, <1>14, SeqEqual
<1>. QED
    BY <1>5, <1>15 DEF t

(* Taking the oldest report leaves the others. *)
LEMMA TakeLeavesTail ==
    ASSUME Indices, ~uni_circular_buffer_is_empty,
           head_idx' = next(head_idx), UNCHANGED <<buffer, tail_idx>>
    PROVE  Indices' /\ queued # <<>> /\ queued' = Tail(queued) /\ buffer[head_idx] = Head(queued)
<1>1. /\ SIZE \in Nat /\ SIZE > 0 /\ head_idx \in 0 .. SIZE - 1 /\ tail_idx \in 0 .. SIZE - 1
      /\ head_idx # tail_idx
    BY ReportConstants DEF Indices, Slots, uni_circular_buffer_is_empty
<1>2. head_idx' = IF head_idx + 1 = SIZE THEN 0 ELSE head_idx + 1
    BY DEF next
<1>3. head_idx' \in 0 .. SIZE - 1
    BY <1>1, <1>2
<1>4. Indices'
    BY <1>3 DEF Indices, Slots
<1>5. length' = length - 1 /\ length \in 1 .. SIZE - 1
    <2>1. length' = IF tail_idx >= head_idx' THEN tail_idx - head_idx' ELSE tail_idx - head_idx' + SIZE
        BY DEF length
    <2>2. length = IF tail_idx >= head_idx THEN tail_idx - head_idx ELSE tail_idx - head_idx + SIZE
        BY DEF length
    <2>. QED
        BY <2>1, <2>2, <1>1, <1>2
<1>6. \A i \in 1 .. length - 1 : slot(i)' = slot(i + 1)
    BY <1>1, <1>2, <1>5 DEF slot
<1>7. /\ queued \in Seq(Report) /\ Len(queued) = length /\ DOMAIN queued = 1 .. length
      /\ \A i \in 1 .. length : queued[i] = buffer[slot(i)]
    BY QueuedSeq DEF LaidOut
<1>8. /\ queued' \in Seq(Report) /\ Len(queued') = length - 1
      /\ \A i \in 1 .. length - 1 : queued'[i] = buffer[slot(i)']
    <2>1. LaidOut'
        BY <1>4, QueuedSeq, PTL
    <2>. QED
        BY <2>1, <1>5 DEF LaidOut
<1>9. slot(1) = head_idx
    BY <1>1 DEF slot
<1>10. queued # <<>> /\ Head(queued) = queued[1] /\ queued[1] = buffer[head_idx]
    BY <1>5, <1>7, <1>9
<1>. DEFINE t == Tail(queued)
<1>11. /\ t \in Seq(Report) /\ Len(t) = length - 1
       /\ \A i \in 1 .. length - 1 : t[i] = queued[i + 1]
    BY <1>5, <1>7, <1>10
<1>. HIDE DEF t
<1>12. \A i \in 1 .. length - 1 : queued'[i] = t[i]
    <2>. SUFFICES ASSUME NEW i \in 1 .. length - 1 PROVE queued'[i] = t[i]
        OBVIOUS
    <2>1. i + 1 \in 1 .. length
        BY <1>5
    <2>. QED
        BY <2>1, <1>6, <1>7, <1>8, <1>11
<1>13. queued' = t
    BY <1>8, <1>11, <1>12, SeqEqual
<1>. QED
    BY <1>4, <1>10, <1>13 DEF t

-----------------------------------------------------------------------------
(* The inductive invariant: the types, and one fate for every report. *)
FatesInv ==
    /\ Indices /\ busy \in BOOLEAN /\ notifying \in BOOLEAN /\ signal \in BOOLEAN
    /\ waiting \subseteq Channels
    /\ \A i \in 1 .. length : queued[i].cid \in Channels
    /\ refused \subseteq Nat /\ gone \subseteq Nat
    /\ OneFate(sent, queued, made, refused, gone)

(* uni_hid_device_send_report gives a new report a fate. *)
LEMMA NewReportStep ==
    ASSUME FatesInv, NEW c \in Channels, NEW big, NEW others, others \subseteq Channels,
           uni_hid_device_send_report([cid |-> c, id |-> made + 1], big, others),
           made' = made + 1, head_idx' = head_idx, gone' = gone,
           notifying' \in BOOLEAN, signal' = signal
    PROVE  FatesInv'
<1>. DEFINE r == [cid |-> c, id |-> made + 1]
<1>1. OneFate(sent, queued, made, refused, gone) /\ made \in Nat
    BY DEF FatesInv, OneFate
<1>2. r \in Report /\ r.id = made + 1 /\ r.id \in Nat /\ r.cid \in Channels
    BY <1>1 DEF Report
<1>3. LaidOut /\ Indices
    BY QueuedSeq DEF FatesInv
<1>4. waiting' \subseteq Channels
    BY <1>2 DEF uni_hid_device_send_report
<1>. HIDE DEF r
<1>5. trySend(r, big)
    BY DEF uni_hid_device_send_report, r
<1>6. CASE /\ sent' = Append(sent, r.id) /\ busy' \in BOOLEAN
           /\ UNCHANGED <<buffer, tail_idx, refused>>
    <2>1. queued' = queued /\ length' = length /\ Indices'
        BY <1>3, <1>6 DEF queued, length, Indices
    <2>2. OneFate(sent', queued', made', refused', gone')
        BY <1>1, <1>2, <1>6, <2>1, NewReport
    <2>. QED
        BY <1>4, <1>6, <2>1, <2>2 DEF FatesInv
<1>7. CASE /\ ~uni_circular_buffer_is_full /\ uni_circular_buffer_put(r)
           /\ UNCHANGED <<sent, busy, refused>>
    <2>1. Indices' /\ queued' = Append(queued, r)
        BY <1>2, <1>3, <1>7, PutAppends
    <2>2. OneFate(sent', queued', made', refused', gone')
        BY <1>1, <1>2, <1>7, <2>1, NewReport
    <2>3. \A i \in 1 .. length' : queued'[i].cid \in Channels
        <3>1. LaidOut'
            BY <2>1, QueuedSeq, PTL
        <3>2. length' = length + 1 /\ length \in Nat
            BY <1>3, <2>1, <3>1 DEF LaidOut
        <3>3. \A i \in 1 .. length : queued'[i] = queued[i]
            BY <1>3, <1>2, <2>1 DEF LaidOut
        <3>4. queued'[length + 1] = r
            BY <1>3, <1>2, <2>1 DEF LaidOut
        <3>. QED
            BY <1>2, <3>2, <3>3, <3>4 DEF FatesInv
    <2>. QED
        BY <1>4, <1>7, <2>1, <2>2, <2>3 DEF FatesInv
<1>8. CASE /\ refused' = refused \cup {r.id}
           /\ UNCHANGED <<sent, busy, buffer, tail_idx>>
    <2>1. queued' = queued /\ length' = length /\ Indices'
        BY <1>3, <1>8 DEF queued, length, Indices
    <2>2. OneFate(sent', queued', made', refused', gone')
        BY <1>1, <1>2, <1>8, <2>1, NewReport
    <2>. QED
        BY <1>2, <1>4, <1>8, <2>1, <2>2 DEF FatesInv
<1>. QED
    BY <1>5, <1>6, <1>7, <1>8 DEF trySend

(* The event for a channel sends the oldest report, if there is one. *)
LEMMA QueuedReportStep ==
    ASSUME FatesInv, ~busy, NEW c, uni_hid_device_send_queued_reports(c),
           UNCHANGED <<made, gone, notifying, signal>>
    PROVE  FatesInv'
<1>1. LaidOut /\ Indices /\ OneFate(sent, queued, made, refused, gone)
    BY QueuedSeq DEF FatesInv
<1>2. CASE UNCHANGED <<queueVars, sent, busy, refused>> /\ waiting' = waiting \ {c}
    <2>1. queued' = queued /\ length' = length /\ Indices'
        BY <1>1, <1>2 DEF queued, length, Indices, queueVars
    <2>. QED
        BY <1>2, <2>1 DEF FatesInv
<1>3. CASE /\ ~uni_circular_buffer_is_empty /\ head_idx' = next(head_idx)
           /\ uni_hid_device_send_report(buffer[head_idx], FALSE, waiting \ {c})
    <2>1. /\ sent' = Append(sent, buffer[head_idx].id) /\ busy' \in BOOLEAN
          /\ UNCHANGED <<buffer, tail_idx, refused>>
          /\ waiting' = (waiting \ {c}) \cup {buffer[head_idx].cid}
        BY <1>3 DEF uni_hid_device_send_report, trySend
    <2>2. Indices' /\ queued # <<>> /\ queued' = Tail(queued) /\ buffer[head_idx] = Head(queued)
        BY <1>1, <1>3, <2>1, TakeLeavesTail
    <2>3. OneFate(sent', queued', made', refused', gone')
        BY <1>1, <2>1, <2>2, QueuedReport
    <2>4. LaidOut'
        BY <2>2, QueuedSeq, PTL
    <2>5. /\ length' = length - 1 /\ length \in Nat /\ 1 \in 1 .. length /\ Head(queued) = queued[1]
          /\ \A i \in 1 .. length - 1 : queued'[i] = queued[i + 1]
        BY <1>1, <2>2, <2>4 DEF LaidOut
    <2>6. \A i \in 1 .. length' : queued'[i].cid \in Channels
        BY <2>5 DEF FatesInv
    <2>7. waiting' \subseteq Channels
        BY <2>1, <2>2, <2>5 DEF FatesInv
    <2>. QED
        BY <2>1, <2>2, <2>3, <2>6, <2>7 DEF FatesInv
<1>. QED
    BY <1>2, <1>3 DEF uni_hid_device_send_queued_reports

(* At first there are no reports. *)
LEMMA InitFates == ReportsInit => FatesInv
<1>. SUFFICES ASSUME ReportsInit
              PROVE  FatesInv
    OBVIOUS
<1>. USE DEF ReportsInit
<1>1. Indices
    BY ReportConstants DEF Indices, Slots, wiped, Report
<1>2. length = 0 /\ queued = <<>>
    BY DEF length, queued
<1>3. OneFate(<<>>, <<>>, 0, {}, {})
    BY DEF OneFate, Distinct, DistinctIds, Apart, Numbers, ids
<1>4. OneFate(sent, queued, made, refused, gone)
    BY <1>2, <1>3
<1>5. \A i \in 1 .. length : queued[i].cid \in Channels
    BY <1>2
<1>. HIDE DEF ReportsInit
<1>6. /\ busy \in BOOLEAN /\ notifying \in BOOLEAN /\ signal \in BOOLEAN
      /\ waiting = {} /\ refused = {} /\ gone = {}
    BY DEF ReportsInit
<1>. QED
    BY <1>1, <1>4, <1>5, <1>6 DEF FatesInv

(* Every step keeps it that way. *)
LEMMA FatesStay == FatesInv /\ [ReportsNext]_reportVars => FatesInv'
<1>. SUFFICES ASSUME FatesInv, [ReportsNext]_reportVars
              PROVE  FatesInv'
    OBVIOUS
<1>1. ASSUME NEW c \in Channels, NEW big \in BOOLEAN, sendReport(c, big)
      PROVE  FatesInv'
    <2>1. waiting \subseteq Channels /\ notifying' \in BOOLEAN
        BY <1>1 DEF sendReport, FatesInv
    <2>. QED
        BY <1>1, <2>1, NewReportStep DEF sendReport
(* A step that leaves the reports where they are. *)
<1>2. ASSUME UNCHANGED <<queueVars, made, sent, refused, gone>>, waiting' = waiting,
             busy' \in BOOLEAN, notifying' \in BOOLEAN, signal' \in BOOLEAN
      PROVE  FatesInv'
    <2>1. queued' = queued /\ length' = length /\ Indices'
        BY <1>2 DEF queued, length, Indices, queueVars, FatesInv
    <2>. QED
        BY <1>2, <2>1 DEF FatesInv
<1>3. CASE l2cap_notify_channel_can_send
    <2>1. ASSUME NEW c \in waiting, ~busy, uni_hid_device_send_queued_reports(c), UNCHANGED notifying
          PROVE  FatesInv'
        BY <1>3, <2>1, QueuedReportStep DEF l2cap_notify_channel_can_send
    <2>2. CASE notifying' = FALSE /\ UNCHANGED <<queueVars, waiting, sent, busy, refused>>
        BY <1>2, <1>3, <2>2 DEF l2cap_notify_channel_can_send, FatesInv
    <2>. QED
        BY <1>3, <2>1, <2>2 DEF l2cap_notify_channel_can_send
<1>4. CASE controllerReady
    BY <1>2, <1>4 DEF controllerReady, FatesInv
<1>5. CASE packetSent
    BY <1>2, <1>5 DEF packetSent, FatesInv
<1>6. CASE uni_hid_device_delete
    <2>1. /\ buffer' = wiped /\ head_idx' = 0 /\ tail_idx' = 0 /\ waiting' = {}
          /\ gone' = gone \cup ids(queued)
          /\ UNCHANGED <<notifying, busy, signal, made, sent, refused>>
        BY <1>6 DEF uni_hid_device_delete
    <2>2. Indices'
        BY <2>1, ReportConstants DEF Indices, Slots, wiped, Report
    <2>3. length' = 0
        BY <2>1 DEF length
    <2>4. queued' = <<>>
        BY <2>3 DEF queued
    <2>5. OneFate(sent', queued', made', refused', gone')
        BY <2>1, <2>4, QueueGone DEF FatesInv
    <2>6. gone' \subseteq Nat
        BY <2>5 DEF OneFate
    <2>. QED
        BY <2>1, <2>2, <2>3, <2>5, <2>6 DEF FatesInv
<1>7. CASE UNCHANGED reportVars
    BY <1>2, <1>7 DEF reportVars, FatesInv
<1>. QED
    BY <1>1, <1>3, <1>4, <1>5, <1>6, <1>7 DEF ReportsNext

(* The invariant holds in every behaviour. *)
LEMMA FatesInvariant == ReportsSpec => []FatesInv
BY InitFates, FatesStay, PTL DEF ReportsSpec

-----------------------------------------------------------------------------
(* Distinct elements are as many as there are places. *)
LEMMA CountDistinct ==
    ASSUME NEW n \in Nat, NEW f, DOMAIN f = 1 .. n, \A i, j \in 1 .. n : f[i] = f[j] => i = j
    PROVE  Cardinality({f[i] : i \in 1 .. n}) = n
<1>. DEFINE T == {f[i] : i \in 1 .. n}
            g == [i \in 1 .. n |-> f[i]]
<1>1. g \in Bijection(1 .. n, T)
    <2>1. g \in [1 .. n -> T] /\ \A i, j \in 1 .. n : g[i] = g[j] => i = j
        OBVIOUS
    <2>2. \A t \in T : \E i \in 1 .. n : g[i] = t
        OBVIOUS
    <2>. HIDE DEF g, T
    <2>. QED
        BY <2>1, <2>2 DEF Bijection, Injection, Surjection, IsInjective
<1>2. IsFiniteSet(1 .. n) /\ Cardinality(1 .. n) = n
    BY FS_Interval
<1>. HIDE DEF g, T
<1>3. ExistsBijection(1 .. n, T)
    BY <1>1 DEF ExistsBijection
<1>4. Cardinality(T) = n
    BY <1>2, <1>3, FS_Bijection
<1>. QED
    BY <1>4 DEF T

(* However the controller, L2CAP and the parsers take turns, and however   *)
(* often the circular buffer wraps around: every report that was made was  *)
(* sent once, or waits in the buffer, or was turned away, or went with its *)
(* device.                                                                 *)
THEOREM EveryReportHasOneFate == ReportsSpec => []Accounted
<1>1. ASSUME FatesInv PROVE Accounted
    <2>. DEFINE S == {sent[i] : i \in DOMAIN sent}
                Q == ids(queued)
    <2>1. /\ sent \in Seq(Nat) /\ Distinct(sent) /\ DistinctIds(queued)
          /\ Apart(S, Q, refused, gone) /\ S \cup Q \cup refused \cup gone = 1 .. made
        BY <1>1 DEF FatesInv, OneFate, Numbers
    <2>2. LaidOut
        BY <1>1, QueuedSeq DEF FatesInv
    <2>3. Cardinality(S) = Len(sent)
        BY <2>1, CountDistinct DEF Distinct
    <2>4. Cardinality(Q) = length
        <3>. DEFINE f == [i \in 1 .. length |-> queued[i].id]
        <3>1. length \in Nat /\ DOMAIN queued = 1 .. length
            BY <2>2 DEF LaidOut
        <3>2. DOMAIN f = 1 .. length /\ \A i, j \in 1 .. length : f[i] = f[j] => i = j
            BY <2>1, <3>1 DEF DistinctIds
        <3>3. Q = {f[i] : i \in 1 .. length}
            BY <3>1 DEF ids
        <3>. HIDE DEF f, Q
        <3>. QED
            BY <3>1, <3>2, <3>3, CountDistinct
    <2>. HIDE DEF S, Q
    <2>. DEFINE fates == <<S, Q, refused, gone>>
    <2>5. /\ DOMAIN fates = 1 .. 4
          /\ fates[1] = S /\ fates[2] = Q /\ fates[3] = refused /\ fates[4] = gone
        OBVIOUS
    <2>. HIDE DEF fates
    <2>6. \A i, j \in DOMAIN fates : i # j => fates[i] \cap fates[j] = {}
        <3>1. \A i \in 1 .. 4 : i \in {1, 2, 3, 4}
            OBVIOUS
        <3>. QED
            BY <2>1, <2>5, <3>1 DEF Apart
    <2>7. UNION {fates[i] : i \in DOMAIN fates} = 1 .. made
        <3>1. {fates[i] : i \in DOMAIN fates} = {S, Q, refused, gone}
            BY <2>5
        <3>. QED
            BY <2>1, <3>1
    <2>. QED
        BY <2>3, <2>4, <2>5, <2>6, <2>7 DEF Accounted, fates, S, Q
<1>. QED
    BY <1>1, FatesInvariant, PTL

(* The indices of the circular buffer stay inside it, and only channels of *)
(* the device ever wait.                                                   *)
THEOREM ReportsTypeCorrect == ReportsSpec => []ReportsTypeOK
<1>1. FatesInv => ReportsTypeOK
    BY DEF FatesInv, Indices, OneFate, ReportsTypeOK
<1>. QED
    BY <1>1, FatesInvariant, PTL

-----------------------------------------------------------------------------
Moments == 0 .. Width - 1

(* btstack_time_delta is the one number of half a turn of the clock that   *)
(* differs from a - b by a whole turn or none.                             *)
LEMMA DeltaIs ==
    ASSUME NEW a \in Moments, NEW b \in Moments
    PROVE  /\ btstack_time_delta(a, b) \in Int
           /\ 0 - Width <= 2 * btstack_time_delta(a, b) /\ 2 * btstack_time_delta(a, b) < Width
           /\ a - b \in {btstack_time_delta(a, b), btstack_time_delta(a, b) + Width,
                         btstack_time_delta(a, b) - Width}
<1>. DEFINE d == (a - b) % Width
<1>1. Width \in Nat /\ a \in Int /\ b \in Int /\ 0 <= a /\ a < Width /\ 0 <= b /\ b < Width
    BY TimerConstants DEF Moments
<1>2. d \in Int /\ 0 <= d /\ d < Width /\ (d = a - b \/ d = a - b + Width)
    <2>1. CASE a >= b
        <3>1. d = a - b
            BY <1>1, <2>1
        <3>. QED
            BY <1>1, <2>1, <3>1
    <2>2. CASE a < b
        <3>1. d = a - b + Width
            BY <1>1, <2>2
        <3>. QED
            BY <1>1, <2>2, <3>1
    <2>. QED
        BY <1>1, <2>1, <2>2
<1>3. btstack_time_delta(a, b) = (IF 2 * d < Width THEN d ELSE d - Width)
    BY DEF btstack_time_delta
<1>. HIDE DEF d
<1>. QED
    BY <1>1, <1>2, <1>3

(* There is no other. *)
LEMMA DeltaOnly ==
    ASSUME NEW a \in Moments, NEW b \in Moments, NEW x \in Int,
           0 - Width <= 2 * x, 2 * x < Width, a - b \in {x, x + Width, x - Width}
    PROVE  btstack_time_delta(a, b) = x
<1>. DEFINE d == btstack_time_delta(a, b)
<1>1. /\ d \in Int /\ 0 - Width <= 2 * d /\ 2 * d < Width
      /\ a - b \in {d, d + Width, d - Width}
    BY DeltaIs
<1>2. Width \in Nat /\ a \in Int /\ b \in Int
    BY TimerConstants DEF Moments
<1>. HIDE DEF d
<1>3. d = x
    BY <1>1, <1>2
<1>. QED
    BY <1>3 DEF d

(* Differences add up while they lie in half a turn, ... *)
LEMMA DeltaSum ==
    ASSUME NEW a \in Moments, NEW b \in Moments, NEW c \in Moments,
           NEW x \in Int, NEW y \in Int,
           btstack_time_delta(a, b) = x, btstack_time_delta(b, c) = y,
           0 - Width <= 2 * (x + y), 2 * (x + y) < Width
    PROVE  btstack_time_delta(a, c) = x + y
<1>1. Width \in Nat /\ a \in Int /\ b \in Int /\ c \in Int
      /\ 0 <= a /\ a < Width /\ 0 <= c /\ c < Width
    BY TimerConstants DEF Moments
<1>2. a - b \in {x, x + Width, x - Width} /\ b - c \in {y, y + Width, y - Width}
    BY DeltaIs
<1>3. a - c \in {x + y, x + y + Width, x + y - Width}
    BY <1>1, <1>2
<1>. DEFINE z == x + y
<1>4. z \in Int /\ 0 - Width <= 2 * z /\ 2 * z < Width
    OBVIOUS
<1>6. a - c \in {z, z + Width, z - Width}
    <2>. x + y + Width = z + Width /\ x + y - Width = z - Width
        BY <1>1
    <2>. QED
        BY <1>3
<1>. HIDE DEF z
<1>5. btstack_time_delta(a, c) = z
    BY <1>4, <1>6, DeltaOnly
<1>. QED
    BY <1>5 DEF z

(* ... and change their sign with their direction. *)
LEMMA DeltaBack ==
    ASSUME NEW a \in Moments, NEW b \in Moments, NEW x \in Int,
           btstack_time_delta(a, b) = x, 0 - Width < 2 * x
    PROVE  btstack_time_delta(b, a) = 0 - x
<1>1. Width \in Nat /\ a \in Int /\ b \in Int
    BY TimerConstants DEF Moments
<1>2. a - b \in {x, x + Width, x - Width} /\ 2 * x < Width
    BY DeltaIs
<1>3. b - a \in {0 - x, 0 - x + Width, 0 - x - Width} /\ 0 - Width <= 2 * (0 - x)
      /\ 2 * (0 - x) < Width /\ 0 - x \in Int
    BY <1>1, <1>2
<1>. QED
    BY <1>3, DeltaOnly

(* The clock, n milliseconds after another time. *)
LEMMA DeltaLater ==
    ASSUME NEW c \in Moments, NEW n \in Nat, 2 * n < Width
    PROVE  (c + n) % Width \in Moments /\ btstack_time_delta((c + n) % Width, c) = n
<1>. DEFINE w == (c + n) % Width
<1>1. Width \in Nat /\ c \in Int /\ 0 <= c /\ c < Width
    BY TimerConstants DEF Moments
<1>2. w = c + n \/ w = c + n - Width
    <2>1. CASE c + n < Width
        BY <1>1, <2>1
    <2>2. CASE c + n >= Width
        <3>1. 0 <= c + n - Width /\ c + n - Width < Width
            BY <1>1, <2>2
        <3>. QED
            BY <1>1, <2>2, <3>1
    <2>. QED
        BY <1>1, <2>1, <2>2
<1>3. w \in Int /\ 0 <= w /\ w < Width
    BY <1>1
<1>. HIDE DEF w
<1>4. w \in Moments
    BY <1>1, <1>3 DEF Moments
<1>5. w - c \in {n, n + Width, n - Width} /\ n \in Int /\ 0 - Width <= 2 * n
    BY <1>1, <1>2
<1>6. btstack_time_delta(w, c) = n
    BY <1>4, <1>5, DeltaOnly
<1>. QED
    BY <1>4, <1>6 DEF w

(* A timer comes into the list in place n + 1, or leaves place n of it.    *)
Added(s, n, e, r) ==
    /\ Len(r) = Len(s) + 1
    /\ \A i \in 1 .. Len(s) + 1 : r[i] = IF i <= n THEN s[i] ELSE IF i = n + 1 THEN e ELSE s[i - 1]

Taken(s, n, r) ==
    /\ Len(r) = Len(s) - 1
    /\ \A i \in 1 .. Len(s) - 1 : r[i] = IF i < n THEN s[i] ELSE s[i + 1]

(* btstack_run_loop_base_add_timer puts an item in between. *)
LEMMA Inserted ==
    ASSUME NEW S, NEW s \in Seq(S), NEW n \in 0 .. Len(s), NEW e \in S
    PROVE  InsertAt(s, n + 1, e) \in Seq(S) /\ Added(s, n, e, InsertAt(s, n + 1, e))
<1>. DEFINE L == Len(s)
            m == L - n
            a == SubSeq(s, 1, n)
            b == SubSeq(s, n + 1, L)
            o == <<e>>
            c == a \o o
            r == c \o b
<1>1. L \in Nat /\ n \in Nat /\ n <= L
    BY LenProperties
<1>2. InsertAt(s, n + 1, e) = r
    <2>. DEFINE f == (n + 1) - 1
    <2>1. f = n
        BY <1>1
    <2>2. InsertAt(s, n + 1, e) = SubSeq(s, 1, f) \o <<e>> \o SubSeq(s, n + 1, Len(s))
        BY Zenon DEF InsertAt
    <2>. HIDE DEF f
    <2>. QED
        BY <2>1, <2>2, Zenon
<1>3. m \in Nat /\ n + m = L
    <2>. HIDE DEF L
    <2>. QED
        BY <1>1
<1>4. a \in Seq(S) /\ Len(a) = n /\ \A i \in 1 .. n : a[i] = s[i]
    <2>. PICK z \in Nat : z = 0
        OBVIOUS
    <2>1. z + n <= Len(s) /\ z + 1 = 1 /\ z + n = n /\ \A i \in 1 .. n : z + i = i
        BY <1>1
    <2>2. SubSeq(s, z + 1, z + n) = a
        BY <2>1
    <2>. QED
        BY <1>1, <2>1, <2>2, Part
<1>5. b \in Seq(S) /\ Len(b) = m /\ \A i \in 1 .. m : b[i] = s[n + i]
    <2>1. SubSeq(s, n + 1, n + m) = b /\ n + m <= Len(s)
        BY <1>1, <1>3
    <2>. HIDE DEF m, b
    <2>. QED
        BY <1>1, <1>3, <2>1, Part
<1>6. o \in Seq(S) /\ Len(o) = 1 /\ o[1] = e
    OBVIOUS
<1>. HIDE DEF m, a, b, o
<1>7. /\ c \in Seq(S) /\ Len(c) = n + 1
      /\ \A i \in 1 .. n + 1 : c[i] = IF i <= n THEN a[i] ELSE o[i - n]
    <2>1. /\ c \in Seq(S) /\ Len(c) = Len(a) + Len(o)
          /\ \A i \in 1 .. Len(a) + Len(o) : c[i] = IF i <= Len(a) THEN a[i] ELSE o[i - Len(a)]
        BY <1>4, <1>6, ConcatProperties
    <2>. HIDE DEF c
    <2>. QED
        BY <1>4, <1>6, <2>1
<1>. HIDE DEF c
<1>8. /\ r \in Seq(S) /\ Len(r) = n + 1 + m
      /\ \A i \in 1 .. n + 1 + m : r[i] = IF i <= n + 1 THEN c[i] ELSE b[i - (n + 1)]
    <2>1. /\ r \in Seq(S) /\ Len(r) = Len(c) + Len(b)
          /\ \A i \in 1 .. Len(c) + Len(b) : r[i] = IF i <= Len(c) THEN c[i] ELSE b[i - Len(c)]
        BY <1>5, <1>7, ConcatProperties
    <2>. HIDE DEF r
    <2>. QED
        BY <1>5, <1>7, <2>1
<1>. HIDE DEF r, L
<1>9. Len(r) = L + 1
    BY <1>1, <1>3, <1>8
<1>10. ASSUME NEW i \in 1 .. L + 1
       PROVE  r[i] = IF i <= n THEN s[i] ELSE IF i = n + 1 THEN e ELSE s[i - 1]
    <2>. i \in 1 .. n + 1 + m
        BY <1>1, <1>3
    <2>1. CASE i <= n
        <3>1. i \in 1 .. n /\ i \in 1 .. n + 1 /\ i <= n + 1
            BY <1>1, <2>1
        <3>2. r[i] = c[i]
            BY <1>8, <3>1
        <3>3. c[i] = a[i]
            BY <1>7, <2>1, <3>1
        <3>. QED
            BY <1>4, <2>1, <3>1, <3>2, <3>3
    <2>2. CASE i = n + 1
        <3>1. r[i] = c[n + 1]
            BY <1>1, <1>8, <2>2
        <3>2. c[n + 1] = o[1]
            <4>1. n + 1 \in 1 .. n + 1 /\ ~(n + 1 <= n) /\ n + 1 - n = 1
                BY <1>1
            <4>. QED
                BY <1>7, <4>1
        <3>. QED
            BY <1>1, <1>6, <2>2, <3>1, <3>2
    <2>3. CASE i > n + 1
        <3>1. r[i] = b[i - (n + 1)]
            BY <1>1, <1>8, <2>3
        <3>2. i - (n + 1) \in 1 .. m /\ n + (i - (n + 1)) = i - 1
            BY <1>1, <1>3, <2>3
        <3>3. b[i - (n + 1)] = s[i - 1]
            BY <1>5, <3>2
        <3>4. ~(i <= n) /\ i # n + 1
            BY <1>1, <2>3
        <3>. QED
            BY <3>1, <3>3, <3>4
    <2>. QED
        BY <1>1, <2>1, <2>2, <2>3
<1>. QED
    BY <1>2, <1>8, <1>9, <1>10 DEF L, Added

(* btstack_linked_list_remove leaves the others in order. *)
LEMMA Removed ==
    ASSUME NEW S, NEW s \in Seq(S), NEW n \in 1 .. Len(s)
    PROVE  RemoveAt(s, n) \in Seq(S) /\ Taken(s, n, RemoveAt(s, n))
<1>. DEFINE L == Len(s)
            l == n - 1
            m == L - n
            a == SubSeq(s, 1, l)
            b == SubSeq(s, n + 1, L)
            r == a \o b
<1>1. L \in Nat /\ n \in Nat /\ 1 <= n /\ n <= L
    BY LenProperties
<1>2. RemoveAt(s, n) = r
    BY DEF RemoveAt
<1>3. m \in Nat /\ n + m = L /\ l \in Nat /\ l + 1 = n
    <2>. HIDE DEF L
    <2>. QED
        BY <1>1
<1>4. a \in Seq(S) /\ Len(a) = l /\ \A i \in 1 .. l : a[i] = s[i]
    <2>. PICK z \in Nat : z = 0
        OBVIOUS
    <2>. HIDE DEF l, a
    <2>1. z + l <= Len(s) /\ z + 1 = 1 /\ z + l = l /\ \A i \in 1 .. l : z + i = i
        BY <1>1, <1>3
    <2>2. SubSeq(s, z + 1, z + l) = a
        BY <2>1 DEF a
    <2>. QED
        BY <1>1, <1>3, <2>1, <2>2, Part
<1>5. b \in Seq(S) /\ Len(b) = m /\ \A i \in 1 .. m : b[i] = s[n + i]
    <2>1. SubSeq(s, n + 1, n + m) = b /\ n + m <= Len(s)
        BY <1>1, <1>3
    <2>. HIDE DEF m, b
    <2>. QED
        BY <1>1, <1>3, <2>1, Part
<1>. HIDE DEF l, m, a, b
<1>6. /\ r \in Seq(S) /\ Len(r) = l + m
      /\ \A i \in 1 .. l + m : r[i] = IF i <= l THEN a[i] ELSE b[i - l]
    <2>1. /\ r \in Seq(S) /\ Len(r) = Len(a) + Len(b)
          /\ \A i \in 1 .. Len(a) + Len(b) : r[i] = IF i <= Len(a) THEN a[i] ELSE b[i - Len(a)]
        BY <1>4, <1>5, ConcatProperties
    <2>. HIDE DEF r
    <2>. QED
        BY <1>4, <1>5, <2>1
<1>. HIDE DEF r, L
<1>7. Len(r) = L - 1
    BY <1>1, <1>3, <1>6
<1>8. ASSUME NEW i \in 1 .. L - 1
      PROVE  r[i] = IF i < n THEN s[i] ELSE s[i + 1]
    <2>. i \in 1 .. l + m
        BY <1>1, <1>3
    <2>1. CASE i < n
        <3>1. r[i] = a[i] /\ a[i] = s[i]
            BY <1>1, <1>3, <1>4, <1>6, <2>1
        <3>. QED
            BY <2>1, <3>1
    <2>2. CASE ~(i < n)
        <3>1. r[i] = b[i - l]
            BY <1>1, <1>3, <1>6, <2>2
        <3>2. i - l \in 1 .. m /\ n + (i - l) = i + 1
            BY <1>1, <1>3, <2>2
        <3>3. b[i - l] = s[i + 1]
            BY <1>5, <3>2
        <3>. QED
            BY <2>2, <3>1, <3>3
    <2>. QED
        BY <2>1, <2>2
<1>. QED
    BY <1>2, <1>6, <1>7, <1>8 DEF L, Taken

-----------------------------------------------------------------------------
(* The invariant.                                                          *)
left(t) == btstack_time_delta(timeout[t], clock)

InTime ==
    \A i \in DOMAIN timers :
        0 - MaxLate <= left(timers[i]) /\ \E ms \in Timeouts : left(timers[i]) <= ms + 1

InOrder == \A i, j \in DOMAIN timers : i <= j => left(timers[i]) <= left(timers[j])

ReadLately ==
    place = "timers" => 0 <= btstack_time_delta(clock, now) /\ btstack_time_delta(clock, now) <= MaxLate

TimersInv == TimersTypeOK /\ InTime /\ InOrder /\ ReadLately

(* Every pending time lies in half a turn of the clock, with the time that *)
(* the run loop has read.                                                  *)
LEMMA HalfATurn ==
    ASSUME TimersInv, NEW i \in DOMAIN timers
    PROVE  /\ timers[i] \in Timers /\ timeout[timers[i]] \in Moments /\ clock \in Moments
           /\ left(timers[i]) \in Int
           /\ 2 * (left(timers[i]) + MaxLate) < Width /\ 0 - MaxLate <= left(timers[i])
           /\ 2 * MaxLate < Width
<1>1. timers[i] \in Timers /\ timeout[timers[i]] \in Moments /\ clock \in Moments
    <2>1. timers \in Seq(Timers) /\ timeout \in [Timers -> Moments] /\ clock \in Moments
        BY DEF TimersInv, TimersTypeOK, Moments
    <2>. QED
        BY <2>1, LenProperties, ElementOfSeq
<1>2. left(timers[i]) \in Int
    BY <1>1, DeltaIs DEF left
<1>3. PICK ms \in Timeouts : left(timers[i]) <= ms + 1
    BY DEF TimersInv, InTime
<1>4. 0 - MaxLate <= left(timers[i])
    BY DEF TimersInv, InTime
<1>5. ms \in Nat /\ MaxLate \in Nat /\ Width \in Nat /\ 2 * (ms + 1 + MaxLate) < Width /\ 2 * MaxLate < Width
    BY TimerConstants
<1>. DEFINE l == left(timers[i])
<1>. HIDE DEF l
<1>6. 2 * (l + MaxLate) < Width
    BY <1>2, <1>3, <1>5 DEF l
<1>. QED
    BY <1>1, <1>2, <1>4, <1>5, <1>6 DEF l

(* The place of a new timer. *)
LEMMA PlaceForIt ==
    ASSUME TimersInv, NEW t \in Timers, NEW ms \in Timeouts, NEW dueAt, dueAt = (clock + ms + 1) % Width
    PROVE  /\ dueAt \in Moments /\ btstack_time_delta(dueAt, clock) = ms + 1
           /\ \E n \in 0 .. Len(timers) :
                /\ btstack_run_loop_base_add_timer(t, dueAt) = InsertAt(timers, n + 1, t)
                /\ \A i \in 1 .. n : left(timers[i]) <= ms + 1
                /\ \A i \in n + 1 .. Len(timers) : ms + 1 <= left(timers[i])
<1>. DEFINE L == Len(timers)
<1>1. timers \in Seq(Timers) /\ L \in Nat /\ DOMAIN timers = 1 .. L /\ clock \in Moments
    BY LenProperties DEF TimersInv, TimersTypeOK, Moments
<1>2. ms \in Nat /\ MaxLate \in Nat /\ Width \in Nat /\ 2 * (ms + 1 + MaxLate) < Width
    BY TimerConstants
<1>3. dueAt \in Moments /\ btstack_time_delta(dueAt, clock) = ms + 1
    <2>. DEFINE n == ms + 1
    <2>1. n \in Nat /\ 2 * n < Width
        BY <1>2
    <2>2. clock + ms + 1 = clock + n
        BY <1>1, <1>2 DEF Moments
    <2>. HIDE DEF n
    <2>3. (clock + n) % Width \in Moments /\ btstack_time_delta((clock + n) % Width, clock) = n
        BY <1>1, <2>1, DeltaLater
    <2>. QED
        BY <2>2, <2>3 DEF n
<1>4. ASSUME NEW i \in 1 .. L
      PROVE  /\ left(timers[i]) \in Int
             /\ btstack_time_delta(dueAt, timeout[timers[i]]) = ms + 1 - left(timers[i])
    <2>. DEFINE u == timeout[timers[i]]
                l == left(timers[i])
    <2>1. /\ u \in Moments /\ l \in Int /\ 2 * (l + MaxLate) < Width /\ 0 - MaxLate <= l
          /\ 2 * MaxLate < Width
        BY <1>1, HalfATurn
    <2>2. btstack_time_delta(u, clock) = l
        BY DEF left
    <2>. HIDE DEF u, l
    <2>3. btstack_time_delta(clock, u) = 0 - l
        <3>1. 0 - Width < 2 * l
            BY <1>2, <2>1
        <3>. QED
            BY <1>1, <2>1, <2>2, <3>1, DeltaBack
    <2>. DEFINE a == ms + 1
                b == 0 - l
    <2>4. a \in Int /\ b \in Int /\ 0 - Width <= 2 * (a + b) /\ 2 * (a + b) < Width
        BY <1>2, <2>1
    <2>5. a + b = ms + 1 - l
        BY <1>2, <2>1
    <2>6. btstack_time_delta(dueAt, clock) = a /\ btstack_time_delta(clock, u) = b
        BY <1>3, <2>3
    <2>. HIDE DEF a, b
    <2>7. btstack_time_delta(dueAt, u) = a + b
        BY <1>1, <1>3, <2>1, <2>4, <2>6, DeltaSum
    <2>. QED
        BY <2>1, <2>5, <2>7 DEF u, l
<1>. DEFINE Fits(n) ==
                /\ \A i \in 1 .. n : btstack_time_delta(dueAt, timeout[timers[i]]) >= 0
                /\ n < Len(timers) => btstack_time_delta(dueAt, timeout[timers[n + 1]]) < 0
            T == {n \in 0 .. L : n < L => btstack_time_delta(dueAt, timeout[timers[n + 1]]) < 0}
<1>5. \E n \in 0 .. L : Fits(n)
    <2>. DEFINE R == OpToRel(<, Nat)
    <2>1. IsWellFoundedOn(R, Nat)
        BY NatLessThanWellFounded
    <2>2. \A p, q \in Nat : <<p, q>> \in R <=> p < q
        BY DEF OpToRel
    <2>. HIDE DEF R
    <2>3. T \subseteq Nat /\ L \in T
        BY <1>1
    <2>4. PICK n \in T : \A k \in T : ~(<<k, n>> \in R)
        <3>. HIDE DEF T
        <3>. QED
            BY <2>1, <2>3, WFMin
    <2>5. n \in 0 .. L /\ \A k \in T : ~(k < n)
        BY <2>2, <2>3, <2>4
    <2>6. ASSUME NEW i \in 1 .. n PROVE btstack_time_delta(dueAt, timeout[timers[i]]) >= 0
        <3>1. PICK k \in 0 .. L : k + 1 = i /\ k < n /\ k < L
            BY <1>1, <2>5
        <3>2. k \notin T
            BY <2>5, <3>1
        <3>3. ~(btstack_time_delta(dueAt, timeout[timers[i]]) < 0)
            BY <3>1, <3>2
        <3>4. btstack_time_delta(dueAt, timeout[timers[i]]) \in Int
            <4>1. i \in 1 .. L
                BY <3>1
            <4>2. ms + 1 - left(timers[i]) \in Int
                BY <1>2, <1>4, <4>1
            <4>. QED
                BY <1>4, <4>1, <4>2
        <3>. QED
            BY <3>3, <3>4
    <2>7. n < Len(timers) => btstack_time_delta(dueAt, timeout[timers[n + 1]]) < 0
        BY <2>4
    <2>. QED
        BY <2>5, <2>6, <2>7
<1>. DEFINE n == CHOOSE n \in 0 .. Len(timers) : Fits(n)
<1>6. n \in 0 .. L /\ Fits(n)
    BY <1>5
<1>7. btstack_run_loop_base_add_timer(t, dueAt) = InsertAt(timers, n + 1, t)
    BY DEF btstack_run_loop_base_add_timer
<1>. HIDE DEF n
<1>8. ASSUME NEW i \in 1 .. n PROVE left(timers[i]) <= ms + 1
    <2>1. i \in 1 .. L /\ btstack_time_delta(dueAt, timeout[timers[i]]) >= 0
        BY <1>1, <1>6
    <2>. DEFINE l == left(timers[i])
    <2>2. l \in Int /\ ms + 1 - l >= 0
        BY <1>4, <2>1
    <2>. HIDE DEF l
    <2>3. l <= ms + 1
        BY <1>2, <2>2
    <2>. QED
        BY <2>3 DEF l
<1>9. ASSUME NEW i \in n + 1 .. L PROVE ms + 1 <= left(timers[i])
    <2>1. n + 1 \in 1 .. L /\ i \in 1 .. L /\ n < Len(timers) /\ n + 1 <= i
        BY <1>1, <1>6
    <2>. DEFINE l == left(timers[n + 1])
                m == left(timers[i])
    <2>2. btstack_time_delta(dueAt, timeout[timers[n + 1]]) < 0
        BY <1>6, <2>1
    <2>3. l \in Int /\ m \in Int /\ ms + 1 - l < 0
        BY <1>4, <2>1, <2>2
    <2>4. l <= m
        BY <1>1, <2>1 DEF TimersInv, InOrder
    <2>. HIDE DEF l, m
    <2>5. ms + 1 <= m
        BY <1>2, <2>3, <2>4
    <2>. QED
        BY <2>5 DEF m
<1>. QED
    BY <1>3, <1>6, <1>7, <1>8, <1>9

-----------------------------------------------------------------------------
(* What is on the list then. *)
LEMMA RangeAdded ==
    ASSUME NEW S, NEW s \in Seq(S), NEW r \in Seq(S), NEW n \in 0 .. Len(s), NEW e \in S,
           Added(s, n, e, r), IsInjective(s), e \notin Range(s)
    PROVE  Range(r) = Range(s) \cup {e} /\ IsInjective(r)
<1>. DEFINE L == Len(s)
<1>1. L \in Nat /\ DOMAIN s = 1 .. L /\ DOMAIN r = 1 .. L + 1
    BY LenProperties DEF Added
<1>2. \A i \in 1 .. L + 1 : r[i] = IF i <= n THEN s[i] ELSE IF i = n + 1 THEN e ELSE s[i - 1]
    BY DEF Added
<1>3. n \in Nat /\ n <= L
    BY <1>1
<1>4. \A i, j \in 1 .. L : s[i] = s[j] => i = j
    BY <1>1 DEF IsInjective
<1>5. \A i \in 1 .. L : s[i] # e
    BY <1>1 DEF Range
<1>. HIDE DEF L
<1>6. ASSUME NEW x \in Range(r) PROVE x \in Range(s) \cup {e}
    <2>1. PICK i \in 1 .. L + 1 : x = r[i]
        BY <1>1 DEF Range
    <2>2. CASE i <= n
        <3>1. i \in 1 .. L /\ x = s[i]
            BY <1>1, <1>2, <1>3, <2>1, <2>2
        <3>. QED
            BY <1>1, <3>1 DEF Range
    <2>3. CASE i = n + 1
        <3>1. ~(i <= n)
            BY <1>3, <2>3
        <3>. QED
            BY <1>2, <2>1, <2>3, <3>1
    <2>4. CASE i > n + 1
        <3>1. ~(i <= n) /\ i # n + 1 /\ i - 1 \in 1 .. L
            BY <1>1, <1>3, <2>4
        <3>2. x = s[i - 1]
            BY <1>2, <2>1, <3>1
        <3>. QED
            BY <1>1, <3>1, <3>2 DEF Range
    <2>. QED
        BY <1>3, <2>2, <2>3, <2>4
<1>7. ASSUME NEW x \in Range(s) \cup {e} PROVE x \in Range(r)
    <2>1. CASE x = e
        <3>1. n + 1 \in 1 .. L + 1 /\ ~(n + 1 <= n)
            BY <1>1, <1>3
        <3>2. r[n + 1] = e
            BY <1>2, <3>1
        <3>. QED
            BY <1>1, <2>1, <3>1, <3>2 DEF Range
    <2>2. ASSUME NEW i \in 1 .. L, x = s[i] PROVE x \in Range(r)
        <3>1. CASE i <= n
            <4>1. i \in 1 .. L + 1 /\ r[i] = x
                BY <1>1, <1>2, <2>2, <3>1
            <4>. QED
                BY <1>1, <4>1 DEF Range
        <3>2. CASE ~(i <= n)
            <4>1. i + 1 \in 1 .. L + 1 /\ ~(i + 1 <= n) /\ i + 1 # n + 1 /\ (i + 1) - 1 = i
                BY <1>1, <1>3, <3>2
            <4>2. r[i + 1] = x
                BY <1>2, <2>2, <4>1
            <4>. QED
                BY <1>1, <4>1, <4>2 DEF Range
        <3>. QED
            BY <3>1, <3>2
    <2>. QED
        BY <1>1, <2>1, <2>2 DEF Range
<1>8. ASSUME NEW i \in 1 .. L + 1, NEW j \in 1 .. L + 1, r[i] = r[j] PROVE i = j
    <2>1. \A k \in 1 .. L + 1 :
             \/ k <= n /\ k \in 1 .. L /\ r[k] = s[k]
             \/ k = n + 1 /\ r[k] = e
             \/ k > n + 1 /\ k - 1 \in 1 .. L /\ r[k] = s[k - 1]
        BY <1>1, <1>2, <1>3
    <2>. QED
        BY <1>1, <1>3, <1>4, <1>5, <1>8, <2>1
<1>. QED
    BY <1>1, <1>6, <1>7, <1>8 DEF IsInjective

(* What is left on the list. *)
LEMMA RangeTaken ==
    ASSUME NEW S, NEW s \in Seq(S), NEW r \in Seq(S), NEW n \in 1 .. Len(s),
           Taken(s, n, r), IsInjective(s)
    PROVE  Range(r) = Range(s) \ {s[n]} /\ IsInjective(r)
<1>. DEFINE L == Len(s)
<1>1. L \in Nat /\ DOMAIN s = 1 .. L /\ Len(r) = L - 1 /\ DOMAIN r = 1 .. L - 1
    BY LenProperties DEF Taken
<1>2. \A i \in 1 .. L - 1 : r[i] = IF i < n THEN s[i] ELSE s[i + 1]
    BY DEF Taken
<1>3. n \in Nat /\ 1 <= n /\ n <= L
    BY <1>1
<1>4. \A i, j \in 1 .. L : s[i] = s[j] => i = j
    BY <1>1 DEF IsInjective
<1>. HIDE DEF L
<1>5. \A k \in 1 .. L - 1 :
         \/ k < n /\ k \in 1 .. L /\ r[k] = s[k]
         \/ k >= n /\ k + 1 \in 1 .. L /\ r[k] = s[k + 1]
    BY <1>1, <1>2, <1>3
<1>6. ASSUME NEW x \in Range(r) PROVE x \in Range(s) \ {s[n]}
    <2>1. PICK i \in 1 .. L - 1 : x = r[i]
        BY <1>1 DEF Range
    <2>2. PICK k \in 1 .. L : k # n /\ x = s[k]
        <3>1. CASE i < n /\ i \in 1 .. L /\ r[i] = s[i]
            BY <1>3, <2>1, <3>1
        <3>2. CASE i >= n /\ i + 1 \in 1 .. L /\ r[i] = s[i + 1]
            BY <1>3, <2>1, <3>2
        <3>. QED
            BY <1>5, <3>1, <3>2
    <2>3. n \in 1 .. L
        BY <1>1, <1>3
    <2>. QED
        BY <1>1, <1>4, <2>2, <2>3 DEF Range
<1>7. ASSUME NEW x \in Range(s) \ {s[n]} PROVE x \in Range(r)
    <2>1. PICK i \in 1 .. L : x = s[i] /\ i # n
        BY <1>1 DEF Range
    <2>2. CASE i < n
        <3>1. i \in 1 .. L - 1 /\ r[i] = x
            BY <1>1, <1>2, <1>3, <2>1, <2>2
        <3>. QED
            BY <1>1, <3>1 DEF Range
    <2>3. CASE ~(i < n)
        <3>1. i - 1 \in 1 .. L - 1 /\ ~(i - 1 < n) /\ (i - 1) + 1 = i
            BY <1>1, <1>3, <2>1, <2>3
        <3>2. r[i - 1] = x
            BY <1>2, <2>1, <3>1
        <3>. QED
            BY <1>1, <3>1, <3>2 DEF Range
    <2>. QED
        BY <2>2, <2>3
<1>8. ASSUME NEW i \in 1 .. L - 1, NEW j \in 1 .. L - 1, r[i] = r[j] PROVE i = j
    BY <1>1, <1>3, <1>4, <1>5, <1>8
<1>. QED
    BY <1>1, <1>6, <1>7, <1>8 DEF IsInjective

(* The first item is taken off. *)
LEMMA HeadTaken ==
    ASSUME NEW S, NEW s \in Seq(S), s # <<>>
    PROVE  Tail(s) \in Seq(S) /\ Taken(s, 1, Tail(s)) /\ 1 \in 1 .. Len(s) /\ Head(s) = s[1]
<1>1. Len(s) \in Nat /\ Len(s) # 0
    BY EmptySeq
<1>2. /\ Tail(s) \in Seq(S) /\ Len(Tail(s)) = Len(s) - 1
      /\ \A i \in 1 .. Len(Tail(s)) : Tail(s)[i] = s[i + 1]
    BY HeadTailProperties
<1>3. \A i \in 1 .. Len(s) - 1 : ~(i < 1)
    BY <1>1
<1>4. Taken(s, 1, Tail(s))
    BY <1>2, <1>3 DEF Taken
<1>5. Head(s) = s[1]
    OBVIOUS
<1>. QED
    BY <1>1, <1>2, <1>4, <1>5

-----------------------------------------------------------------------------
(* The steps of the handlers. *)
(* What is left for each timer on the list, in the service that is promised. *)
Left == [t \in Range(timers) |-> btstack_time_delta(timeout[t], clock)]

(* A handler sets a timer and adds it: the list stays in order. *)
LEMMA SetStep ==
    ASSUME TimersInv, NEW t \in Timers, NEW ms \in Timeouts, setAndAdd(t, ms)
    PROVE  TimersInv' /\ Service!Arm(t, ms)
<1>. DEFINE dueAt == (clock + ms + 1) % Width
            L == Len(timers)
<1>1. /\ timers' = btstack_run_loop_base_add_timer(t, dueAt)
      /\ timeout' = [timeout EXCEPT ![t] = dueAt]
      /\ fired' = nobody /\ UNCHANGED <<clock, now, place, sleep>> /\ t \notin Range(timers)
    BY DEF setAndAdd, listed
<1>2. /\ timers \in Seq(Timers) /\ IsInjective(timers) /\ timeout \in [Timers -> Moments]
      /\ clock \in Moments /\ L \in Nat /\ DOMAIN timers = 1 .. L
    BY LenProperties DEF TimersInv, TimersTypeOK, Moments
<1>3. dueAt \in Moments /\ btstack_time_delta(dueAt, clock) = ms + 1
    BY PlaceForIt
<1>4. PICK n \in 0 .. L :
         /\ timers' = InsertAt(timers, n + 1, t)
         /\ \A i \in 1 .. n : left(timers[i]) <= ms + 1
         /\ \A i \in n + 1 .. L : ms + 1 <= left(timers[i])
    BY <1>1, PlaceForIt
<1>. HIDE DEF dueAt, L
<1>5. timers' \in Seq(Timers) /\ Added(timers, n, t, timers')
    <2>1. n \in 0 .. Len(timers)
        BY DEF L
    <2>. QED
        BY <1>2, <1>4, <2>1, Inserted
<1>6. Range(timers') = Range(timers) \cup {t} /\ IsInjective(timers')
    BY <1>1, <1>2, <1>5, RangeAdded DEF L
<1>7. timeout' \in [Timers -> Moments]
    BY <1>1, <1>2, <1>3
<1>8. TimersTypeOK'
    BY <1>1, <1>2, <1>5, <1>6, <1>7 DEF TimersInv, TimersTypeOK, Moments
<1>9. ms \in Nat /\ MaxLate \in Nat /\ n \in Nat /\ n <= L
    BY <1>2, TimerConstants
<1>10. \A i \in 1 .. L : /\ timers[i] \in Timers /\ timers[i] # t /\ left(timers[i]) \in Int
                         /\ btstack_time_delta(timeout'[timers[i]], clock') = left(timers[i])
    <2>1. ASSUME NEW i \in 1 .. L
          PROVE  timers[i] \in Timers /\ timers[i] # t /\ left(timers[i]) \in Int
        <3>1. timers[i] \in Timers /\ left(timers[i]) \in Int
            BY <1>2, HalfATurn
        <3>. QED
            BY <1>1, <1>2, <3>1 DEF Range
    <2>. QED
        BY <1>1, <1>2, <2>1 DEF left
<1>11. btstack_time_delta(timeout'[t], clock') = ms + 1
    BY <1>1, <1>2, <1>3
<1>. DEFINE h(k) == btstack_time_delta(timeout'[timers'[k]], clock')
            g(k) == left(timers[k])
<1>12. DOMAIN timers' = 1 .. L + 1
    BY <1>2, <1>5, LenProperties DEF Added, L
<1>13. \A k \in 1 .. L + 1 :
          \/ k <= n /\ k \in 1 .. L /\ h(k) = g(k)
          \/ k = n + 1 /\ h(k) = ms + 1
          \/ k > n + 1 /\ k - 1 \in 1 .. L /\ h(k) = g(k - 1)
    <2>. TAKE k \in 1 .. L + 1
    <2>1. timers'[k] = IF k <= n THEN timers[k] ELSE IF k = n + 1 THEN t ELSE timers[k - 1]
        BY <1>5 DEF Added, L
    <2>2. CASE k <= n
        BY <1>2, <1>9, <1>10, <2>1, <2>2
    <2>3. CASE k = n + 1
        <3>1. ~(k <= n)
            BY <1>9, <2>3
        <3>2. timers'[k] = t
            BY <2>1, <2>3, <3>1
        <3>. QED
            BY <1>11, <2>3, <3>2
    <2>4. CASE k > n + 1
        <3>1. ~(k <= n) /\ k # n + 1 /\ k - 1 \in 1 .. L
            BY <1>2, <1>9, <2>4
        <3>2. timers'[k] = timers[k - 1]
            BY <2>1, <3>1
        <3>. QED
            BY <1>10, <2>4, <3>1, <3>2
    <2>. QED
        BY <1>9, <2>2, <2>3, <2>4
<1>14. \A i \in 1 .. L : /\ g(i) \in Int /\ 0 - MaxLate <= g(i)
                         /\ \E m \in Timeouts : g(i) <= m + 1
    BY <1>2, <1>10 DEF TimersInv, InTime
<1>15. \A i, j \in 1 .. L : i <= j => g(i) <= g(j)
    BY <1>2 DEF TimersInv, InOrder
<1>16. (\A i \in 1 .. n : g(i) <= ms + 1) /\ (\A i \in n + 1 .. L : ms + 1 <= g(i))
    BY <1>4
<1>17. \A k \in 1 .. L + 1 : h(k) = (left(timers[k]))'
    BY DEF left
<1>. HIDE DEF h, g
<1>18. ASSUME NEW k \in 1 .. L + 1
       PROVE  0 - MaxLate <= h(k) /\ \E m \in Timeouts : h(k) <= m + 1
    <2>1. CASE k = n + 1 /\ h(k) = ms + 1
        BY <1>9, <2>1
    <2>2. CASE k <= n /\ k \in 1 .. L /\ h(k) = g(k)
        BY <1>14, <2>2
    <2>3. CASE k > n + 1 /\ k - 1 \in 1 .. L /\ h(k) = g(k - 1)
        BY <1>14, <2>3
    <2>. QED
        BY <1>13, <2>1, <2>2, <2>3
<1>19. ASSUME NEW i \in 1 .. L + 1, NEW j \in 1 .. L + 1, i <= j
       PROVE  h(i) <= h(j)
    <2>1. CASE i <= n /\ i \in 1 .. L /\ h(i) = g(i)
        <3>1. i \in 1 .. n
            BY <1>9, <2>1
        <3>2. CASE j <= n /\ j \in 1 .. L /\ h(j) = g(j)
            BY <1>15, <1>19, <2>1, <3>2
        <3>3. CASE j = n + 1 /\ h(j) = ms + 1
            BY <1>16, <2>1, <3>1, <3>3
        <3>4. CASE j > n + 1 /\ j - 1 \in 1 .. L /\ h(j) = g(j - 1)
            <4>1. i <= j - 1
                BY <1>9, <2>1, <3>4
            <4>. QED
                BY <1>15, <2>1, <3>4, <4>1
        <3>. QED
            BY <1>13, <3>2, <3>3, <3>4
    <2>2. CASE i = n + 1 /\ h(i) = ms + 1
        <3>1. CASE j = n + 1 /\ h(j) = ms + 1
            BY <1>9, <2>2, <3>1
        <3>2. CASE j > n + 1 /\ j - 1 \in 1 .. L /\ h(j) = g(j - 1)
            <4>1. j - 1 \in n + 1 .. L
                BY <1>2, <1>9, <3>2
            <4>. QED
                BY <1>16, <2>2, <3>2, <4>1
        <3>3. ~(j <= n)
            BY <1>9, <1>19, <2>2
        <3>. QED
            BY <1>13, <3>1, <3>2, <3>3
    <2>3. CASE i > n + 1 /\ i - 1 \in 1 .. L /\ h(i) = g(i - 1)
        <3>1. ~(j <= n) /\ j # n + 1
            BY <1>9, <1>19, <2>3
        <3>2. j - 1 \in 1 .. L /\ h(j) = g(j - 1)
            BY <1>13, <3>1
        <3>3. i - 1 <= j - 1
            BY <1>19
        <3>. QED
            BY <1>15, <2>3, <3>2, <3>3
    <2>. QED
        BY <1>13, <2>1, <2>2, <2>3
<1>20. InTime' /\ InOrder'
    BY <1>12, <1>17, <1>18, <1>19 DEF InTime, InOrder
<1>21. ReadLately'
    BY <1>1 DEF TimersInv, ReadLately
<1>22. Service!Arm(t, ms)
    <2>1. /\ Service!armed = Range(timers) /\ t \notin Service!armed /\ fired' = nobody
        BY <1>1 DEF Service!armed
    <2>2. Left' = [u \in Range(timers) \cup {t} |-> IF u = t THEN ms + 1 ELSE Left[u]]
        <3>1. Left' = [u \in Range(timers) \cup {t} |-> btstack_time_delta(timeout'[u], clock')]
            BY <1>6 DEF Left
        <3>2. ASSUME NEW u \in Range(timers) \cup {t}
              PROVE  btstack_time_delta(timeout'[u], clock') = IF u = t THEN ms + 1 ELSE Left[u]
            <4>1. CASE u = t
                BY <1>11, <4>1
            <4>2. CASE u # t
                <5>1. u \in Timers /\ timeout'[u] = timeout[u]
                    BY <1>1, <1>2, <3>2, <4>2, RangeOfSeq
                <5>. QED
                    BY <1>1, <3>2, <4>2, <5>1 DEF Left
            <4>. QED
                BY <4>1, <4>2
        <3>. QED
            BY <3>1, <3>2
    <2>. QED
        BY <2>1, <2>2 DEF Service!Arm, Service!nobody, nobody, Left
<1>. QED
    BY <1>8, <1>20, <1>21, <1>22 DEF TimersInv

(* A timer leaves the list: removed by a handler or about to be called. *)
LEMMA LeaveStep ==
    ASSUME TimersInv, NEW n \in 1 .. Len(timers), Taken(timers, n, timers'), timers' \in Seq(Timers),
           fired' \in Timers \cup {nobody}, UNCHANGED <<timeout, clock, now, place, sleep>>
    PROVE  /\ TimersInv'
           /\ Left' = [u \in Range(timers) \ {timers[n]} |-> Left[u]]
<1>. DEFINE L == Len(timers)
<1>1. /\ timers \in Seq(Timers) /\ IsInjective(timers) /\ L \in Nat /\ DOMAIN timers = 1 .. L
      /\ n \in Nat /\ 1 <= n /\ n <= L
    BY LenProperties DEF TimersInv, TimersTypeOK
<1>2. Range(timers') = Range(timers) \ {timers[n]} /\ IsInjective(timers')
    BY <1>1, RangeTaken
<1>3. TimersTypeOK'
    BY <1>2 DEF TimersInv, TimersTypeOK
<1>4. DOMAIN timers' = 1 .. L - 1
    BY LenProperties DEF Taken
<1>5. \A k \in 1 .. L - 1 :
         \/ k < n /\ k \in 1 .. L /\ (left(timers[k]))' = left(timers[k])
         \/ k >= n /\ k + 1 \in 1 .. L /\ (left(timers[k]))' = left(timers[k + 1])
    <2>. TAKE k \in 1 .. L - 1
    <2>1. timers'[k] = IF k < n THEN timers[k] ELSE timers[k + 1]
        BY DEF Taken
    <2>. HIDE DEF L
    <2>2. CASE k < n
        <3>1. k \in 1 .. L
            BY <1>1, <2>2
        <3>. QED
            BY <2>1, <2>2, <3>1 DEF left
    <2>3. CASE ~(k < n)
        <3>1. k + 1 \in 1 .. L /\ k >= n
            BY <1>1, <2>3
        <3>. QED
            BY <2>1, <2>3, <3>1 DEF left
    <2>. QED
        BY <2>2, <2>3
<1>. DEFINE h(k) == (left(timers[k]))'
            g(k) == left(timers[k])
<1>6. /\ \A k \in 1 .. L : 0 - MaxLate <= g(k) /\ \E m \in Timeouts : g(k) <= m + 1
      /\ \A i, j \in 1 .. L : i <= j => g(i) <= g(j)
    BY <1>1 DEF TimersInv, InTime, InOrder
<1>. HIDE DEF g, L
<1>7. \A k \in 1 .. L - 1 :
         \/ k < n /\ k \in 1 .. L /\ h(k) = g(k)
         \/ k >= n /\ k + 1 \in 1 .. L /\ h(k) = g(k + 1)
    BY <1>5 DEF g
<1>. HIDE DEF h
<1>8. \A k \in 1 .. L - 1 : 0 - MaxLate <= h(k) /\ \E m \in Timeouts : h(k) <= m + 1
    BY <1>6, <1>7
<1>9. ASSUME NEW i \in 1 .. L - 1, NEW j \in 1 .. L - 1, i <= j
      PROVE  h(i) <= h(j)
    <2>1. PICK a \in 1 .. L : h(i) = g(a) /\ ((i < n /\ a = i) \/ (i >= n /\ a = i + 1))
        <3>1. CASE i < n /\ i \in 1 .. L /\ h(i) = g(i)
            BY <3>1
        <3>2. CASE i >= n /\ i + 1 \in 1 .. L /\ h(i) = g(i + 1)
            BY <3>2
        <3>. QED
            BY <1>7, <3>1, <3>2
    <2>2. PICK b \in 1 .. L : h(j) = g(b) /\ ((j < n /\ b = j) \/ (j >= n /\ b = j + 1))
        <3>1. CASE j < n /\ j \in 1 .. L /\ h(j) = g(j)
            BY <3>1
        <3>2. CASE j >= n /\ j + 1 \in 1 .. L /\ h(j) = g(j + 1)
            BY <3>2
        <3>. QED
            BY <1>7, <3>1, <3>2
    <2>3. a <= b
        BY <1>1, <1>9, <2>1, <2>2
    <2>. QED
        BY <1>6, <2>1, <2>2, <2>3
<1>10. InTime' /\ InOrder'
    BY <1>4, <1>8, <1>9 DEF InTime, InOrder, h, L
<1>11. ReadLately'
    BY DEF TimersInv, ReadLately
<1>12. Left' = [u \in Range(timers) \ {timers[n]} |-> Left[u]]
    BY <1>2 DEF Left
<1>. QED
    BY <1>3, <1>10, <1>11, <1>12 DEF TimersInv

(* A handler removes a timer. *)
LEMMA RemoveStep ==
    ASSUME TimersInv, NEW t \in Timers, btstack_run_loop_base_remove_timer(t)
    PROVE  TimersInv' /\ Service!Disarm(t)
<1>1. timers \in Seq(Timers) /\ DOMAIN timers = 1 .. Len(timers)
    BY LenProperties DEF TimersInv, TimersTypeOK
<1>2. PICK i \in 1 .. Len(timers) : timers[i] = t /\ timers' = RemoveAt(timers, i)
    BY <1>1 DEF btstack_run_loop_base_remove_timer
<1>3. timers' \in Seq(Timers) /\ Taken(timers, i, timers')
    BY <1>1, <1>2, Removed
<1>4. fired' = nobody /\ UNCHANGED <<timeout, clock, now, place, sleep>> /\ t \in Range(timers)
    BY DEF btstack_run_loop_base_remove_timer, listed
<1>5. TimersInv' /\ Left' = [u \in Range(timers) \ {timers[i]} |-> Left[u]]
    BY <1>3, <1>4, LeaveStep
<1>6. Service!armed = Range(timers)
    BY DEF Service!armed
<1>. QED
    BY <1>2, <1>4, <1>5, <1>6 DEF Service!Disarm, Service!nobody, nobody, Left

(* The timer that is called is due, although the time was read before, and *)
(* no other one was due before it.                                         *)
LEMMA ProcessStep ==
    ASSUME TimersInv, btstack_run_loop_base_process_timers
    PROVE  TimersInv' /\ \E t \in Timers : Service!Fire(t)
<1>1. /\ timers # <<>> /\ place = "timers" /\ btstack_time_delta(timeout[timers[1]], now) <= 0
      /\ timers' = Tail(timers) /\ fired' = Head(timers)
      /\ UNCHANGED <<timeout, clock, now, place, sleep>>
    BY DEF btstack_run_loop_base_process_timers, due
<1>2. /\ timers \in Seq(Timers) /\ DOMAIN timers = 1 .. Len(timers) /\ now \in Moments
    BY LenProperties DEF TimersInv, TimersTypeOK, Moments
<1>3. /\ timers' \in Seq(Timers) /\ Taken(timers, 1, timers') /\ 1 \in 1 .. Len(timers)
      /\ fired' = timers[1]
    BY <1>1, <1>2, HeadTaken
<1>. DEFINE t == timers[1]
            l == left(t)
            e == btstack_time_delta(clock, now)
<1>4. /\ t \in Timers /\ timeout[t] \in Moments /\ clock \in Moments /\ l \in Int
      /\ 2 * (l + MaxLate) < Width /\ 0 - MaxLate <= l /\ 2 * MaxLate < Width
    BY <1>2, <1>3, HalfATurn
<1>5. PICK one \in Nat : one = 1 /\ one \in 1 .. Len(timers)
    BY <1>3
<1>6. TimersInv' /\ Left' = [u \in Range(timers) \ {t} |-> Left[u]]
    <2>1. Taken(timers, one, timers') /\ timers[one] = t
        BY <1>3, <1>5
    <2>2. fired' \in Timers \cup {nobody}
        BY <1>3, <1>4
    <2>. HIDE DEF t
    <2>. QED
        BY <1>1, <1>3, <1>5, <2>1, <2>2, LeaveStep
<1>7. l <= 0
    <2>1. e \in Int /\ 0 <= e /\ e <= MaxLate
        BY <1>1, <1>2, <1>4, DeltaIs DEF TimersInv, ReadLately
    <2>2. btstack_time_delta(timeout[t], clock) = l
        BY DEF left
    <2>3. MaxLate \in Nat /\ Width \in Nat
        BY TimerConstants
    <2>4. btstack_time_delta(timeout[t], now) <= 0
        BY <1>1
    <2>5. btstack_time_delta(clock, now) = e
        OBVIOUS
    <2>. HIDE DEF t, l, e
    <2>6. 0 - Width <= 2 * (l + e) /\ 2 * (l + e) < Width
        BY <1>4, <2>1, <2>3
    <2>7. btstack_time_delta(timeout[t], now) = l + e
        BY <1>2, <1>4, <2>1, <2>2, <2>5, <2>6, DeltaSum
    <2>. QED
        BY <1>4, <2>1, <2>4, <2>7
<1>8. ASSUME NEW u \in Range(timers) PROVE Left[t] <= Left[u] /\ Left[t] <= 0
    <2>1. PICK k \in 1 .. Len(timers) : u = timers[k]
        BY <1>2 DEF Range
    <2>2. 1 <= k
        OBVIOUS
    <2>3. left(timers[1]) <= left(timers[k])
        BY <1>2, <1>3, <2>2 DEF TimersInv, InOrder
    <2>4. t \in Range(timers)
        BY <1>2, <1>3 DEF Range
    <2>5. Left[t] = left(t) /\ Left[u] = left(u)
        BY <2>4 DEF Left, left
    <2>. QED
        BY <1>7, <2>1, <2>3, <2>5
<1>9. t \in Range(timers)
    BY <1>2, <1>3 DEF Range
<1>10. Service!armed = Range(timers)
    BY DEF Service!armed
<1>11. Service!Fire(t)
    <2>. HIDE DEF t
    <2>1. fired' = t
        BY <1>3 DEF t
    <2>. QED
        BY <1>6, <1>8, <1>9, <1>10, <2>1 DEF Service!Fire, Left
<1>. QED
    BY <1>4, <1>6, <1>11

(* A millisecond. *)
LEMMA TickStep ==
    ASSUME TimersInv, tick
    PROVE  TimersInv' /\ Service!Tick
<1>1. /\ \A i \in DOMAIN timers : btstack_time_delta(timeout[timers[i]], clock) > 0 - MaxLate
      /\ place = "timers" => btstack_time_delta(clock, now) < MaxLate
      /\ clock' = (clock + 1) % Width
      /\ sleep' = (IF sleep > 0 THEN sleep - 1 ELSE sleep) /\ fired' = nobody
      /\ UNCHANGED <<timers, timeout, now, place>>
    BY DEF tick
<1>2. /\ timers \in Seq(Timers) /\ DOMAIN timers = 1 .. Len(timers) /\ now \in Moments
      /\ clock \in Moments /\ sleep \in Nat \cup {never} /\ timeout \in [Timers -> Moments]
    BY LenProperties DEF TimersInv, TimersTypeOK, Moments
<1>3. MaxLate \in Nat /\ Width \in Nat /\ 2 * MaxLate < Width
    BY TimerConstants
<1>4. clock' \in Moments
    <2>1. Width # 0
        BY <1>2, <1>3 DEF Moments
    <2>. QED
        BY <1>1, <1>2, <1>3, <2>1 DEF Moments
<1>5. sleep' \in Nat \cup {never}
    BY <1>1, <1>2 DEF never
<1>6. TimersTypeOK'
    BY <1>1, <1>4, <1>5 DEF TimersInv, TimersTypeOK, Moments
<1>7. 2 < Width => btstack_time_delta(clock', clock) = 1 /\ btstack_time_delta(clock, clock') = 0 - 1
    <2>. SUFFICES ASSUME 2 < Width PROVE btstack_time_delta(clock', clock) = 1 /\ btstack_time_delta(clock, clock') = 0 - 1
        OBVIOUS
    <2>. PICK one \in Nat : one = 1
        OBVIOUS
    <2>1. (clock + one) % Width = clock' /\ 2 * one < Width /\ 0 - Width < 2 * one /\ one \in Int
        BY <1>1, <1>3
    <2>2. btstack_time_delta(clock', clock) = one
        BY <1>2, <2>1, DeltaLater
    <2>3. btstack_time_delta(clock, clock') = 0 - one
        BY <1>2, <1>4, <2>1, <2>2, DeltaBack
    <2>. QED
        BY <2>2, <2>3
<1>8. ASSUME NEW i \in DOMAIN timers
      PROVE  (left(timers[i]))' = left(timers[i]) - 1
    <2>. DEFINE u == timeout[timers[i]]
                l == left(timers[i])
    <2>1. u \in Moments /\ l \in Int /\ 2 * (l + MaxLate) < Width /\ 0 - MaxLate <= l
        BY HalfATurn
    <2>2. btstack_time_delta(u, clock) = l /\ l > 0 - MaxLate
        BY <1>1 DEF left
    <2>3. (left(timers[i]))' = btstack_time_delta(u, clock')
        BY <1>1 DEF left
    <2>. HIDE DEF u, l
    <2>4. 2 < Width
        BY <1>3, <2>1, <2>2
    <2>5. PICK m \in Int : m = 0 - 1
        OBVIOUS
    <2>6. btstack_time_delta(clock, clock') = m
        BY <1>7, <2>4, <2>5
    <2>7. 0 - Width <= 2 * (l + m) /\ 2 * (l + m) < Width
        BY <1>3, <2>1, <2>2, <2>5
    <2>8. btstack_time_delta(u, clock') = l + m
        BY <1>2, <1>4, <2>1, <2>2, <2>6, <2>7, DeltaSum
    <2>9. l + m = l - 1
        BY <2>1, <2>5
    <2>. QED
        BY <2>3, <2>8, <2>9 DEF l
<1>9. \A i \in DOMAIN timers : left(timers[i]) \in Int /\ left(timers[i]) > 0 - MaxLate
    BY <1>1, HalfATurn DEF left
<1>. DEFINE h(k) == (left(timers[k]))'
            g(k) == left(timers[k])
<1>10. /\ \A k \in DOMAIN timers : \E m \in Timeouts : g(k) <= m + 1
       /\ \A i, j \in DOMAIN timers : i <= j => g(i) <= g(j)
    BY DEF TimersInv, InTime, InOrder
<1>11. \A k \in DOMAIN timers : h(k) = g(k) - 1 /\ g(k) \in Int /\ g(k) > 0 - MaxLate
    BY <1>8, <1>9
<1>. HIDE DEF h, g
<1>12. ASSUME NEW k \in DOMAIN timers
       PROVE  0 - MaxLate <= h(k) /\ \E m \in Timeouts : h(k) <= m + 1
    <2>1. PICK m \in Timeouts : g(k) <= m + 1
        BY <1>10
    <2>2. m \in Nat
        BY TimerConstants
    <2>3. h(k) <= m + 1 /\ 0 - MaxLate <= h(k)
        BY <1>3, <1>11, <2>1, <2>2
    <2>. QED
        BY <2>3
<1>13. \A i, j \in DOMAIN timers : i <= j => h(i) <= h(j)
    BY <1>10, <1>11
<1>14. InTime' /\ InOrder'
    BY <1>1, <1>12, <1>13 DEF InTime, InOrder, h
<1>15. ReadLately'
    <2>. SUFFICES ASSUME place = "timers"
                  PROVE  0 <= btstack_time_delta(clock', now) /\ btstack_time_delta(clock', now) <= MaxLate
        BY <1>1 DEF ReadLately
    <2>. DEFINE e == btstack_time_delta(clock, now)
    <2>1. e \in Int /\ 0 <= e /\ e < MaxLate
        BY <1>1, <1>2, DeltaIs DEF TimersInv, ReadLately
    <2>2. btstack_time_delta(clock, now) = e
        OBVIOUS
    <2>. HIDE DEF e
    <2>3. PICK m \in Int : m = 1
        OBVIOUS
    <2>4. btstack_time_delta(clock', clock) = m
        BY <1>3, <1>7, <2>1, <2>3
    <2>5. 0 - Width <= 2 * (m + e) /\ 2 * (m + e) < Width
        BY <1>3, <2>1, <2>3
    <2>6. btstack_time_delta(clock', now) = m + e
        BY <1>2, <1>4, <2>1, <2>2, <2>4, <2>5, DeltaSum
    <2>. QED
        BY <1>3, <2>1, <2>3, <2>6
<1>16. Service!Tick
    <2>1. Service!armed = Range(timers)
        BY DEF Service!armed
    <2>2. ASSUME NEW t \in Range(timers)
          PROVE  Left[t] > 0 - MaxLate /\ btstack_time_delta(timeout'[t], clock') = Left[t] - 1
        <3>1. PICK i \in DOMAIN timers : t = timers[i]
            BY DEF Range
        <3>2. Left[t] = left(timers[i])
            BY <3>1 DEF Left, left
        <3>. QED
            BY <1>1, <1>8, <1>9, <3>1, <3>2 DEF left
    <2>3. Left' = [t \in Range(timers) |-> Left[t] - 1]
        BY <1>1, <2>2 DEF Left
    <2>. QED
        BY <1>1, <2>1, <2>2, <2>3 DEF Service!Tick, Service!nobody, nobody, Left
<1>. QED
    BY <1>6, <1>14, <1>15, <1>16 DEF TimersInv

-----------------------------------------------------------------------------
(* Every step of the run loop is one of the service that is promised, or   *)
(* changes nothing of it.                                                  *)
LEMMA TimersStep ==
    TimersInv /\ [TimersNext]_timerVars => TimersInv' /\ [Service!Next]_<<Left, fired>>
<1>. SUFFICES ASSUME TimersInv, [TimersNext]_timerVars
              PROVE  TimersInv' /\ [Service!Next]_<<Left, fired>>
    OBVIOUS
<1>1. ASSUME NEW t \in Timers, NEW ms \in Timeouts, setAndAdd(t, ms)
      PROVE  TimersInv' /\ [Service!Next]_<<Left, fired>>
    BY <1>1, SetStep DEF Service!Next
<1>2. ASSUME NEW t \in Timers, btstack_run_loop_base_remove_timer(t)
      PROVE  TimersInv' /\ [Service!Next]_<<Left, fired>>
    BY <1>2, RemoveStep DEF Service!Next
<1>3. CASE btstack_run_loop_base_process_timers
    BY <1>3, ProcessStep DEF Service!Next
<1>4. CASE tick
    BY <1>4, TickStep DEF Service!Next
<1>5. CASE readTime \/ xTaskNotifyWait \/ timedOut \/ notification \/ UNCHANGED timerVars
    <2>1. UNCHANGED <<timers, timeout, fired, clock>>
        BY <1>5 DEF readTime, xTaskNotifyWait, timedOut, notification, timerVars, listVars
    <2>2. Left' = Left /\ InTime' /\ InOrder'
        BY <2>1 DEF TimersInv, InTime, InOrder, left, Left
    <2>3. clock \in Moments /\ now \in Moments
        BY DEF TimersInv, TimersTypeOK, Moments
    <2>4. CASE readTime
        <3>1. now' = clock /\ place' = "timers" /\ UNCHANGED sleep
            BY <2>4 DEF readTime
        <3>2. btstack_time_delta(clock, clock) = 0
            <4>1. PICK z \in Int : z = 0
                OBVIOUS
            <4>2. 2 * z < Width /\ 0 - Width <= 2 * z /\ clock - clock \in {z, z + Width, z - Width}
                BY <2>3, <4>1, TimerConstants DEF Moments
            <4>. QED
                BY <2>3, <4>1, <4>2, DeltaOnly
        <3>3. ReadLately'
            BY <2>1, <3>1, <3>2, TimerConstants DEF ReadLately
        <3>4. TimersTypeOK'
            BY <2>1, <3>1 DEF TimersInv, TimersTypeOK
        <3>. QED
            BY <2>1, <2>2, <3>3, <3>4 DEF TimersInv
    <2>5. CASE xTaskNotifyWait
        <3>1. now' = 0 /\ place' = "wait" /\ sleep' = btstack_run_loop_base_get_time_until_timeout
            BY <2>5 DEF xTaskNotifyWait
        <3>2. sleep' \in Nat \cup {never}
            <4>1. CASE timers = <<>>
                BY <3>1, <4>1 DEF btstack_run_loop_base_get_time_until_timeout
            <4>2. CASE timers # <<>>
                <5>1. 1 \in DOMAIN timers
                    BY <4>2, HeadTaken, LenProperties DEF TimersInv, TimersTypeOK
                <5>2. timeout[timers[1]] \in Moments
                    BY <5>1, HalfATurn
                <5>3. btstack_time_delta(timeout[timers[1]], now) \in Int
                    BY <2>3, <5>2, DeltaIs
                <5>. QED
                    BY <3>1, <4>2, <5>3 DEF btstack_run_loop_base_get_time_until_timeout
            <4>. QED
                BY <4>1, <4>2
        <3>3. 0 \in 0 .. Width - 1
            BY <2>3, TimerConstants DEF Moments
        <3>4. TimersTypeOK' /\ ReadLately'
            BY <2>1, <3>1, <3>2, <3>3 DEF TimersInv, TimersTypeOK, ReadLately
        <3>. QED
            BY <2>1, <2>2, <3>4 DEF TimersInv
    <2>6. CASE timedOut \/ notification
        <3>1. place' = "run" /\ sleep' = never /\ now' = now
            BY <2>6 DEF timedOut, notification
        <3>2. TimersTypeOK' /\ ReadLately'
            BY <2>1, <3>1 DEF TimersInv, TimersTypeOK, ReadLately
        <3>. QED
            BY <2>1, <2>2, <3>2 DEF TimersInv
    <2>7. CASE UNCHANGED timerVars
        <3>1. UNCHANGED <<place, now, sleep>>
            BY <2>7 DEF timerVars
        <3>2. TimersTypeOK' /\ ReadLately'
            BY <2>1, <3>1 DEF TimersInv, TimersTypeOK, ReadLately
        <3>. QED
            BY <2>1, <2>2, <3>2 DEF TimersInv
    <2>. QED
        BY <1>5, <2>4, <2>5, <2>6, <2>7
<1>. QED
    BY <1>1, <1>2, <1>3, <1>4, <1>5 DEF TimersNext, timersTurn

(* At first no timer is on the list. *)
LEMMA TimersAtFirst == TimersInit => TimersInv /\ Service!Init
<1>. SUFFICES ASSUME TimersInit PROVE TimersInv /\ Service!Init
    OBVIOUS
<1>1. /\ timers = <<>> /\ timeout = [t \in Timers |-> 0] /\ clock \in 0 .. Width - 1 /\ now = 0
      /\ place = "run" /\ sleep = never /\ fired = nobody
    BY DEF TimersInit
<1>2. timers \in Seq(Timers) /\ DOMAIN timers = {} /\ Range(timers) = {}
    <2>1. timers \in Seq(Timers) /\ Len(timers) = 0
        BY <1>1, EmptySeq
    <2>2. DOMAIN timers = 1 .. Len(timers)
        BY <2>1, LenProperties
    <2>3. DOMAIN timers = {}
        BY <2>1, <2>2
    <2>. QED
        BY <2>1, <2>3 DEF Range
<1>3. 0 \in 0 .. Width - 1
    BY <1>1, TimerConstants
<1>4. TimersInv
    BY <1>1, <1>2, <1>3 DEF TimersInv, TimersTypeOK, InTime, InOrder, ReadLately, IsInjective
<1>5. Left = <<>>
    BY <1>2 DEF Left
<1>. QED
    BY <1>1, <1>4, <1>5 DEF Service!Init, Service!nobody, nobody, Left

(* The timers of the run loop keep the promise of TimerService, for every  *)
(* number of timers, every set of timeouts and every width of the clock:   *)
(* each is called at most once after it was added, never early and never   *)
(* before one that is due sooner.                                          *)
THEOREM TimersKeepTheirTime == TimersSpec => ImplementsTimers
<1>1. TimersInv /\ [TimersNext]_timerVars => TimersInv'
    BY TimersStep
<1>2. TimersInv /\ [TimersNext]_timerVars => [Service!Next]_<<Left, fired>>
    BY TimersStep
<1>. QED
    BY <1>1, <1>2, TimersAtFirst, PTL DEF TimersSpec, ImplementsTimers, Service!Spec, Left

(* A timer is on the list once at most, and the indices and times are what *)
(* they should be.                                                         *)
LEMMA TimersTypeCorrect == TimersSpec => []TimersTypeOK
<1>1. TimersInv /\ [TimersNext]_timerVars => TimersInv'
    BY TimersStep
<1>2. TimersInv => TimersTypeOK
    BY DEF TimersInv
<1>. QED
    BY <1>1, <1>2, TimersAtFirst, PTL DEF TimersSpec

-----------------------------------------------------------------------------
(* A behaviour of the parts together is one of each part: the others leave *)
(* its variables alone.                                                    *)
LEMMA EachPart == TaskSpec => Spec /\ RingSpec /\ TimersSpec /\ ReportsSpec
<1>1. TaskInit => Init /\ RingInit /\ TimersInit /\ ReportsInit
    BY DEF TaskInit
<1>2. [TaskNext]_allVars => [Next]_vars
    BY DEF TaskNext, allVars
<1>3. [TaskNext]_allVars => [RingNext]_ringVars
    BY DEF TaskNext, allVars
<1>4. [TaskNext]_allVars => [TimersNext]_timerVars
    BY DEF TaskNext, allVars
<1>5. [TaskNext]_allVars => [ReportsNext]_reportVars
    BY DEF TaskNext, allVars
<1>. QED
    BY <1>1, <1>2, <1>3, <1>4, <1>5, PTL DEF TaskSpec, Spec, RingSpec, TimersSpec, ReportsSpec

(* No overrun of a buffer, of its indices or of a list in any part of the  *)
(* Bluetooth task: transport, ring buffer, timers and outgoing reports.    *)
THEOREM NothingOverruns == TaskSpec => []TypesOK
<1>1. TypesOK <=> TypeOK /\ RingTypeOK /\ TimersTypeOK /\ ReportsTypeOK
    BY DEF TypesOK
<1>. QED
    BY <1>1, EachPart, TransportTypeCorrect, RingTypeCorrect, TimersTypeCorrect,
       ReportsTypeCorrect, PTL

(* As long as the controller is not ahead of the host by more events than  *)
(* the storage was sized for, no packet is dropped by host_recv_pkt_cb,    *)
(* and transport_deliver_packets hands up each as it was given, in order:  *)
(* whatever the lengths of packets, whenever either side takes the mutex.  *)
THEOREM PacketsComeThrough ==
    ASSUME EventsInFlight <= EventNum
    PROVE  TaskSpec => []PacketsIntact
<1>1. PacketsLie => PacketsIntact
    BY DEF PacketsLie, PacketsIntact, NothingDropped, PacketsWhole
<1>. QED
    BY <1>1, PacketsAlwaysLie, EachPart, PTL
=============================================================================
