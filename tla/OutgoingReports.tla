--------------------------- MODULE OutgoingReports ---------------------------
(***************************************************************************)
(* Reports on their way to a controller (rumble, LEDs, requests of the     *)
(* parsers).  A report that L2CAP does not take goes into the circular     *)
(* buffer of its device record (uni_circular_buffer.c), and L2CAP is asked *)
(* for an event when it can send again, which sends one report of the      *)
(* buffer (uni_hid_device.c).  All of this runs in the Bluetooth task; the *)
(* Bluetooth controller takes packets in its own time.                     *)
(***************************************************************************)
EXTENDS Integers, Sequences, FiniteSets

CONSTANTS
  SIZE,                \* UNI_CIRCULAR_BUFFER_SIZE
  Channels,            \* control_cid and interrupt_cid of the device
  MaxReports           \* bound: reports that the parsers make

ASSUME ReportConstants == SIZE \in Nat \ {0} /\ MaxReports \in Nat

Slots == 0 .. SIZE - 1
Report == [cid : Channels \cup {0}, id : Nat]
wiped == [i \in Slots |-> [cid |-> 0, id |-> 0]]      \* what memset leaves

VARIABLES
  buffer, head_idx, tail_idx,   \* d->outgoing_buffer
  waiting,                      \* the channels with waiting_for_can_send_now
  notifying,                    \* L2CAP is in l2cap_notify_channel_can_send
  busy,                         \* hci_can_send_acl_packet_now is false
  signal,                       \* HCI_EVENT_TRANSPORT_PACKET_SENT is on its way
  (* Observers: how many reports there were, their fate. *)
  made, sent, refused, gone

queueVars == <<buffer, head_idx, tail_idx>>
reportVars == <<queueVars, waiting, notifying, busy, signal, made, sent, refused, gone>>

ReportsInit ==
    /\ buffer = wiped /\ head_idx = 0 /\ tail_idx = 0
    /\ waiting = {} /\ notifying = FALSE /\ busy = FALSE /\ signal = FALSE
    /\ made = 0 /\ sent = <<>> /\ refused = {} /\ gone = {}

(* Faulty: the indices are compared without regard to the end. *)
isFullUnwrapped == tail_idx + 1 = head_idx

uni_circular_buffer_is_empty == head_idx = tail_idx

uni_circular_buffer_is_full ==
    tail_idx + 1 = head_idx \/ (head_idx = 0 /\ tail_idx = SIZE - 1)

(* Faulty: one index too far. *)
nextPastEnd(i) == IF i = SIZE THEN 0 ELSE i + 1

next(i) == IF i + 1 = SIZE THEN 0 ELSE i + 1

uni_circular_buffer_put(r) ==
    /\ buffer' = [buffer EXCEPT ![tail_idx] = r]
    /\ tail_idx' = next(tail_idx)

-----------------------------------------------------------------------------
(* uni_hid_device_send_report, once it has found nothing wrong with its    *)
(* arguments.  L2CAP takes the report unless the controller is busy; after *)
(* that the controller may or may not take another one.  Reports of        *)
(* UNI_CIRCULAR_BUFFER_DATA_SIZE bytes or more are too big for the buffer. *)
trySend(r, big) ==
    \/ /\ ~busy
       /\ sent' = Append(sent, r.id)
       /\ busy' \in BOOLEAN
       /\ UNCHANGED <<buffer, tail_idx, refused>>
    \/ /\ busy
       /\ ~uni_circular_buffer_is_full /\ ~big
       /\ uni_circular_buffer_put(r)
       /\ UNCHANGED <<sent, busy, refused>>
    \/ /\ busy
       /\ uni_circular_buffer_is_full \/ big
       /\ refused' = refused \cup {r.id}
       /\ UNCHANGED <<sent, busy, buffer, tail_idx>>

(* Faulty: no event is asked for if the report could be sent (the code     *)
(* wonders whether it is needed then).                                     *)
reportWithoutEvent(r, big, others) ==
    /\ trySend(r, big)
    /\ waiting' = IF busy THEN others \cup {r.cid} ELSE others

(* l2cap_request_can_send_now_event follows, whether or not it was sent. *)
uni_hid_device_send_report(r, big, others) ==
    /\ trySend(r, big)
    /\ waiting' = others \cup {r.cid}

(* A parser sends a report on the control or on the interrupt channel. *)
sendReport(c, big) ==
    /\ ~notifying /\ made < MaxReports
    /\ made' = made + 1
    /\ uni_hid_device_send_report([cid |-> c, id |-> made + 1], big, waiting)
    /\ notifying' = TRUE
    /\ UNCHANGED <<head_idx, signal, gone>>

(* The event for channel c: the oldest report of the buffer is taken out   *)
(* and goes the same way, on its own channel.                              *)
uni_hid_device_send_queued_reports(c) ==
    \/ /\ uni_circular_buffer_is_empty
       /\ waiting' = waiting \ {c}
       /\ UNCHANGED <<queueVars, sent, busy, refused>>
    \/ /\ ~uni_circular_buffer_is_empty
       /\ head_idx' = next(head_idx)
       /\ uni_hid_device_send_report(buffer[head_idx], FALSE, waiting \ {c})

(* l2cap_notify_channel_can_send: events for channels that wait for one as *)
(* long as the controller takes packets.  The event may call it again; the *)
(* loops are left once none of them finds a channel.                       *)
l2cap_notify_channel_can_send ==
    /\ notifying
    /\ \/ \E c \in waiting : ~busy /\ uni_hid_device_send_queued_reports(c) /\ UNCHANGED notifying
       \/ /\ busy \/ waiting = {}
          /\ notifying' = FALSE
          /\ UNCHANGED <<queueVars, waiting, sent, busy, refused>>
    /\ UNCHANGED <<signal, made, gone>>

(* The controller (external) has room again.  hci_can_send_acl_packet_now  *)
(* sees that at once, the event takes its way through the run loop.        *)
controllerReady ==
    /\ busy
    /\ busy' = FALSE /\ signal' = TRUE
    /\ UNCHANGED <<queueVars, waiting, notifying, made, sent, refused, gone>>

(* HCI_EVENT_TRANSPORT_PACKET_SENT reaches L2CAP. *)
packetSent ==
    /\ signal /\ ~notifying
    /\ signal' = FALSE /\ notifying' = TRUE
    /\ UNCHANGED <<queueVars, waiting, busy, made, sent, refused, gone>>

(* The reports in the buffer, oldest first. *)
length == IF tail_idx >= head_idx THEN tail_idx - head_idx ELSE tail_idx - head_idx + SIZE
queued == [i \in 1 .. length |->
              buffer[IF head_idx + i - 1 < SIZE THEN head_idx + i - 1 ELSE head_idx + i - 1 - SIZE]]
ids(q) == {q[i].id : i \in DOMAIN q}

(* The channels close: uni_hid_device_delete wipes the record, and the     *)
(* device that comes next starts with an empty buffer and new channels.    *)
uni_hid_device_delete ==
    /\ ~notifying
    /\ buffer' = wiped /\ head_idx' = 0 /\ tail_idx' = 0 /\ waiting' = {}
    /\ gone' = gone \cup ids(queued)
    /\ UNCHANGED <<notifying, busy, signal, made, sent, refused>>

ReportsNext ==
    \/ \E c \in Channels, big \in BOOLEAN : sendReport(c, big)
    \/ l2cap_notify_channel_can_send
    \/ controllerReady
    \/ packetSent
    \/ uni_hid_device_delete

ReportsSpec == ReportsInit /\ [][ReportsNext]_reportVars

(* The Bluetooth task goes on, and the controller sends what it was given. *)
ReportsFairSpec ==
    /\ ReportsSpec
    /\ WF_reportVars(l2cap_notify_channel_can_send)
    /\ WF_reportVars(controllerReady)
    /\ WF_reportVars(packetSent)

-----------------------------------------------------------------------------
(* The indices stay inside the buffer. *)
ReportsTypeOK ==
    /\ buffer \in [Slots -> Report]
    /\ head_idx \in Slots /\ tail_idx \in Slots
    /\ waiting \subseteq Channels
    /\ notifying \in BOOLEAN /\ busy \in BOOLEAN /\ signal \in BOOLEAN
    /\ made \in Nat /\ sent \in Seq(Nat) /\ refused \subseteq Nat /\ gone \subseteq Nat

(* Reports never lie in the buffer with nobody to fetch them: one of the   *)
(* device's channels waits for an event, and the controller is busy or the *)
(* news that it is not is on its way.                                      *)
NothingStuck ==
    ~uni_circular_buffer_is_empty /\ ~notifying => waiting # {} /\ (busy \/ signal)

(* No report is lost or sent twice: each is sent once, waits in the        *)
(* buffer, was turned away with an error, or went with its device.         *)
Accounted ==
    LET fates == <<{sent[i] : i \in DOMAIN sent}, ids(queued), refused, gone>>
    IN  /\ \A i, j \in DOMAIN fates : i # j => fates[i] \cap fates[j] = {}
        /\ UNION {fates[i] : i \in DOMAIN fates} = 1 .. made
        /\ Cardinality(fates[1]) = Len(sent) /\ Cardinality(fates[2]) = length

(* "If it can't, queue it and send it in the next event loop"              *)
(* (uni_hid_device.c:610): what was queued is sent, unless its device      *)
(* goes.                                                                   *)
QueuedLeaves == \A r \in 1 .. MaxReports : []<>(r \notin ids(queued))
=============================================================================
