---------------------------- MODULE HciTransport ----------------------------
(***************************************************************************)
(* How the Bluetooth task is fed.  The task of the Bluetooth controller    *)
(* puts packets into a ring buffer of bytes (btstack_port_esp32.c), other  *)
(* tasks ask for commands (uni_bluetooth.c), and both wake up BTstack's    *)
(* run loop (btstack_run_loop_freertos.c), which waits for a bit of its    *)
(* task notification.  Every critical section of ring_buffer_mutex or of   *)
(* btstack_run_loop_callbacks_mutex is one step; everything that the code  *)
(* does outside of one is a step of its own.                               *)
(***************************************************************************)
EXTENDS Integers, Sequences, FiniteSets

CONSTANTS
  AclNum, EventNum,       \* HCI_HOST_ACL_PACKET_NUM, MAX_NR_HOST_EVENT_PACKETS
  AclLengths, EventLengths, \* lengths of packets, with the byte for the H4 type
  EventsInFlight,         \* how many events the controller is ahead of the host
  MaxPackets,             \* bound: packets that the controller sends
  Tasks,                  \* the tasks that call the _safe functions
  Commands,               \* CMD_BT_DEL_KEYS, CMD_BT_ENABLE, ...
  MaxCalls                \* bound: calls of _safe functions

ASSUME TransportConstants ==
    /\ AclNum \in Nat /\ EventNum \in Nat /\ EventsInFlight \in Nat
    /\ AclLengths \subseteq Nat \ {0} /\ EventLengths \subseteq Nat \ {0}
    (* HCI_HOST_ACL_PACKET_LEN and HCI_EVENT_BUFFER_SIZE: there is a longest. *)
    /\ \A S \in {AclLengths, EventLengths} : \E n \in S : \A m \in S : m <= n
    /\ MaxPackets \in Nat /\ MaxCalls \in Nat

ACL == 2                  \* HCI_ACL_DATA_PACKET
EVENT == 4                \* HCI_EVENT_PACKET
none == "none"

VARIABLES
  hci_ringbuffer,               \* the bytes in the ring buffer
  transport_signal_sent, transport_packets_to_deliver,
  notified,                     \* EVENT_GROUP_FLAG_RUN_LOOP of the task notification
  vhci,                         \* where the controller's task is in its callbacks
  loop,                         \* where the run loop is
  callbacks,                    \* is the registration on btstack_run_loop_base_callbacks?
  context,                      \* cmd_callback_registration.context
  task,                         \* where each calling task is
  (* Observers: packets stored and not handed up yet, whether a packet was *)
  (* turned away or reached the stack as something else, commands asked    *)
  (* for and not run since, whether a run of cmd_callback is still owed,   *)
  (* and how much has happened.                                            *)
  accepted, dropped, garbled, asked, owed, sends, calls

transportVars == <<hci_ringbuffer, transport_packets_to_deliver, accepted, dropped, garbled, sends>>
callVars == <<callbacks, context, task, asked, owed, calls>>
vars == <<transportVars, callVars, transport_signal_sent, notified, vhci, loop>>

largest(S) == CHOOSE n \in S : \A m \in S : m <= n

(* Faulty: no room for the length tags. *)
storageWithoutTags == AclNum * largest(AclLengths) + EventNum * largest(EventLengths)

hci_ringbuffer_storage ==
    AclNum * (2 + largest(AclLengths)) + EventNum * (2 + largest(EventLengths))

hci_ringbuffer_free == hci_ringbuffer_storage - Len(hci_ringbuffer)

Init ==
    /\ hci_ringbuffer = <<>> /\ transport_signal_sent = FALSE /\ transport_packets_to_deliver = FALSE
    /\ notified = FALSE /\ vhci = "idle" /\ loop = "sent"
    /\ callbacks = FALSE /\ context = none /\ task = [t \in Tasks |-> "idle"]
    /\ accepted = <<>> /\ dropped = FALSE /\ garbled = FALSE
    /\ asked = {} /\ owed = FALSE /\ sends = 0 /\ calls = 0

btstack_run_loop_freertos_trigger == notified' = TRUE

-----------------------------------------------------------------------------
(* The controller (external).  Host flow control lets it have AclNum data  *)
(* packets under way; nothing in HCI holds back events.  A packet is its   *)
(* type and a payload that tells packets apart.                            *)
inFlight(type) == Cardinality({i \in 1 .. Len(accepted) : accepted[i][1] = type})

mayArrive ==
    {<<ACL>> \o [i \in 1 .. n - 1 |-> sends] : n \in IF inFlight(ACL) < AclNum THEN AclLengths ELSE {}}
    \cup
    {<<EVENT>> \o [i \in 1 .. n - 1 |-> sends] :
        n \in IF inFlight(EVENT) < EventsInFlight THEN EventLengths ELSE {}}

(* Faulty: the other order of the bytes. *)
readBigEndian(tag) == tag[2] + 256 * tag[1]

little_endian_store_16(n) == <<n % 256, n \div 256>>
little_endian_read_16(tag) == tag[1] + 256 * tag[2]

(* btstack_ring_buffer_write stores a block or leaves the buffer alone. *)
put(ring, data) ==
    IF hci_ringbuffer_storage - Len(ring) < Len(data) THEN ring ELSE ring \o data

(* The part of host_recv_pkt_cb under the mutex. *)
host_recv_pkt_cb(data) ==
    /\ vhci = "idle" /\ sends < MaxPackets
    /\ sends' = sends + 1
    /\ IF hci_ringbuffer_free < Len(data)
       THEN dropped' = TRUE /\ UNCHANGED <<hci_ringbuffer, accepted, vhci>>
       ELSE /\ hci_ringbuffer' = put(put(hci_ringbuffer, little_endian_store_16(Len(data))), data)
            /\ accepted' = Append(accepted, data)
            /\ vhci' = "flag"
            /\ UNCHANGED dropped
    /\ UNCHANGED <<callVars, transport_signal_sent, transport_packets_to_deliver, notified, loop, garbled>>

(* ... and what it does after it. *)
recvFlag ==
    /\ vhci = "flag"
    /\ transport_packets_to_deliver' = TRUE
    /\ vhci' = "trigger"
    /\ UNCHANGED <<callVars, hci_ringbuffer, accepted, dropped, garbled, sends, transport_signal_sent, notified, loop>>

host_send_pkt_available_cb ==
    /\ vhci = "idle"
    /\ transport_signal_sent' = TRUE
    /\ vhci' = "trigger"
    /\ UNCHANGED <<transportVars, callVars, notified, loop>>

vhciTrigger ==
    /\ vhci = "trigger"
    /\ btstack_run_loop_freertos_trigger
    /\ vhci' = "idle"
    /\ UNCHANGED <<transportVars, callVars, transport_signal_sent, loop>>

-----------------------------------------------------------------------------
(* The calling tasks: uni_bluetooth_del_keys_safe and its like fill in the *)
(* one registration, put it on the list and wake up the run loop.          *)
safe(t, c) ==
    /\ task[t] = "idle" /\ calls < MaxCalls
    /\ context' = c
    /\ task' = [task EXCEPT ![t] = "add"]
    /\ asked' = asked \cup {c}
    /\ calls' = calls + 1
    /\ UNCHANGED <<transportVars, transport_signal_sent, notified, vhci, loop, callbacks, owed>>

(* A registration that is on the list already stays where it is. *)
btstack_run_loop_freertos_execute_on_main_thread(t) ==
    /\ task[t] = "add"
    /\ callbacks' = TRUE
    /\ owed' = TRUE
    /\ task' = [task EXCEPT ![t] = "trigger"]
    /\ UNCHANGED <<transportVars, transport_signal_sent, notified, vhci, loop, context, asked, calls>>

taskTrigger(t) ==
    /\ task[t] = "trigger"
    /\ btstack_run_loop_freertos_trigger
    /\ task' = [task EXCEPT ![t] = "idle"]
    /\ UNCHANGED <<transportVars, transport_signal_sent, vhci, loop, callbacks, context, asked, owed, calls>>

-----------------------------------------------------------------------------
(* The run loop.  transport_process tests each flag and then clears it. *)
ifSignalSent ==
    /\ loop = "sent"
    /\ loop' = IF transport_signal_sent THEN "clear sent" ELSE "packets"
    /\ UNCHANGED <<transportVars, callVars, transport_signal_sent, notified, vhci>>

(* The stack is told that it may send again (transport_notify_packet_send). *)
clearSignalSent ==
    /\ loop = "clear sent"
    /\ transport_signal_sent' = FALSE
    /\ loop' = "packets"
    /\ UNCHANGED <<transportVars, callVars, notified, vhci>>

ifPacketsToDeliver ==
    /\ loop = "packets"
    /\ loop' = IF transport_packets_to_deliver THEN "clear packets" ELSE "callbacks"
    /\ UNCHANGED <<transportVars, callVars, transport_signal_sent, notified, vhci>>

clearPacketsToDeliver ==
    /\ loop = "clear packets"
    /\ transport_packets_to_deliver' = FALSE
    /\ loop' = "deliver"
    /\ UNCHANGED <<callVars, hci_ringbuffer, accepted, dropped, garbled, sends, transport_signal_sent, notified, vhci>>

least(m, n) == IF m < n THEN m ELSE n

(* Faulty: one packet only, an if where the code has a while. *)
deliverOne ==
    /\ loop = "deliver"
    /\ IF hci_ringbuffer = <<>> THEN UNCHANGED <<hci_ringbuffer, accepted, garbled>>
       ELSE LET length == little_endian_read_16(hci_ringbuffer)
            IN  /\ hci_ringbuffer' = SubSeq(hci_ringbuffer, 3 + length, Len(hci_ringbuffer))
                /\ accepted' = Tail(accepted)
                /\ garbled' = garbled
    /\ loop' = "callbacks"
    /\ UNCHANGED <<callVars, transport_packets_to_deliver, dropped, sends, transport_signal_sent, notified, vhci>>

(* One turn of transport_deliver_packets: the bytes of a packet are taken  *)
(* out under the mutex, as many as its tag says or as there are, and go up *)
(* to the stack.  A buffer that holds a single byte leaves the tag's other *)
(* byte undefined, which is garbled whatever it is.                        *)
transport_deliver_packets ==
    /\ loop = "deliver"
    /\ \/ /\ hci_ringbuffer = <<>>
          /\ loop' = "callbacks"
          /\ UNCHANGED <<hci_ringbuffer, accepted, garbled>>
       \/ /\ hci_ringbuffer # <<>>
          /\ LET length == IF Len(hci_ringbuffer) = 1 THEN 0 ELSE little_endian_read_16(hci_ringbuffer)
                 end == least(2 + length, Len(hci_ringbuffer))
             IN  /\ garbled' = (accepted = <<>> \/ length # Len(accepted[1])
                                  \/ SubSeq(hci_ringbuffer, 3, end) # accepted[1])
                 /\ hci_ringbuffer' = SubSeq(hci_ringbuffer, end + 1, Len(hci_ringbuffer))
          /\ accepted' = IF accepted = <<>> THEN <<>> ELSE Tail(accepted)
          /\ UNCHANGED loop
    /\ UNCHANGED <<callVars, transport_packets_to_deliver, dropped, sends, transport_signal_sent, notified, vhci>>

(* Faulty: an empty list is not noticed. *)
popUnchecked ==
    /\ loop = "callbacks"
    /\ loop' = "call"
    /\ callbacks' = FALSE
    /\ UNCHANGED <<transportVars, context, task, asked, owed, calls, transport_signal_sent, notified, vhci>>

(* The list is popped under its mutex ... *)
popCallback ==
    /\ loop = "callbacks"
    /\ loop' = IF callbacks THEN "call" ELSE "timers"
    /\ callbacks' = FALSE
    /\ UNCHANGED <<transportVars, context, task, asked, owed, calls, transport_signal_sent, notified, vhci>>

(* ... and the callback called after it, with what the context is then. *)
cmd_callback ==
    /\ loop = "call"
    /\ asked' = asked \ {context}
    /\ owed' = FALSE
    /\ loop' = "callbacks"
    /\ UNCHANGED <<transportVars, callbacks, context, task, calls, transport_signal_sent, notified, vhci>>

(* Faulty: the bits are cleared when the wait begins. *)
waitClearsOnEntry ==
    /\ loop = "timers"
    /\ loop' = "wait"
    /\ notified' = FALSE
    /\ UNCHANGED <<transportVars, callVars, transport_signal_sent, vhci>>

(* Timers are processed (their effects are not modelled here), and the     *)
(* wait begins; the bits of the notification stay as they are.             *)
beginWait ==
    /\ loop = "timers"
    /\ loop' = "wait"
    /\ UNCHANGED <<transportVars, callVars, transport_signal_sent, notified, vhci>>

(* xTaskNotifyWait returns with a notification, which it clears ... *)
wakeUp ==
    /\ loop = "wait" /\ notified
    /\ notified' = FALSE
    /\ loop' = "sent"
    /\ UNCHANGED <<transportVars, callVars, transport_signal_sent, vhci>>

(* ... or because a timer is due, if there is one. *)
waitTimesOut ==
    /\ loop = "wait" /\ ~notified
    /\ loop' = "sent"
    /\ UNCHANGED <<transportVars, callVars, transport_signal_sent, notified, vhci>>

runLoop ==
    \/ ifSignalSent \/ clearSignalSent \/ ifPacketsToDeliver \/ clearPacketsToDeliver
    \/ transport_deliver_packets \/ popCallback \/ cmd_callback \/ beginWait \/ wakeUp

controller == recvFlag \/ vhciTrigger

calling(t) == btstack_run_loop_freertos_execute_on_main_thread(t) \/ taskTrigger(t)

(* What the stack makes of garbled packets is anyone's guess: the          *)
(* behaviour ends there.                                                   *)
Next ==
    /\ ~garbled
    /\ \/ \E data \in mayArrive : host_recv_pkt_cb(data)
       \/ host_send_pkt_available_cb
       \/ controller
       \/ \E t \in Tasks : (\E c \in Commands : safe(t, c)) \/ calling(t)
       \/ runLoop
       \/ waitTimesOut

Spec == Init /\ [][Next]_vars

(* A callback that was begun is finished, and the run loop goes on when it *)
(* can.  Nobody owes the loop a timer: without a notification it may wait  *)
(* for ever.                                                               *)
FairSpec ==
    /\ Spec
    /\ WF_vars(~garbled /\ controller)
    /\ WF_vars(~garbled /\ runLoop)
    /\ \A t \in Tasks : WF_vars(~garbled /\ calling(t))

-----------------------------------------------------------------------------
(* The bytes fit into the storage, and cmd_callback is only called with a  *)
(* command that some task has asked for.                                   *)
TypeOK ==
    /\ Len(hci_ringbuffer) <= hci_ringbuffer_storage
    /\ loop = "call" => context \in Commands
    /\ hci_ringbuffer \in Seq(Nat)
    /\ transport_signal_sent \in BOOLEAN /\ transport_packets_to_deliver \in BOOLEAN
    /\ notified \in BOOLEAN
    /\ vhci \in {"idle", "flag", "trigger"}
    /\ loop \in {"sent", "clear sent", "packets", "clear packets", "deliver", "callbacks",
                 "call", "timers", "wait"}
    /\ callbacks \in BOOLEAN /\ context \in Commands \cup {none}
    /\ task \in [Tasks -> {"idle", "add", "trigger"}]
    /\ accepted \in Seq(Seq(Nat)) /\ dropped \in BOOLEAN /\ garbled \in BOOLEAN
    /\ asked \in SUBSET Commands /\ owed \in BOOLEAN /\ sends \in Nat /\ calls \in Nat

(* The storage is large enough for the packets that it is meant for, tags  *)
(* included: while no more than AclNum data packets and EventNum events    *)
(* are under way, whatever their sizes, host_recv_pkt_cb drops none.       *)
NothingDropped == ~dropped

(* What transport_deliver_packets hands up is a packet that the controller *)
(* gave to host_recv_pkt_cb and that was not dropped: whole, and in order. *)
(* "Each packet has 2 byte len tag + H4 packet type + packet itself"       *)
(* (btstack_port_esp32.c:83), and a packet that does not fit is dropped.   *)
PacketsWhole == ~garbled

(* The run loop never sleeps on work: if it waits without a notification   *)
(* and there is a packet, a flag or a callback for it, then whoever put it *)
(* there has yet to trigger it.                                            *)
NoLostWakeup ==
    loop = "wait" /\ ~notified =>
        /\ hci_ringbuffer # <<>> \/ transport_packets_to_deliver \/ transport_signal_sent
             => vhci # "idle"
        /\ callbacks => \E t \in Tasks : task[t] = "trigger"

(* Every packet that was stored reaches the stack.  No timer is needed     *)
(* for it.                                                                 *)
Delivered == \A n \in 1 .. MaxPackets : []<>(sends >= n => sends - Len(accepted) >= n)

(* "If this happens multiple times, it is guranteed that the callback will *)
(* run at least once after the last item was added"                        *)
(* (btstack_run_loop.h:336).                                               *)
CallbackRuns == []<>~owed

(* "Safe to call these functions from another task and/or CPU"             *)
(* (uni_bluetooth.h:32): every command that was asked for is run.          *)
CommandsRun == \A c \in Commands : c \in asked ~> c \notin asked
=============================================================================
