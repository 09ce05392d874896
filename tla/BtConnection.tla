---------------------------- MODULE BtConnection ----------------------------
(***************************************************************************)
(* How Bluepad32 brings a controller from its discovery, or from its own   *)
(* attempt to connect, to the point where the platform may seat it         *)
(* (uni_bluetooth.c, uni_bt_sdp.c, uni_bt_conn.c, uni_hid_device.c).       *)
(*                                                                         *)
(* Every controller has a record with the state of its connection.  Events *)
(* of BTstack about names, links, channels and SDP queries, and three      *)
(* kinds of timers, move the record on; only one SDP query can be running. *)
(* The handlers run one after the other in the Bluetooth task, but the     *)
(* events of several controllers, late answers and time-outs come in any   *)
(* order.                                                                  *)
(*                                                                         *)
(* A handler is a function on the whole state w, composed of functions     *)
(* that bear the names of the functions it calls.                          *)
(*                                                                         *)
(* A timer is an element of the run loop's linked list.  When the record   *)
(* it lies in is cleared, or it is added a second time, the list is broken *)
(* and what the program does from then on is not modelled: the behaviour   *)
(* ends in a state that says what happened.                                *)
(***************************************************************************)
EXTENDS Naturals, FiniteSets, FiniteSetsExt

CONSTANTS
  Addresses,     \* Bluetooth addresses of the controllers
  NoAddress,     \* the zero address of an unused record
  Slots,         \* indices of g_devices (1 .. CONFIG_BLUEPAD32_MAX_DEVICES)
  MaxChannels,   \* bound on the HID channels that exist at a time
  NameOf,        \* NameOf[a]: what the name of controller a says, see Names
  Descriptor,    \* the controllers whose parser needs a HID descriptor
  Setup          \* the controllers whose parser takes time to set up

(* A name is "ds4" (Wireless Controller: query before connecting), "known" *)
(* (a DualShock 3 or Switch name: no query needed) or just "plain".        *)
Names == {"ds4", "known", "plain"}

ASSUME BtConstants ==
    /\ NoAddress \notin Addresses
    /\ Slots \subseteq Nat /\ Slots # {} /\ IsFiniteSet(Slots)
    /\ 0 \notin Slots
    /\ MaxChannels \in Nat
    /\ NameOf \in [Addresses -> Names]
    /\ Descriptor \subseteq Addresses /\ Setup \subseteq Addresses

VARIABLES
  rec,           \* g_devices
  sdp,           \* sdp_device, its timer, and the SDP client of BTstack
  stack,         \* what else BTstack keeps: links, channels, the name request
  seats,         \* _used_gamepads of the platform
  damaged        \* what happened to the run loop's list of timers

vars == <<rec, sdp, stack, seats, damaged>>

NULL == 0
Cids == 1 .. MaxChannels

(* A record that is all zeros, and one that has just been created.         *)
Zeros == [addr |-> NoAddress, state |-> "NONE", incoming |-> FALSE, connected |-> FALSE,
          handle |-> FALSE, control |-> NULL, interrupt |-> NULL, name |-> "none",
          type |-> NoAddress, query |-> "after", parsing |-> FALSE, seat |-> "zero",
          connection_timer |-> FALSE, name_timer |-> FALSE, prompt |-> FALSE]

NoChannel == [a |-> NoAddress, psm |-> "none", st |-> "free"]
NoQuery == [a |-> NoAddress, for |-> "none", lost |-> FALSE]

Init ==
    /\ rec = [s \in Slots |-> Zeros]
    /\ sdp = [device |-> NULL, timer |-> NULL, client |-> NoQuery]
    /\ stack = [link |-> [a \in Addresses |-> "down"], chan |-> [c \in Cids |-> NoChannel],
                naming |-> NoAddress]
    /\ seats = 0
    /\ damaged = "no"

(* The state as one value, and a step to another. *)
Now == [rec |-> rec, sdp |-> sdp, stack |-> stack, seats |-> seats, damaged |-> damaged]
Become(w) == /\ rec' = w.rec /\ sdp' = w.sdp /\ stack' = w.stack
             /\ seats' = w.seats /\ damaged' = w.damaged

-----------------------------------------------------------------------------
(* Records *)

(* uni_hid_device_get_instance_for_address, ..._for_cid: NULL if none. *)
deviceFor(w, a) == LET f == {s \in Slots : w.rec[s].addr = a} IN IF f = {} THEN NULL ELSE Min(f)
deviceForCid(w, c) ==
    LET f == {s \in Slots : w.rec[s].interrupt = c \/ w.rec[s].control = c}
    IN  IF f = {} THEN NULL ELSE Min(f)

set(w, s, field, v) == [w EXCEPT !.rec[s][field] = v]

freeSlot(w) == deviceFor(w, NoAddress)

(* The memset, the address and the connection timer.  The caller has seen  *)
(* that there is a free record.                                            *)
uni_hid_device_create(w, a) ==
    [w EXCEPT !.rec[freeSlot(w)] = [Zeros EXCEPT !.addr = a, !.connection_timer = TRUE, !.prompt = TRUE]]

(* Of the time that passes the model keeps this: as long as a record is    *)
(* prompt, a query that starts, or runs already, ends before the record's  *)
(* connection timer: 4.5 seconds for a name and 13 for the query are less  *)
(* than 20.                                                                *)
later(w, s) == IF w.sdp.timer = s THEN w ELSE set(w, s, "prompt", FALSE)

(* uni_bt_conn_disconnect: the channels close; nobody waits for the news.  *)
uni_bt_conn_disconnect(w, s) ==
    [w EXCEPT !.stack.chan = [c \in Cids |->
                 IF c \in {w.rec[s].control, w.rec[s].interrupt} THEN NoChannel ELSE @[c]],
              !.rec[s].control = NULL, !.rec[s].interrupt = NULL, !.rec[s].connected = FALSE]

(* The early return of a device that is not connected leaves channels and  *)
(* timers as they are.  The platform gives up the seat.                    *)
uni_hid_device_disconnect(w, s) ==
    IF ~w.rec[s].connected THEN w
    ELSE [uni_bt_conn_disconnect(w, s) EXCEPT
             !.seats = IF w.rec[s].seat = "none" THEN @ ELSE @ - 1,
             !.rec[s].seat = "none",
             !.rec[s].connection_timer = FALSE, !.rec[s].name_timer = FALSE]

(* The connection timer is stopped; the memset clears the name timer too,  *)
(* which if it is running cuts the list of timers at this point.           *)
uni_hid_device_delete(w, s) ==
    [w EXCEPT !.rec[s] = Zeros, !.damaged = IF w.rec[s].name_timer THEN "cleared" ELSE @]

drop(w, s) == uni_hid_device_delete(uni_hid_device_disconnect(w, s), s)

(* Faulty: a device is made ready without asking if it has a seat. *)
setReadyCompleteUnasked(w, s) ==
    IF w.rec[s].state = "READY" THEN w
    ELSE [w EXCEPT !.seats = IF w.rec[s].seat = "taken" THEN @ ELSE @ + 1, !.rec[s].seat = "taken",
                   !.rec[s].state = "READY", !.rec[s].connection_timer = FALSE]

(* The platform accepts a device that was connected and has no seat yet.   *)
uni_hid_device_set_ready_complete(w, s) ==
    CASE w.rec[s].state = "READY" -> w
      [] w.rec[s].state # "READY" /\ w.rec[s].seat = "none" ->
           [w EXCEPT !.seats = @ + 1, !.rec[s].seat = "taken", !.rec[s].state = "READY",
                     !.rec[s].connection_timer = FALSE]
      [] OTHER -> drop(w, s)

(* Faulty: the connection timer is stopped before the parser is set up. *)
setReadyTimerFirst(w, s) ==
    CASE w.rec[s].state = "PENDING_READY" -> w
      [] w.rec[s].state # "PENDING_READY" /\ w.rec[s].type \in Setup ->
           [w EXCEPT !.rec[s].state = "PENDING_READY", !.rec[s].parsing = TRUE,
                     !.rec[s].connection_timer = FALSE]
      [] OTHER -> uni_hid_device_set_ready_complete(set(w, s, "state", "PENDING_READY"), s)

uni_hid_device_set_ready(w, s) ==
    CASE w.rec[s].state = "PENDING_READY" -> w
      [] w.rec[s].state # "PENDING_READY" /\ w.rec[s].type \in Setup ->
           [w EXCEPT !.rec[s].state = "PENDING_READY", !.rec[s].parsing = TRUE]
      [] OTHER -> uni_hid_device_set_ready_complete(set(w, s, "state", "PENDING_READY"), s)

(* The controller type, once guessed, stays; it is represented by the      *)
(* controller whose data it was guessed from.  Without any the profile is  *)
(* Android, which needs a descriptor and no set-up.                        *)
Android == "android"
guess_type(w, s, t) == IF w.rec[s].type # NoAddress THEN w ELSE set(w, s, "type", t)

needsDescriptor(w, s) == w.rec[s].type \in Descriptor \cup {Android}

-----------------------------------------------------------------------------
(* Queries and channels *)

sdp_client_ready(w) == w.sdp.client = NoQuery

ask(w, s, kind) == [w EXCEPT !.sdp.client = [a |-> w.rec[s].addr, for |-> kind, lost |-> FALSE]]

(* Only one query at a time.  If the SDP client is still busy with a query *)
(* that was given up, the device is dropped and sdp_device stays.          *)
uni_bt_sdp_query_start(w, s) ==
    IF w.sdp.device # NULL THEN drop(w, s)
    ELSE LET started == [set(w, s, "state", "SDP_VENDOR_REQUESTED")
                         EXCEPT !.sdp.device = s, !.sdp.timer = s]
         IN  IF sdp_client_ready(w) THEN ask(started, s, "vendor") ELSE drop(started, s)

(* l2cap_create_channel: a channel id that nobody knows, or no memory. *)
freshCids(w) == {c \in Cids : w.stack.chan[c] = NoChannel /\ deviceForCid(w, c) = NULL}

l2cap_create(w, s, psm) ==
    IF freshCids(w) = {} THEN w
    ELSE LET c == Min(freshCids(w))
         IN  [w EXCEPT !.stack.chan[c] = [a |-> w.rec[s].addr, psm |-> psm, st |-> "requested"],
                       !.rec[s][psm] = c,
                       !.rec[s].state = IF psm = "control" THEN "CONTROL_REQUESTED"
                                        ELSE "INTERRUPT_REQUESTED"]

(* gap_remote_name_request, unless BTstack is busy with another one, and   *)
(* the timer.  Adding a timer that is running makes the list circular.     *)
requestName(w, s) ==
    [w EXCEPT !.stack.naming = IF @ = NoAddress THEN w.rec[s].addr ELSE @,
              !.rec[s].state = "NAME_INQUIRED",
              !.rec[s].name_timer = TRUE,
              !.damaged = IF w.rec[s].name_timer THEN "twice" ELSE @]

-----------------------------------------------------------------------------
(* uni_bluetooth_process_fsm, by the state it finds *)

afterDescriptor(w, s) ==
    IF ~w.rec[s].incoming /\ w.rec[s].query = "before"
    THEN l2cap_create(w, s, "control")
    ELSE uni_hid_device_set_ready(w, s)

(* Faulty: the timer of the query is left running. *)
queryEndTimerRuns(w, s) ==
    afterDescriptor([set(w, s, "state", "SDP_DESCRIPTOR_FETCHED") EXCEPT !.sdp.device = NULL], s)

uni_bt_sdp_query_end(w, s) ==
    afterDescriptor([set(w, s, "state", "SDP_DESCRIPTOR_FETCHED")
                     EXCEPT !.sdp.device = NULL, !.sdp.timer = NULL], s)

(* The vendor is known.  The SDP client has just finished, so it is ready. *)
uni_bt_sdp_query_start_hid_descriptor(w, s) ==
    IF needsDescriptor(w, s)
    THEN ask(set(w, s, "state", "SDP_DESCRIPTOR_REQUESTED"), s, "descriptor")
    ELSE uni_bt_sdp_query_end(w, s)

(* A name that says what controller it is makes a query unnecessary. *)
afterName(w, s) ==
    LET known == w.rec[s].name = "known"
        v == IF ~known THEN w
             ELSE [guess_type(w, s, w.rec[s].addr) EXCEPT
                      !.rec[s].query = "not_needed", !.rec[s].state = "SDP_DESCRIPTOR_FETCHED"]
    IN  CASE w.rec[s].name = "ds4" -> uni_bt_sdp_query_start(set(w, s, "query", "before"), s)
          [] w.rec[s].name # "ds4" /\ v.rec[s].incoming ->
               IF v.rec[s].query = "not_needed" THEN uni_hid_device_set_ready(v, s)
               ELSE uni_bt_sdp_query_start(v, s)
          [] OTHER -> l2cap_create(v, s, "control")

afterInterrupt(w, s) ==
    IF w.rec[s].query = "after" THEN uni_bt_sdp_query_start(w, s)
    ELSE uni_hid_device_set_ready(w, s)

uni_bluetooth_process_fsm(w, s) ==
    LET d == w.rec[s]
    IN  CASE d.name = "none" /\ d.state \in {"DISCOVERED", "INTERRUPT_CONNECTED"} -> requestName(w, s)
          [] d.state = "NAME_FETCHED" -> afterName(w, s)
          [] d.state = "SDP_DESCRIPTOR_FETCHED" -> afterDescriptor(w, s)
          [] d.state = "CONTROL_CONNECTED" /\ ~d.incoming -> l2cap_create(w, s, "interrupt")
          [] d.state = "INTERRUPT_CONNECTED" /\ d.name # "none" /\ ~d.incoming -> afterInterrupt(w, s)
          [] OTHER -> w

nameFetched(w, s, name) ==
    uni_bluetooth_process_fsm([w EXCEPT !.rec[s].name = name, !.rec[s].state = "NAME_FETCHED"], s)

-----------------------------------------------------------------------------
(* Events.  While BTstack takes down a link nothing else happens. *)

Calm == damaged = "no" /\ \A a \in Addresses : stack.link[a] # "closing"

Device(a) == deviceFor(Now, a)

(* An inquiry finds a controller; its name may come with the response. *)
on_gap_inquiry_result(a, named) ==
    /\ Calm
    /\ IF Device(a) # NULL
       THEN /\ rec[Device(a)].state # "READY"
            /\ Become(uni_bluetooth_process_fsm(later(Now, Device(a)), Device(a)))
       ELSE /\ freeSlot(Now) # NULL
            /\ LET w == set(uni_hid_device_create(Now, a), freeSlot(Now), "state", "DISCOVERED")
               IN  Become(IF named THEN nameFetched(w, freeSlot(Now), NameOf[a])
                          ELSE uni_bluetooth_process_fsm(w, freeSlot(Now)))

(* The record of a controller, created if there is none and one is free. *)
withRecord(w, a) ==
    IF deviceFor(w, a) = NULL /\ freeSlot(w) # NULL THEN uni_hid_device_create(w, a) ELSE w

setIncoming(w, a) ==
    IF deviceFor(w, a) = NULL THEN w ELSE set(w, deviceFor(w, a), "incoming", TRUE)

(* A controller wants a link. *)
on_hci_connection_request(a) ==
    /\ Calm
    /\ stack.link[a] = "down"
    /\ Become([setIncoming(withRecord(Now, a), a) EXCEPT !.stack.link[a] = "requested"])

(* A link is there, on the controller's request or on that of L2CAP. *)
WantsLink(a) ==
    \/ stack.link[a] = "requested"
    \/ stack.link[a] = "down" /\ (sdp.client.a = a \/ \E c \in Cids : stack.chan[c].a = a)

on_hci_connection_complete(a) ==
    /\ Calm
    /\ WantsLink(a)
    /\ LET w == [Now EXCEPT !.stack.link[a] = "up"]
       IN  Become(IF Device(a) = NULL THEN w ELSE set(w, Device(a), "handle", TRUE))

(* The controller's request comes to nothing. *)
connectionFailed(a) ==
    /\ Calm
    /\ stack.link[a] = "requested"
    /\ Become([Now EXCEPT !.stack.link[a] = "down"])

(* The answer to a name request, possibly after its timer, or a failure,   *)
(* for which a name is made up.  The timer is removed last.                *)
remote_name_request_complete(name) ==
    /\ Calm
    /\ stack.naming # NoAddress
    /\ LET s == Device(stack.naming)
           w == [Now EXCEPT !.stack.naming = NoAddress]
       IN  IF s = NULL THEN Become(w)
           ELSE LET v == IF rec[s].name_timer THEN w ELSE later(w, s)
                IN  Become(set(IF rec[s].state \in {"PENDING_READY", "READY"}
                               THEN set(v, s, "name", name)
                               ELSE nameFetched(v, s, name), s, "name_timer", FALSE))

(* The channels of a controller that it takes part in. *)
Taken(a, psm) == \E c \in Cids : stack.chan[c] \in [a : {a}, psm : {psm}, st : {"accepted", "open"}]
Open(a, psm) == \E c \in Cids : stack.chan[c] = [a |-> a, psm |-> psm, st |-> "open"]

(* A controller opens a channel.  It has one of each kind, and the control *)
(* channel comes first, as the HID profile demands.  A device that is      *)
(* ready already must have lost its connection without a word.             *)
on_l2cap_incoming_connection(a, psm) ==
    /\ Calm
    /\ stack.link[a] = "up"
    /\ ~Taken(a, psm)
    /\ psm = "interrupt" => Open(a, "control")
    /\ freshCids(Now) # {}
    /\ LET s == Device(a)
           v == IF s # NULL /\ rec[s].state = "READY" THEN drop(Now, s) ELSE Now
           w == IF psm = "control" THEN withRecord(v, a) ELSE v
           d == deviceFor(w, a)
           c == Min(freshCids(Now))
           accepted == [w EXCEPT !.stack.chan[c] = [a |-> a, psm |-> psm, st |-> "accepted"],
                                 !.rec[d][psm] = c]
       IN  Become(CASE d = NULL -> w
                    [] d # NULL /\ psm = "control" ->
                         [accepted EXCEPT !.rec[d].handle = TRUE, !.rec[d].incoming = TRUE]
                    [] OTHER -> accepted)

(* A channel is open: with the interrupt channel the device is connected   *)
(* and the platform told, which notes that it has no seat.                 *)
channelOpened(c) ==
    /\ Calm
    /\ LET h == stack.chan[c]
           w == [Now EXCEPT !.stack.chan[c].st = "open"]
           s == Device(h.a)
           open == later(set(w, s, h.psm, c), s)
       IN  /\ h.psm = "interrupt" => Open(h.a, "control")
           /\ \/ h.st = "requested" /\ stack.link[h.a] = "up" /\ ~Taken(h.a, h.psm)
              \/ h.st = "accepted"
           /\ Become(CASE s = NULL -> w
                       [] s # NULL /\ h.psm = "control" ->
                            uni_bluetooth_process_fsm(set(open, s, "state", "CONTROL_CONNECTED"), s)
                       [] OTHER ->
                            uni_bluetooth_process_fsm(
                               [open EXCEPT !.rec[s].state = "INTERRUPT_CONNECTED",
                                            !.rec[s].connected = TRUE, !.rec[s].seat = "none"], s))

(* L2CAP_EVENT_CHANNEL_OPENED with an error, which names the address, and  *)
(* L2CAP_EVENT_CHANNEL_CLOSED, which names the channel.                    *)
openFailed(w, c) ==
    LET v == [w EXCEPT !.stack.chan[c] = NoChannel]
        s == deviceFor(w, w.stack.chan[c].a)
    IN  IF s = NULL THEN v ELSE drop(v, s)
(* Faulty: the record is deleted without a disconnect. *)
closedDelete(w, c) ==
    LET v == [w EXCEPT !.stack.chan[c] = NoChannel]
        s == deviceForCid(w, c)
    IN  IF s = NULL THEN v ELSE uni_hid_device_delete(v, s)

closed(w, c) ==
    LET v == [w EXCEPT !.stack.chan[c] = NoChannel]
        s == deviceForCid(w, c)
    IN  IF s = NULL THEN v ELSE drop(v, s)

on_l2cap_channel_opened(c) ==
    \/ channelOpened(c)
    \/ Calm /\ stack.chan[c].st = "requested" /\ Become(openFailed(Now, c))

on_l2cap_channel_closed(c) ==
    /\ Calm
    /\ stack.chan[c].st \in {"accepted", "open"}
    /\ stack.chan[c].psm = "control" => ~Taken(stack.chan[c].a, "interrupt")
    /\ Become(closed(Now, c))

(* The end of an SDP query: handle_sdp_pid_query_result and, for the       *)
(* descriptor, handle_sdp_hid_query_result, with or without an answer.     *)
queryComplete(answered) ==
    LET w == [Now EXCEPT !.sdp.client = NoQuery]
        s == sdp.device
    IN  CASE s = NULL -> w
          [] s # NULL /\ sdp.client.for = "vendor" ->
               uni_bt_sdp_query_start_hid_descriptor(
                  guess_type(w, s, IF answered THEN sdp.client.a ELSE Android), s)
          [] OTHER -> uni_bt_sdp_query_end(w, s)

handle_sdp_query_result(answered) ==
    /\ Calm
    /\ sdp.client # NoQuery
    /\ answered => sdp.client.a \in Addresses /\ stack.link[sdp.client.a] = "up"
    /\ Become(queryComplete(answered))

-----------------------------------------------------------------------------
(* A link breaks.  L2CAP first ends every channel that used the link, in   *)
(* an order of its own, and only then does Bluepad32 hear of the link.     *)
broken(h) == [h EXCEPT !.st = IF @ = "requested" THEN "failing" ELSE "closing"]

linkLost(a) ==
    /\ Calm
    /\ stack.link[a] = "up"
    /\ Become([Now EXCEPT
          !.stack.link[a] = "closing",
          !.stack.chan = [c \in Cids |-> IF @[c].a = a THEN broken(@[c]) ELSE @[c]],
          !.sdp.client.lost = sdp.client.a = a])

l2cap_handle_disconnection_complete ==
    \/ \E c \in Cids : stack.chan[c].st = "failing" /\ Become(openFailed(Now, c))
    \/ \E c \in Cids : stack.chan[c].st = "closing" /\ Become(closed(Now, c))
    \/ sdp.client.lost /\ Become(queryComplete(FALSE))

(* The record that knows the link is deleted, without a disconnect. *)
disconnection_complete(a) ==
    /\ stack.link[a] = "closing"
    /\ \A c \in Cids : stack.chan[c].st \notin {"failing", "closing"}
    /\ ~sdp.client.lost
    /\ LET w == [Now EXCEPT !.stack.link[a] = "down"]
           s == Device(a)
       IN  Become(IF s # NULL /\ rec[s].handle THEN uni_hid_device_delete(w, s) ELSE w)

-----------------------------------------------------------------------------
(* Timers and parsers *)

(* No name within 4.5 seconds: a made-up one does. *)
inquiry_remote_name_timeout_callback(s) ==
    /\ Calm
    /\ rec[s].name_timer
    /\ Become(nameFetched(later(set(Now, s, "name_timer", FALSE), s), s, "plain"))

(* Faulty: a device whose channels are open is given more time. *)
connectionTimeoutUnlessConnected(s) ==
    /\ Calm
    /\ rec[s].connection_timer
    /\ rec[s].name_timer => rec[s].connected
    /\ ~(rec[s].prompt /\ sdp.timer = s)
    /\ LET w == set(Now, s, "connection_timer", FALSE)
       IN  Become(IF rec[s].connected THEN w ELSE drop(w, s))

(* Not ready within 20 seconds.  A name timer that runs in a record that   *)
(* is not connected was started with the record and fires earlier, and so  *)
(* does the timer of an SDP query that was started promptly.               *)
device_connection_timeout(s) ==
    /\ Calm
    /\ rec[s].connection_timer
    /\ rec[s].name_timer => rec[s].connected
    /\ ~(rec[s].prompt /\ sdp.timer = s)
    /\ LET w == set(Now, s, "connection_timer", FALSE)
       IN  Become(IF rec[s].state = "READY" THEN w ELSE drop(w, s))

(* Faulty: sdp_device is kept as long as the client is busy. *)
sdpTimeoutIfIdle ==
    /\ Calm
    /\ sdp.timer # NULL
    /\ Become([Now EXCEPT !.sdp.timer = NULL,
                          !.sdp.device = IF sdp_client_ready(Now) THEN NULL ELSE @])

(* No answer within 13 seconds: sdp_device is free again, while the SDP    *)
(* client goes on waiting.                                                 *)
sdp_query_timeout ==
    /\ Calm
    /\ sdp.timer # NULL
    /\ Become([Now EXCEPT !.sdp.timer = NULL,
                          !.sdp.device = IF @ = sdp.timer THEN NULL ELSE @])

(* A parser has exchanged its first reports with the controller. *)
parserDone(s) ==
    /\ Calm
    /\ rec[s].parsing
    /\ Become(uni_hid_device_set_ready_complete(set(Now, s, "parsing", FALSE), s))

-----------------------------------------------------------------------------
Environment ==
    \/ \E a \in Addresses :
         \/ \E named \in BOOLEAN : on_gap_inquiry_result(a, named)
         \/ on_hci_connection_request(a) \/ on_hci_connection_complete(a)
         \/ connectionFailed(a) \/ linkLost(a)
         \/ \E psm \in {"control", "interrupt"} : on_l2cap_incoming_connection(a, psm)
    \/ \E c \in Cids : on_l2cap_channel_opened(c) \/ on_l2cap_channel_closed(c)
    \/ \E answered \in BOOLEAN : handle_sdp_query_result(answered)
    \/ \E s \in Slots : parserDone(s)

Naming ==
    \/ stack.naming # NoAddress /\ remote_name_request_complete(NameOf[stack.naming])
    \/ remote_name_request_complete("plain")

Closing == l2cap_handle_disconnection_complete \/ \E a \in Addresses : disconnection_complete(a)

Timers(s) == inquiry_remote_name_timeout_callback(s) \/ device_connection_timeout(s)

Next == Environment \/ Naming \/ Closing \/ (\E s \in Slots : Timers(s)) \/ sdp_query_timeout

(* Timers fire, the controller answers or gives up a name request, and the *)
(* handling of a broken link is not interrupted.  What controllers do is   *)
(* up to them.                                                             *)
Fairness ==
    /\ WF_vars(Closing)
    /\ WF_vars(Naming)
    /\ SF_vars(sdp_query_timeout)
    /\ \A s \in Slots : SF_vars(inquiry_remote_name_timeout_callback(s)) /\ SF_vars(device_connection_timeout(s))

Spec == Init /\ [][Next]_vars
FairSpec == Spec /\ Fairness
-----------------------------------------------------------------------------
States == {"NONE", "DISCOVERED", "NAME_INQUIRED", "NAME_FETCHED", "SDP_VENDOR_REQUESTED",
           "SDP_DESCRIPTOR_REQUESTED", "SDP_DESCRIPTOR_FETCHED", "CONTROL_REQUESTED",
           "CONTROL_CONNECTED", "INTERRUPT_REQUESTED", "INTERRUPT_CONNECTED",
           "PENDING_READY", "READY"}

(* The records, the SDP query and what BTstack keeps have the fields and   *)
(* values of the code's structures.                                        *)
TypeOK ==
    /\ rec \in [Slots ->
         [addr : Addresses \cup {NoAddress}, state : States, incoming : BOOLEAN,
          connected : BOOLEAN, handle : BOOLEAN, control : Cids \cup {NULL},
          interrupt : Cids \cup {NULL}, name : Names \cup {"none"},
          type : Addresses \cup {NoAddress, Android}, query : {"before", "after", "not_needed"},
          parsing : BOOLEAN, seat : {"zero", "none", "taken"}, connection_timer : BOOLEAN,
          name_timer : BOOLEAN, prompt : BOOLEAN]]
    /\ sdp \in [device : Slots \cup {NULL}, timer : Slots \cup {NULL},
                client : [a : Addresses \cup {NoAddress}, for : {"none", "vendor", "descriptor"},
                          lost : BOOLEAN]]
    /\ stack \in [link : [Addresses -> {"down", "requested", "up", "closing"}],
                  chan : [Cids -> [a : Addresses \cup {NoAddress},
                                   psm : {"none", "control", "interrupt"},
                                   st : {"free", "requested", "accepted", "open", "failing", "closing"}]],
                  naming : Addresses \cup {NoAddress}]
    /\ seats \in 0 .. Cardinality(Slots)
    /\ damaged \in {"no", "cleared", "twice"}

Present(s) == rec[s].addr # NoAddress
Ready(s) == Present(s) /\ rec[s].state = "READY"
Seated(s) == rec[s].seat = "taken"

(* Whatever becomes of a query, its timer runs exactly as long as          *)
(* sdp_device is set, and for that record: the two cases sdp_query_timeout *)
(* calls unexpected do not occur, and no time-out ends a later query.      *)
TimerMatchesQuery == sdp.device = sdp.timer

(* The platform's count of seats is the number of records that have one:   *)
(* no order of closing channels, breaking links and time-outs loses a      *)
(* seat or gives one up twice.                                             *)
SeatsCounted == seats = Cardinality({s \in Slots : Seated(s)})

(* A seat is held only over an interrupt channel to the controller itself  *)
(* that BTstack has not taken down.                                        *)
SeatHasChannel ==
    \A s \in Slots : Seated(s) =>
        /\ Present(s) /\ rec[s].connected /\ rec[s].interrupt # NULL
        /\ stack.chan[rec[s].interrupt] \in
             [a : {rec[s].addr}, psm : {"interrupt"}, st : {"open", "closing"}]

(* A record that has not got as far as a seat has its connection timer     *)
(* running: no attempt is left alone, to occupy a record for ever.         *)
NeverForgotten ==
    \A s \in Slots : Present(s) /\ ~Seated(s) => rec[s].connection_timer

(* Every attempt to connect ends, with a seat or without the record,       *)
(* whatever the controller does or leaves undone.                          *)
AttemptsEnd ==
    \A s \in Slots : []<>(Seated(s) \/ ~Present(s) \/ damaged # "no")

(* The one SDP query there can be is over some time, so that other         *)
(* controllers can be asked.                                               *)
SdpFreed == []<>(sdp.device = NULL \/ damaged # "no")

-----------------------------------------------------------------------------
(* What comments and assertions in the code say, and the code does not do. *)

(* btstack_run_loop_base_add_timer asserts that a timer it is given is not *)
(* in the list.                                                            *)
NoTimerAddedTwice == damaged # "twice"

(* uni_hid_device_delete removes the timer, as it would crash if it was    *)
(* still running; there are two timers in a record.                        *)
NoTimerOutlivesRecord == damaged # "cleared"

(* After a device is deleted, it is not used: the answer to an SDP query   *)
(* is not put down to another controller's record.                         *)
OwnType == \A s \in Slots : Present(s) => rec[s].type \in {NoAddress, Android, rec[s].addr}

(* A device that is ready already keeps its state until it is deleted.     *)
ReadyStays == [][\A s \in Slots : Ready(s) => Ready(s)' \/ ~Present(s)']_vars
=============================================================================
