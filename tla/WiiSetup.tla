------------------------------ MODULE WiiSetup ------------------------------
(***************************************************************************)
(* How the parser for Wii controllers finds out what it is talking to      *)
(* (uni_hid_parser_wii.c): it asks for the status, and if that tells of an *)
(* extension, initialises it, turns off its encryption and reads what it   *)
(* is, through one of two banks of registers.  It waits for each answer;   *)
(* the remote also sends a status unasked when an extension is plugged in  *)
(* or pulled out.  There is no timer for the steps: a set-up that stays    *)
(* without an answer ends with the connection timer of the record.         *)
(*                                                                         *)
(* The module starts with the call of the parser's setup function, that is *)
(* where BtConnection leaves a record "parsing".                           *)
(***************************************************************************)
EXTENDS Naturals, Sequences

CONSTANTS
  Pads,           \* the controllers considered, see PadRecord
  Seats,          \* what BIT(gamepad_idx) may be
  MaxPlugs        \* bound: how often extensions are plugged in or pulled out

Banks == {"a4", "a6"}
Extensions == {"none", "nunchuk", "classic", "board", "pro", "other"}

(* product: its product id; ext: the extension; banks: the registers that  *)
(* let extensions be used.  A Wii U Pro has its controls as an extension.  *)
PadRecord == [product : {"0306", "0330"}, ext : Extensions, banks : SUBSET Banks]

(* What is assumed of the constants.  The first bank works with "all Wii   *)
(* devices, except for the Wii Remote Plus" (uni_hid_parser_wii.c:1251).   *)
WiiConstants ==
    /\ Pads \subseteq PadRecord
    /\ \A p \in Pads : p.ext = "pro" => p.product = "0330" /\ "a4" \in p.banks
    /\ "none" \notin Seats /\ MaxPlugs \in Nat

VARIABLES
  ins,            \* wii_instance_t
  conn,           \* state of the connection
  toPad, toHost,  \* reports under way, in order (L2CAP loses none)
  pad,            \* the controller, with the report mode and LEDs it was given
  plugs           \* observer: how often its extension changed

vars == <<ins, conn, toPad, toHost, pad, plugs>>

States == {"UNINIT", "SETUP", "DID_REQ_STATUS", "DEV_UNK", "EXT_UNK", "EXT_DID_INIT",
           "EXT_DID_NO_ENCRYPTION", "EXT_DID_READ_REGISTER", "BALANCE_BOARD_READ_CALIBRATION",
           "BALANCE_BOARD_READ_CALIBRATION2", "BALANCE_BOARD_DID_READ_CALIBRATION",
           "BALANCE_BOARD_DID_READ_CALIBRATION2", "DEV_GUESSED", "DEV_ASSIGNED", "LED_UPDATED"}

Init ==
    /\ ins = [state |-> "UNINIT", dev_type |-> "UNK", ext_type |-> "none", flags |-> {},
              register_address |-> "zero", gamepad_seat |-> "none"]
    /\ conn = "PENDING_READY"
    /\ toPad = <<>> /\ toHost = <<>>
    /\ \E p \in Pads : pad = [is |-> p, mode |-> "K", leds |-> <<"none", {}>>]
    /\ plugs = 0

(* The part of the state that the handlers work on, as one value. *)
Now == [ins |-> ins, conn |-> conn, out |-> toPad]
Become(w) == ins' = w.ins /\ conn' = w.conn /\ toPad' = w.out

enter(w, s) == [w EXCEPT !.ins.state = s]
send(w, id, arg) == [w EXCEPT !.out = Append(@, <<id, arg>>)]

-----------------------------------------------------------------------------
(* The steps of the set-up *)

(* The LEDs show the seat, and the modes that were chosen with a button. *)
wii_set_led(w) == send(w, "LED", <<w.ins.gamepad_seat, w.ins.flags>>)

uni_hid_parser_wii_set_player_leds(w, leds) ==
    LET v == [w EXCEPT !.ins.gamepad_seat = leds]
    IN  IF v.ins.state = "LED_UPDATED" THEN wii_set_led(v) ELSE v

(* uni_hid_device_set_ready_complete: the platform has a seat, or drops    *)
(* the controller if all are taken ("none").                               *)
set_ready_complete(w, seat) ==
    CASE w.conn = "READY" -> w
      [] w.conn # "READY" /\ seat = "none" -> [w EXCEPT !.conn = "gone"]
      [] OTHER -> [uni_hid_parser_wii_set_player_leds(w, seat) EXCEPT !.conn = "READY"]

(* Faulty: the device is reported ready before its LEDs are. *)
ledStateLast(w, seat) == enter(set_ready_complete(wii_set_led(w), seat), "LED_UPDATED")

wii_fsm_update_led(w, seat) == set_ready_complete(enter(wii_set_led(w), "LED_UPDATED"), seat)

(* The report mode for what was found. *)
reportType(i) ==
    CASE i.dev_type = "PRO" -> "KEE"
      [] i.dev_type # "PRO" /\ i.ext_type = "nunchuk" -> IF "ACCEL" \in i.flags THEN "KAE" ELSE "KE"
      [] i.dev_type # "PRO" /\ i.ext_type = "classic" -> "E"
      [] i.dev_type # "PRO" /\ i.ext_type = "board" -> "KEE"
      [] OTHER -> IF "ACCEL" \in i.flags THEN "KA" ELSE "K"

wii_fsm_assign_device(w, seat) ==
    wii_fsm_update_led(enter(send(w, "DRM", reportType(w.ins)), "DEV_ASSIGNED"), seat)

(* With no EEPROM to dump, SETUP goes on to the request for the status. *)
wii_process_fsm(w, seat) ==
    LET s == w.ins.state
        bank == w.ins.register_address
    IN  CASE s = "SETUP" -> send(enter(w, "DID_REQ_STATUS"), "SREQ", "none")
          [] s \in {"DEV_UNK", "EXT_UNK"} -> send(enter(w, "EXT_DID_INIT"), "WMEM", bank)
          [] s = "EXT_DID_INIT" -> send(enter(w, "EXT_DID_NO_ENCRYPTION"), "WMEM", bank)
          [] s = "EXT_DID_NO_ENCRYPTION" -> send(enter(w, "EXT_DID_READ_REGISTER"), "RMEM fa", bank)
          [] s = "DEV_GUESSED" -> wii_fsm_assign_device(w, seat)
          [] s = "BALANCE_BOARD_READ_CALIBRATION" ->
               send(enter(w, "BALANCE_BOARD_DID_READ_CALIBRATION"), "RMEM 24", bank)
          [] s = "BALANCE_BOARD_READ_CALIBRATION2" ->
               send(enter(w, "BALANCE_BOARD_DID_READ_CALIBRATION2"), "RMEM 34", bank)
          [] OTHER -> w

uni_hid_parser_wii_setup ==
    /\ conn = "PENDING_READY" /\ ins.state = "UNINIT"
    /\ Become(wii_process_fsm([enter(Now, "SETUP") EXCEPT !.ins.register_address = "a4"], "none"))
    /\ UNCHANGED <<toHost, pad, plugs>>

-----------------------------------------------------------------------------
(* Reports of the controller *)

(* The state and the types after a status report. *)
statusSeen(i, extension, pressed) ==
    [i EXCEPT !.dev_type = CASE pad.is.product = "0306" -> "REMOTE"
                             [] pad.is.product = "0330" /\ ~extension -> "REMOTE_MP"
                             [] OTHER -> @,
              !.state = IF extension THEN "EXT_UNK" ELSE "DEV_GUESSED",
              !.ext_type = IF extension THEN "UNK" ELSE "none",
              !.flags = @ \cup (pressed \ {"none"})]

(* Faulty: a status that was not asked for is taken for an answer. *)
statusAnyState(w, r, seat) ==
    IF w.conn = "READY" THEN w
    ELSE wii_process_fsm([w EXCEPT !.ins = statusSeen(@, r[2][1], {r[2][2]})], seat)

process_req_status(w, r, seat) ==
    IF w.ins.state # "DID_REQ_STATUS" THEN w
    ELSE wii_process_fsm([w EXCEPT !.ins = statusSeen(@, r[2][1], {r[2][2]})], seat)

(* Faulty: the second bank is not tried. *)
returnOneBank(w, r, seat) ==
    wii_process_fsm(IF r[2] = "ok" THEN w ELSE enter(w, "SETUP"), seat)

(* A write that failed is tried again with the other bank, and if that     *)
(* fails too the set-up starts over.                                       *)
process_req_return(w, r, seat) ==
    wii_process_fsm(CASE r[2] = "ok" -> w
                      [] r[2] # "ok" /\ w.ins.register_address = "a6" -> enter(w, "SETUP")
                      [] OTHER -> [enter(w, "DEV_UNK") EXCEPT !.ins.register_address = "a6"],
                    seat)

(* Faulty: the extension type is only looked at for Remotes. *)
registerOfRemotes(i, id) ==
    LET unknown == i.ext_type = "UNK" /\ i.dev_type # "UNK"
    IN  [i EXCEPT !.dev_type = CASE id = "pro" -> "PRO"
                                 [] id # "pro" /\ @ = "UNK" -> "REMOTE_MP"
                                 [] OTHER -> @,
                  !.ext_type = IF unknown /\ id \in {"nunchuk", "classic", "board"} THEN id ELSE @,
                  !.state = "DEV_GUESSED"]

(* What the six bytes at 0xa?00fa say. *)
registerRead(i, id) ==
    LET ext == CASE id = "pro" -> "pro"
                 [] id \in {"nunchuk", "board", "classic"} /\ i.ext_type = "UNK" -> id
                 [] OTHER -> i.ext_type
        guess == IF pad.is.product = "0330" THEN "REMOTE_MP" ELSE "REMOTE"
    IN  [i EXCEPT !.dev_type = IF id = "pro" THEN "PRO" ELSE IF @ = "UNK" THEN guess ELSE @,
                  !.ext_type = ext,
                  !.state = IF ext = "board" THEN "BALANCE_BOARD_READ_CALIBRATION" ELSE "DEV_GUESSED"]

(* Memory that was read; an error is logged and leaves the set-up as it is. *)
process_req_data(w, r, seat) ==
    LET s == w.ins.state
        next == CASE s = "EXT_DID_READ_REGISTER" -> registerRead(w.ins, r[2])
                  [] s = "BALANCE_BOARD_DID_READ_CALIBRATION" ->
                       [w.ins EXCEPT !.state = "BALANCE_BOARD_READ_CALIBRATION2"]
                  [] s = "BALANCE_BOARD_DID_READ_CALIBRATION2" -> [w.ins EXCEPT !.state = "DEV_GUESSED"]
                  [] OTHER -> w.ins
    IN  IF r[2] = "error" \/ next = w.ins THEN w ELSE wii_process_fsm([w EXCEPT !.ins = next], seat)

uni_hid_parser_wii_parse_input_report(seat) ==
    /\ conn # "gone" /\ toHost # <<>>
    /\ LET r == Head(toHost)
       IN  Become(CASE r[1] = "STATUS" -> process_req_status(Now, r, seat)
                    [] r[1] = "RETURN" -> process_req_return(Now, r, seat)
                    [] r[1] = "DATA" -> process_req_data(Now, r, seat))
    /\ toHost' = Tail(toHost)
    /\ UNCHANGED <<pad, plugs>>

-----------------------------------------------------------------------------
(* The controller (external) *)

usable(bank) == pad.is.ext # "none" /\ bank \in pad.is.banks
status(pressed) == <<"STATUS", <<pad.is.ext # "none", pressed>>>>

(* Its answers to a request; none to an order.  Through the second bank    *)
(* the identity of an extension may look strange.                          *)
answersTo(r) ==
    CASE r[1] = "SREQ" -> {<<status(p)>> : p \in {"none", "ACCEL", "VERTICAL"}}
      [] r[1] = "WMEM" -> {<<<<"RETURN", IF usable(r[2]) THEN "ok" ELSE "error">>>>}
      [] r[1] = "RMEM fa" -> {<<<<"DATA", IF ~usable(r[2]) THEN "error" ELSE id>>>> :
                                 id \in {pad.is.ext} \cup (IF r[2] = "a6" THEN {"other"} ELSE {})}
      [] r[1] \in {"RMEM 24", "RMEM 34"} ->
            {<<<<"DATA", IF usable(r[2]) THEN "calibration" ELSE "error">>>>}
      [] OTHER -> {<<>>}

controller ==
    /\ conn # "gone" /\ toPad # <<>>
    /\ LET r == Head(toPad)
       IN  /\ \E a \in answersTo(r) : toHost' = toHost \o a
           /\ pad' = CASE r[1] = "DRM" -> [pad EXCEPT !.mode = r[2]]
                       [] r[1] = "LED" -> [pad EXCEPT !.leds = r[2]]
                       [] OTHER -> pad
    /\ toPad' = Tail(toPad)
    /\ UNCHANGED <<ins, conn, plugs>>

(* An extension is plugged in or pulled out, and the status sent. *)
plug(e) ==
    /\ conn # "gone" /\ plugs < MaxPlugs
    /\ pad.is.ext # "pro" /\ e # pad.is.ext
    /\ pad' = [pad EXCEPT !.is.ext = e]
    /\ toHost' = Append(toHost, <<"STATUS", <<e # "none", "none">>>>)
    /\ plugs' = plugs + 1
    /\ UNCHANGED <<ins, conn, toPad>>

(* The connection timer, while the set-up lasts, or the loss of the link. *)
leave ==
    /\ conn # "gone"
    /\ conn' = "gone"
    /\ UNCHANGED <<ins, toPad, toHost, pad, plugs>>

Next ==
    \/ uni_hid_parser_wii_setup
    \/ \E seat \in Seats \cup {"none"} : uni_hid_parser_wii_parse_input_report(seat)
    \/ controller
    \/ \E e \in Extensions \ {"pro", "board", "other"} : plug(e)
    \/ leave

Spec == Init /\ [][Next]_vars

(* The controller answers, and the Bluetooth task takes the answers. *)
FairSpec ==
    /\ Spec
    /\ WF_vars(uni_hid_parser_wii_setup)
    /\ WF_vars(\E seat \in Seats \cup {"none"} : uni_hid_parser_wii_parse_input_report(seat))
    /\ WF_vars(controller)

-----------------------------------------------------------------------------
Modes == {"K", "KA", "KE", "KAE", "KEE", "E"}
Leds == (Seats \cup {"none"}) \X SUBSET {"ACCEL", "VERTICAL"}
TypeOK ==
    /\ ins.state \in States /\ ins.flags \subseteq {"ACCEL", "VERTICAL"}
    /\ ins.dev_type \in {"UNK", "PRO", "REMOTE", "REMOTE_MP"}
    /\ ins.ext_type \in (Extensions \ {"other"}) \cup {"UNK"}
    /\ ins.state # "UNINIT" => ins.register_address \in Banks
    /\ conn \in {"PENDING_READY", "READY", "gone"}
    /\ pad \in [is : PadRecord, mode : Modes, leds : Leds]
    /\ plugs \in 0 .. MaxPlugs

(* Answers are taken for what they are: an acknowledgement comes only when *)
(* the set-up waits for one, and memory only when it waits for that, even  *)
(* if status reports come unasked.                                         *)
AnswersFit ==
    conn # "gone" =>
      \A i \in DOMAIN toHost :
        /\ toHost[i][1] = "RETURN" => ins.state \in {"EXT_DID_INIT", "EXT_DID_NO_ENCRYPTION"}
        /\ toHost[i][1] = "DATA" =>
             \/ ins.state = "EXT_DID_READ_REGISTER" /\ toHost[i][2] # "calibration"
             \/ /\ ins.state \in {"BALANCE_BOARD_DID_READ_CALIBRATION",
                                  "BALANCE_BOARD_DID_READ_CALIBRATION2"}
                /\ toHost[i][2] \in {"calibration", "error"}

(* A controller that is ready was recognised, whatever way it was asked,   *)
(* and is asked for the reports that hold its controls.  (The identity of  *)
(* an extension may be unknown if it was read through the second bank.)    *)
Recognised ==
    conn = "READY" /\ plugs = 0 =>
      LET p == pad.is
          right == IF p.ext = "other" THEN "UNK" ELSE p.ext
      IN  /\ ins.dev_type = CASE p.ext = "pro" -> "PRO"
                              [] p.ext # "pro" /\ p.product = "0306" -> "REMOTE"
                              [] OTHER -> "REMOTE_MP"
          /\ ins.ext_type \in {right} \cup (IF ins.register_address = "a6" THEN {"UNK"} ELSE {})
          /\ toPad = <<>> => pad.mode = reportType(ins)

(* Once it has done what it was asked to, a controller that is ready shows *)
(* the seat that the platform gave it.                                     *)
LedsShowSeat ==
    conn = "READY" /\ toPad = <<>> => pad.leds[1] = ins.gamepad_seat /\ pad.leds[1] \in Seats

(* Given the time, a controller that stays and whose extension can be used *)
(* gets ready, if there is a seat for it.                                  *)
works == pad.is.ext = "none" \/ pad.is.banks # {}
BecomesReady == <>[](conn # "gone" /\ plugs = 0 /\ works) => <>[](conn = "READY")

(* "Start with 0xa40000 (all Wii devices, except for the Wii Remote Plus). *)
(* If it fails it will use 0xa60000" (uni_hid_parser_wii.c:1251): every    *)
(* time the set-up starts, with the request for the status, it is set to   *)
(* try the first bank.                                                     *)
StartsWithA4 == ins.state = "DID_REQ_STATUS" => ins.register_address = "a4"
=============================================================================
