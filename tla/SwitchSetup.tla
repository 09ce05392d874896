----------------------------- MODULE SwitchSetup -----------------------------
(***************************************************************************)
(* How the parser for Nintendo Switch controllers sets one up              *)
(* (uni_hid_parser_switch.c).  It asks the controller a series of things;  *)
(* any reply to a subcommand, or 600 ms without one, moves it on to the    *)
(* next.  Clones may not answer at all, and an answer may come after its   *)
(* time-out.  Then the platform gives the controller a seat.               *)
(*                                                                         *)
(* The module starts where BtConnection leaves a record "parsing".  As     *)
(* there, a behaviour ends when the list of timers is damaged.             *)
(***************************************************************************)
EXTENDS Naturals, Sequences

CONSTANTS
  Seats,          \* what BIT(gamepad_idx) may be
  LateQueries,    \* SDP queries that run on when the set-up starts, see queryDone
  MaxAnswers      \* bound: answers of the controller that are under way

(* What is assumed of the constants. *)
SwitchConstants == "none" \notin Seats /\ LateQueries \in Nat /\ MaxAnswers \in Nat

VARIABLES
  ins,            \* switch_instance_t: state, mode, gamepad_seat
  conn,           \* state of the connection: SDP stands for all before PENDING_READY
  setup_timer,    \* how often the timer is in the run loop's list
  damaged,        \* what happened to that list
  requests,       \* subcommands on their way to the controller
  answers,        \* their replies on the way back
  pad,            \* the controller: what it was told to do
  queries, seated \* SDP queries still running; the record has a seat

vars == <<ins, conn, setup_timer, damaged, requests, answers, pad, queries, seated>>

States == {"UNINIT", "SETUP", "REQ_DEV_INFO", "READ_FACTORY_CALIBRATION", "READ_USER_CALIBRATION",
           "SET_FULL_REPORT", "ENABLE_IMU", "DUMP_FLASH", "UPDATE_LED", "READY"}

(* A subcommand and its argument, "none" if it has none of interest. *)
Subcommands == {"REQ_DEV_INFO", "SPI_FLASH_READ", "SET_REPORT_MODE", "ENABLE_IMU", "SET_PLAYER_LEDS"}
Arguments == Seats \cup {"none", "full", "on", "off"}

Init ==
    /\ ins = [state |-> "UNINIT", mode |-> "NONE", gamepad_seat |-> "none"]
    /\ conn = "SDP" /\ setup_timer = 0 /\ damaged = "no"
    /\ requests = <<>> /\ answers = <<>>
    /\ pad = [report |-> "simple", imu |-> "off", leds |-> "none"]
    /\ queries = LateQueries /\ seated = FALSE

(* The part of the state that the handlers work on, as one value. *)
Now == [ins |-> ins, conn |-> conn, timer |-> setup_timer, requests |-> requests,
        damaged |-> damaged, seated |-> seated]
Become(w) == /\ ins' = w.ins /\ conn' = w.conn /\ setup_timer' = w.timer
             /\ requests' = w.requests /\ damaged' = w.damaged /\ seated' = w.seated

enter(w, s) == [w EXCEPT !.ins.state = s]
send_subcmd(w, id, arg) == [w EXCEPT !.requests = Append(@, <<id, arg>>)]

(* uni_hid_device_disconnect and uni_hid_device_delete: the record is      *)
(* wiped, and with it a timer that is in the list.                         *)
drop(w) == [w EXCEPT !.conn = "gone", !.damaged = IF w.timer > 0 THEN "cleared" ELSE @]

set_led(w, leds) == send_subcmd([w EXCEPT !.ins.gamepad_seat = leds], "SET_PLAYER_LEDS", leds)

(* The seat is kept in any state, for fsm_update_led to use. *)
uni_hid_parser_switch_set_player_leds(w, leds) ==
    IF w.ins.state = "READY" THEN set_led(w, leds) ELSE [w EXCEPT !.ins.gamepad_seat = leds]

(* uni_hid_device_set_ready_complete; seat is what the platform finds,     *)
(* "none" if all are taken.  It declines a record that it seated before.   *)
set_ready_complete(w, seat) ==
    CASE w.conn = "READY" -> w
      [] w.conn # "READY" /\ seat # "none" /\ ~w.seated ->
           [uni_hid_parser_switch_set_player_leds(w, seat) EXCEPT !.conn = "READY", !.seated = TRUE]
      [] OTHER -> drop(w)

-----------------------------------------------------------------------------
(* Faulty: the timer of the step before is left in the list. *)
restartTwice(w) == [w EXCEPT !.timer = @ + IF w.ins.state = "READY" THEN 0 ELSE 1]

(* The first part of process_fsm: a timer for the next step. *)
restart(w) ==
    LET left == IF w.ins.state = "SETUP" THEN w.timer ELSE 0
        v == [w EXCEPT !.timer = left + (IF w.ins.state = "READY" THEN 0 ELSE 1)]
    IN  IF v.timer > 1 THEN [v EXCEPT !.damaged = "added twice"] ELSE v

(* Faulty: the platform is told before the state says so. *)
readyStateLast(w, seat) ==
    LET v == set_ready_complete(w, seat)
    IN  IF v.conn = "gone" THEN v ELSE restart(enter(v, "READY"))

(* Once ready, process_fsm is called for the last time, which removes the  *)
(* timer.  If the platform declines the controller, its record is wiped    *)
(* with the timer of this step in the list, and the behaviour ends here.   *)
fsm_ready(w, seat) ==
    LET v == set_ready_complete(enter(w, "READY"), seat)
    IN  IF v.conn = "gone" THEN v ELSE restart(v)

(* There is nothing to dump, so this state is left at once. *)
fsm_dump_rom(w) ==
    LET v == restart([enter(w, "DUMP_FLASH") EXCEPT !.timer = 0])
    IN  set_led(enter(v, "UPDATE_LED"), v.ins.gamepad_seat)

process_fsm(w, seat) ==
    LET v == restart(w)
        s == w.ins.state
    IN  CASE s = "SETUP" -> send_subcmd(enter(v, "REQ_DEV_INFO"), "REQ_DEV_INFO", "none")
          [] s = "REQ_DEV_INFO" ->
               send_subcmd(enter(v, "READ_FACTORY_CALIBRATION"), "SPI_FLASH_READ", "none")
          [] s = "READ_FACTORY_CALIBRATION" ->
               send_subcmd(enter(v, "READ_USER_CALIBRATION"), "SPI_FLASH_READ", "none")
          [] s = "READ_USER_CALIBRATION" ->
               send_subcmd(enter(v, "SET_FULL_REPORT"), "SET_REPORT_MODE", "full")
          [] s = "SET_FULL_REPORT" ->
               send_subcmd(enter(v, "ENABLE_IMU"), "ENABLE_IMU",
                           IF v.ins.mode = "ACCEL" THEN "on" ELSE "off")
          [] s = "ENABLE_IMU" -> fsm_dump_rom(v)
          [] s = "UPDATE_LED" -> fsm_ready(v, seat)
          [] OTHER -> v

uni_hid_parser_switch_setup(w, seat) ==
    process_fsm([w EXCEPT !.ins.state = "SETUP", !.ins.mode = "NONE"], seat)

-----------------------------------------------------------------------------
alive == conn # "gone" /\ damaged = "no"

(* Bluepad32 finds the controller connected and known. *)
uni_hid_device_set_ready(w) ==
    IF w.conn = "PENDING_READY" THEN w
    ELSE uni_hid_parser_switch_setup([w EXCEPT !.conn = "PENDING_READY"], "none")

setReady ==
    /\ alive /\ ins.state = "UNINIT"
    /\ Become(uni_hid_device_set_ready(Now))
    /\ UNCHANGED <<answers, pad, queries>>

(* The answer to an SDP query that was started before the name of the      *)
(* controller made it unnecessary: handle_sdp_pid_query_result sets the    *)
(* state back, and as a Switch controller needs no descriptor it goes on   *)
(* to uni_hid_device_set_ready.                                            *)
queryDone ==
    /\ alive /\ ins.state # "UNINIT" /\ queries > 0
    /\ queries' = queries - 1
    /\ Become(uni_hid_device_set_ready([Now EXCEPT !.conn = "SDP"]))
    /\ UNCHANGED <<answers, pad>>

(* A reply tells, if it is the device information, whether button A is     *)
(* held down; whatever it answers, the set-up goes on.                     *)
process_input_subcmd_reply(seat) ==
    /\ alive /\ answers # <<>>
    /\ LET a == Head(answers)
           mode == IF a[1] = "REQ_DEV_INFO" /\ ins.mode = "NONE" THEN a[2] ELSE ins.mode
       IN  Become(process_fsm([Now EXCEPT !.ins.mode = mode], seat))
    /\ answers' = Tail(answers)
    /\ UNCHANGED <<pad, queries>>

(* Faulty: the time-out is only logged. *)
timeoutLogged(seat) ==
    /\ alive /\ setup_timer = 1
    /\ setup_timer' = 0
    /\ UNCHANGED <<ins, conn, damaged, requests, answers, pad, queries, seated>>

(* The run loop takes the timer out of its list and calls it back. *)
switch_setup_timeout_callback(seat) ==
    /\ alive /\ setup_timer = 1
    /\ Become(process_fsm([Now EXCEPT !.timer = 0], seat))
    /\ UNCHANGED <<answers, pad, queries>>

(* The controller (external) does what it is told, and answers or not. *)
obey(r) ==
    pad' = CASE r[1] = "SET_REPORT_MODE" -> [pad EXCEPT !.report = r[2]]
             [] r[1] = "ENABLE_IMU" -> [pad EXCEPT !.imu = r[2]]
             [] r[1] = "SET_PLAYER_LEDS" -> [pad EXCEPT !.leds = r[2]]
             [] OTHER -> pad
replies(r) == IF r[1] = "REQ_DEV_INFO" THEN {<<r[1], m>> : m \in {"NORMAL", "ACCEL"}} ELSE {r}
controller ==
    /\ alive /\ requests # <<>>
    /\ requests' = Tail(requests)
    /\ obey(Head(requests))
    /\ \/ UNCHANGED answers
       \/ /\ Len(answers) < MaxAnswers
          /\ \E a \in replies(Head(requests)) : answers' = Append(answers, a)
    /\ UNCHANGED <<ins, conn, setup_timer, damaged, queries, seated>>

(* The link is lost, or the set-up takes longer than the record may take   *)
(* to become ready (on_l2cap_channel_closed, device_connection_timeout).   *)
leave ==
    /\ alive
    /\ Become(drop(Now))
    /\ UNCHANGED <<answers, pad, queries>>

Next ==
    \/ setReady
    \/ queryDone
    \/ controller
    \/ leave
    \/ \E seat \in Seats \cup {"none"} :
          process_input_subcmd_reply(seat) \/ switch_setup_timeout_callback(seat)

Spec == Init /\ [][Next]_vars

(* The run loop serves its timers and Bluepad32 gets the controller to     *)
(* this point.  Nothing is assumed of the controller.                      *)
FairSpec ==
    /\ Spec
    /\ WF_vars(setReady)
    /\ WF_vars(\E seat \in Seats \cup {"none"} : switch_setup_timeout_callback(seat))

-----------------------------------------------------------------------------
TypeOK ==
    /\ ins \in [state : States, mode : {"NONE", "NORMAL", "ACCEL"}, gamepad_seat : Seats \cup {"none"}]
    /\ conn \in {"SDP", "PENDING_READY", "READY", "gone"}
    /\ setup_timer \in 0 .. 2
    /\ damaged \in {"no", "cleared", "added twice"}
    /\ requests \in Seq(Subcommands \X Arguments)
    /\ answers \in Seq(Subcommands \X (Arguments \cup {"NORMAL", "ACCEL"}))
    /\ pad \in [report : {"simple", "full"}, imu : {"on", "off"}, leds : Seats \cup {"none"}]
    /\ queries \in 0 .. LateQueries /\ seated \in BOOLEAN

(* The timer is in the list, once, for as long as the set-up lasts, and is *)
(* not in it any more when the controller is ready: process_fsm stops and  *)
(* starts it in every step, whatever made it take the step.                *)
SetupTimed ==
    alive => setup_timer = (IF conn = "PENDING_READY" THEN 1 ELSE 0)

(* However many answers were lost or late, a controller that is ready has  *)
(* been asked for full reports and shows the seat it was given, once it    *)
(* has done what it was asked to.                                          *)
Configured ==
    conn = "READY" /\ requests = <<>> =>
        pad.report = "full" /\ pad.leds = ins.gamepad_seat /\ ins.gamepad_seat \in Seats

(* A controller that answers nothing does not hold up the set-up for ever. *)
SetupEnds == []<>(conn \in {"READY", "gone"} \/ damaged # "no")

(* "Gamepad using gyro+accel" (uni_hid_parser_switch.c:79): the mode ACCEL *)
(* means that the controller was told to enable them.                      *)
AccelMeansImu == conn = "READY" /\ requests = <<>> /\ ins.mode = "ACCEL" => pad.imu = "on"

(* "btstack_assert(next != timer)" (btstack_run_loop.c:97): a timer that   *)
(* is in the list is not added to it.                                      *)
NoTimerAddedTwice == damaged # "added twice"

(* "Remove the timer. If it was still running, it will crash if the        *)
(* handler gets called." (uni_hid_device.c:393): a record is not wiped     *)
(* while a timer of it is in the list.                                     *)
NoTimerOutlivesRecord == damaged # "cleared"
=============================================================================
