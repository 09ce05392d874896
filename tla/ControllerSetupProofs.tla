----------------------- MODULE ControllerSetupProofs -----------------------
(***************************************************************************)
(* Proofs about the set-up of controllers, for any number of device        *)
(* records, channels and controllers.  A behaviour of SetupSpec is one of  *)
(* a single stage, so each stage has an inductive invariant of its own,    *)
(* which the steps of the other stages leave alone:                        *)
(*   SwitchInv    the timer, the pending requests and what the controller  *)
(*                was told fit the state of the parser;                    *)
(*   WiiInv       at most one request that has an answer is under way, the *)
(*                answer will fit the state, and what is known so far is   *)
(*                true of the controller;                                  *)
(*   Sound(Now)   records, channels, links, the SDP query and the count of *)
(*                seats agree with one another.                            *)
(***************************************************************************)
EXTENDS MCControllerSetup, SequenceTheorems, FiniteSetTheorems, WellFoundedInduction, TLAPS

-----------------------------------------------------------------------------
(* The parser for Nintendo Switch controllers. *)

(* What the variables of the parser can hold. *)
SwitchIns ==
    [state : S!States, mode : S!Arguments \cup {"NONE", "NORMAL", "ACCEL"},
     gamepad_seat : Seats \cup {"none"}]
SwitchRequest == S!Subcommands \X S!Arguments
SwitchStates ==
    [ins : SwitchIns,
     conn : {"SDP", "PENDING_READY", "READY", "gone"}, timer : 0 .. 2,
     requests : Seq(SwitchRequest), damaged : {"no", "cleared", "added twice"},
     seated : BOOLEAN]

(* States that come after the request for full reports, and all those of   *)
(* the set-up.                                                             *)
SwitchLateStates == {"SET_FULL_REPORT", "ENABLE_IMU", "UPDATE_LED", "READY"}

SwitchInSetup == {"REQ_DEV_INFO", "READ_FACTORY_CALIBRATION", "READ_USER_CALIBRATION", "SET_FULL_REPORT", "ENABLE_IMU", "UPDATE_LED"}

(* The state of the parser and the stage of the connection go together. *)
StageKnown(w) ==
    /\ w.conn = "SDP" => w.ins.state = "UNINIT"
    /\ w.conn = "PENDING_READY" => w.ins.state \in SwitchInSetup
    /\ w.conn = "READY" => w.ins.state = "READY"

(* Only full reports are ever asked for, and past that state they were     *)
(* asked for; the LEDs are the last thing asked for; the timer runs        *)
(* exactly while the set-up does.                                          *)
OnlyFull(w) == \A i \in DOMAIN w.requests : w.requests[i][1] = "SET_REPORT_MODE" => w.requests[i][2] = "full"
ReportsAsked(w, p) ==
    w.ins.state \in SwitchLateStates =>
        p.report = "full" \/ \E i \in DOMAIN w.requests : w.requests[i][1] = "SET_REPORT_MODE"
LedsAsked(w, p) ==
    w.conn = "READY" =>
        /\ w.ins.gamepad_seat \in Seats
        /\ IF w.requests = <<>> THEN p.leds = w.ins.gamepad_seat
           ELSE w.requests[Len(w.requests)] = <<"SET_PLAYER_LEDS", w.ins.gamepad_seat>>
SwitchTimed(w) ==
    w.conn # "gone" /\ w.damaged = "no" => w.timer = (IF w.conn = "PENDING_READY" THEN 1 ELSE 0)

(* What holds of a record between the steps of one handler. *)
SwitchSound(w, p) == w \in SwitchStates /\ OnlyFull(w) /\ ReportsAsked(w, p)

(* A request that is sent is the last one pending, and changes nothing     *)
(* else.                                                                   *)
LEMMA SwitchSends ==
    ASSUME NEW p, NEW w \in SwitchStates, OnlyFull(w), 
           NEW id \in S!Subcommands, NEW arg \in S!Arguments,
           id = "SET_REPORT_MODE" => arg = "full",
           id = "SET_REPORT_MODE" \/ ReportsAsked(w, p)
    PROVE  LET v == S!send_subcmd(w, id, arg)
           IN  /\ SwitchSound(v, p)
               /\ v.ins = w.ins /\ v.conn = w.conn /\ v.timer = w.timer
               /\ v.damaged = w.damaged /\ v.seated = w.seated
               /\ v.requests # <<>> /\ v.requests[Len(v.requests)] = <<id, arg>>
<1>. DEFINE v == S!send_subcmd(w, id, arg)
            e == <<id, arg>>
<1>1. e \in SwitchRequest
    BY DEF SwitchRequest
<1>3. w.requests \in Seq(SwitchRequest)
    BY DEF SwitchStates
<1>0. Append(w.requests, e) \in Seq(SwitchRequest)
    BY <1>1, <1>3
<1>2. /\ v \in SwitchStates
      /\ v.ins = w.ins /\ v.conn = w.conn /\ v.timer = w.timer
      /\ v.damaged = w.damaged /\ v.seated = w.seated
      /\ v.requests = Append(w.requests, e)
    BY <1>0 DEF S!send_subcmd, SwitchStates
<1>. DEFINE q == w.requests
            r == v.requests
<1>4. /\ r # <<>> /\ Len(r) = Len(q) + 1 /\ r[Len(r)] = e
      /\ DOMAIN r = 1 .. Len(q) + 1 /\ DOMAIN q = 1 .. Len(q) /\ Len(q) \in Nat
      /\ \A i \in DOMAIN q : r[i] = q[i]
  <2>. HIDE DEF q, e, v
  <2>. QED
      BY <1>1, <1>2, <1>3 DEF q
<1>5. OnlyFull(v)
  <2>. HIDE DEF v
  <2>. QED
      BY <1>4 DEF OnlyFull
<1>6. ReportsAsked(v, p)
  <2>. HIDE DEF v
  <2>. QED
      BY <1>2, <1>4 DEF ReportsAsked
<1>. QED
    BY <1>2, <1>4, <1>5, <1>6 DEF SwitchSound

SwitchSteady(w, p) == SwitchSound(w, p) /\ StageKnown(w) /\ LedsAsked(w, p) /\ SwitchTimed(w)

(* A change of state changes only the state. *)
LEMMA SwitchEnters ==
    ASSUME NEW w \in SwitchStates, NEW s \in S!States
    PROVE  LET v == S!enter(w, s)
           IN  /\ v \in SwitchStates /\ v.ins.state = s /\ v.ins.gamepad_seat = w.ins.gamepad_seat
               /\ v.conn = w.conn /\ v.timer = w.timer /\ v.requests = w.requests
               /\ v.damaged = w.damaged /\ v.seated = w.seated
    BY DEF S!enter, SwitchStates, SwitchIns


Restarted(w, v) ==
    /\ v \in SwitchStates
    /\ v.ins = w.ins /\ v.conn = w.conn /\ v.requests = w.requests /\ v.seated = w.seated
    /\ w.ins.state = "READY" => v.timer = 0 /\ v.damaged = w.damaged
    /\ w.ins.state \notin {"READY", "SETUP"} => v.timer = 1 /\ v.damaged = w.damaged
    /\ w.ins.state = "SETUP" =>
          IF w.timer = 0 THEN v.timer = 1 /\ v.damaged = w.damaged ELSE v.damaged = "added twice"

(* Restarting the timer leaves one timer, or damages a record that has     *)
(* one.                                                                    *)
LEMMA SwitchRestarts ==
    ASSUME NEW w \in SwitchStates, w.timer \in 0 .. 1, NEW v, v = S!restart(w)
    PROVE  Restarted(w, v)
<1>1. \A n \in 0 .. 2 :
        LET u == [w EXCEPT !.timer = n]
        IN  /\ u \in SwitchStates /\ u.timer = n /\ u.ins = w.ins /\ u.conn = w.conn
            /\ u.requests = w.requests /\ u.seated = w.seated /\ u.damaged = w.damaged
    BY DEF SwitchStates
<1>. DEFINE left == IF w.ins.state = "SETUP" THEN w.timer ELSE 0
            more == IF w.ins.state = "READY" THEN 0 ELSE 1
            n == left + more
            u == [w EXCEPT !.timer = n]
<1>2. v = IF u.timer > 1 THEN [u EXCEPT !.damaged = "added twice"] ELSE u
    BY DEF S!restart
<1>3. left \in 0 .. 1 /\ more \in 0 .. 1
    OBVIOUS
<1>4. /\ w.ins.state = "READY" => left = 0 /\ more = 0
      /\ w.ins.state \notin {"READY", "SETUP"} => left = 0 /\ more = 1
      /\ w.ins.state = "SETUP" => left = w.timer /\ more = 1
    OBVIOUS
<1>. HIDE DEF left, more
<1>5. n \in 0 .. 2
    BY <1>3
<1>6. /\ u \in SwitchStates /\ u.timer = n /\ u.ins = w.ins /\ u.conn = w.conn
      /\ u.requests = w.requests /\ u.seated = w.seated /\ u.damaged = w.damaged
    BY <1>1, <1>5
<1>7. CASE n > 1
  <2>1. w.ins.state = "SETUP" /\ w.timer # 0
      BY <1>3, <1>4, <1>7
  <2>2. v = [u EXCEPT !.damaged = "added twice"]
    <3>. HIDE DEF u, n
    <3>. QED
        BY <1>2, <1>6, <1>7
  <2>3. /\ v \in SwitchStates /\ v.ins = u.ins /\ v.conn = u.conn /\ v.requests = u.requests
        /\ v.seated = u.seated /\ v.damaged = "added twice"
    <3>. HIDE DEF u, n
    <3>. QED
        BY <1>6, <2>2 DEF SwitchStates
  <2>. HIDE DEF u, n
  <2>. QED
      BY <1>6, <2>1, <2>3 DEF Restarted
<1>8. CASE n <= 1
  <2>1. v = u
    <3>. HIDE DEF u, n
    <3>1. u.timer \in 0 .. 2 /\ u.timer <= 1
        BY <1>5, <1>6, <1>8
    <3>2. ~(u.timer > 1)
        BY <3>1
    <3>. QED
        BY <1>2, <3>2, Zenon
  <2>2. /\ w.ins.state = "READY" => n = 0
        /\ w.ins.state \notin {"READY", "SETUP"} => n = 1
        /\ w.ins.state = "SETUP" => n = 1 /\ w.timer = 0
      BY <1>3, <1>4, <1>8
  <2>. HIDE DEF u, n
  <2>. QED
      BY <1>6, <2>1, <2>2 DEF Restarted
<1>. QED
    BY <1>5, <1>7, <1>8

Advanced(w, p) == SwitchSteady(w, p) /\ w.conn # "SDP"

(* Asking for something, in a state of the set-up, keeps the invariant. *)
LEMMA SwitchAsks ==
    ASSUME NEW p, NEW u \in SwitchStates, OnlyFull(u), u.conn = "PENDING_READY", u.ins.state \in SwitchInSetup,
           u.damaged = "no" => u.timer = 1,
           NEW id \in S!Subcommands, NEW arg \in S!Arguments,
           id = "SET_REPORT_MODE" => arg = "full",
           id = "SET_REPORT_MODE" \/ ReportsAsked(u, p),
           NEW z, z = S!send_subcmd(u, id, arg)
    PROVE  Advanced(z, p)
<1>1. SwitchSound(z, p) /\ z.ins = u.ins /\ z.conn = u.conn /\ z.timer = u.timer /\ z.damaged = u.damaged
    BY SwitchSends
<1>. QED
    BY <1>1 DEF Advanced, SwitchSteady, StageKnown, LedsAsked, SwitchTimed, SwitchInSetup

(* So does a step of the state machine: the timer anew, the next state, a  *)
(* request.                                                                *)
LEMMA SwitchAdvances ==
    ASSUME NEW p, NEW w \in SwitchStates, SwitchSound(w, p), w.damaged = "no", w.timer \in 0 .. 1,
           w.conn = "PENDING_READY", w.ins.state # "READY",
           NEW s \in SwitchInSetup, NEW id \in S!Subcommands, NEW arg \in S!Arguments,
           id = "SET_REPORT_MODE" => arg = "full",
           s \in SwitchLateStates /\ id # "SET_REPORT_MODE" => w.ins.state \in SwitchLateStates,
           NEW z, z = S!send_subcmd(S!enter(S!restart(w), s), id, arg)
    PROVE  Advanced(z, p)
<1>. DEFINE v == S!restart(w)
            u == S!enter(v, s)
<1>1. Restarted(w, v)
    BY SwitchRestarts
<1>2. s \in S!States
    BY DEF SwitchInSetup, S!States
<1>3. v \in SwitchStates
    BY <1>1 DEF Restarted
<1>. HIDE DEF v
<1>4. /\ u \in SwitchStates /\ u.ins.state = s /\ u.ins.gamepad_seat = v.ins.gamepad_seat
      /\ u.conn = v.conn /\ u.timer = v.timer /\ u.requests = v.requests
      /\ u.damaged = v.damaged /\ u.seated = v.seated
    BY <1>2, <1>3, SwitchEnters
<1>. HIDE DEF u
<1>5. OnlyFull(u)
    BY <1>1, <1>4 DEF SwitchSound, OnlyFull, Restarted
<1>6. id = "SET_REPORT_MODE" \/ ReportsAsked(u, p)
    BY <1>1, <1>4 DEF SwitchSound, ReportsAsked, Restarted
<1>7. u.damaged = "no" => u.timer = 1
    BY <1>1, <1>4 DEF Restarted
<1>8. z = S!send_subcmd(u, id, arg)
    BY DEF u, v
<1>. QED
    BY <1>1, <1>4, <1>5, <1>6, <1>7, <1>8, SwitchAsks DEF Restarted

(* The step that asks for the LEDs. *)
LEMMA SwitchDumpsRom ==
    ASSUME NEW p, NEW w \in SwitchStates, SwitchSound(w, p), w.damaged = "no", w.timer \in 0 .. 1,
           w.conn = "PENDING_READY", w.ins.state = "ENABLE_IMU",
           NEW z, z = S!fsm_dump_rom(S!restart(w))
    PROVE  Advanced(z, p)
<1>. DEFINE v == S!restart(w)
            d == [S!enter(v, "DUMP_FLASH") EXCEPT !.timer = 0]
            r == S!restart(d)
            e == S!enter(r, "UPDATE_LED")
            leds == r.ins.gamepad_seat
            u == [e EXCEPT !.ins.gamepad_seat = leds]
<1>1. Restarted(w, v)
    BY SwitchRestarts
<1>2. z = S!send_subcmd(u, "SET_PLAYER_LEDS", leds)
    BY DEF S!fsm_dump_rom, S!set_led
<1>3. v \in SwitchStates
    BY <1>1 DEF Restarted
<1>. HIDE DEF v
<1>4. /\ d \in SwitchStates /\ d.ins.state = "DUMP_FLASH" /\ d.timer = 0 /\ d.conn = v.conn
      /\ d.requests = v.requests /\ d.damaged = v.damaged
  <2>1. "DUMP_FLASH" \in S!States
      BY DEF S!States
  <2>. DEFINE f == S!enter(v, "DUMP_FLASH")
  <2>2. /\ f \in SwitchStates /\ f.ins.state = "DUMP_FLASH" /\ f.conn = v.conn
        /\ f.requests = v.requests /\ f.damaged = v.damaged
      BY <1>3, <2>1, SwitchEnters
  <2>3. 0 \in 0 .. 2
      OBVIOUS
  <2>. HIDE DEF f
  <2>. QED
      BY <2>2, <2>3 DEF SwitchStates, f
<1>. HIDE DEF d
<1>5. Restarted(d, r)
    BY <1>4, SwitchRestarts
<1>. HIDE DEF r
<1>6. /\ e \in SwitchStates /\ e.ins.state = "UPDATE_LED" /\ e.conn = r.conn /\ e.timer = r.timer
      /\ e.requests = r.requests /\ e.damaged = r.damaged
  <2>1. "UPDATE_LED" \in S!States
      BY DEF S!States
  <2>. QED
      BY <1>5, <2>1, SwitchEnters DEF Restarted
<1>. HIDE DEF e
<1>11. leds \in Seats \cup {"none"}
    BY <1>5 DEF Restarted, SwitchStates, SwitchIns
<1>. HIDE DEF leds
<1>7. /\ u \in SwitchStates /\ u.ins.state = "UPDATE_LED" /\ u.conn = e.conn /\ u.timer = e.timer
      /\ u.requests = e.requests /\ u.damaged = e.damaged
    BY <1>11, <1>6 DEF SwitchStates, SwitchIns
<1>. HIDE DEF u
<1>8. u.conn = w.conn /\ u.requests = w.requests /\ u.timer = 1
    BY <1>1, <1>4, <1>5, <1>6, <1>7 DEF Restarted
<1>9. OnlyFull(u) /\ ReportsAsked(u, p)
    BY <1>8, <1>7 DEF SwitchSound, OnlyFull, ReportsAsked, SwitchLateStates
<1>10. "SET_PLAYER_LEDS" \in S!Subcommands /\ leds \in S!Arguments
    BY <1>11 DEF S!Subcommands, S!Arguments
<1>. QED
  <2>1. u.conn = "PENDING_READY" /\ u.ins.state \in SwitchInSetup
      BY <1>7, <1>8 DEF SwitchInSetup
  <2>. QED
      BY <1>2, <1>7, <1>8, <1>9, <1>10, <2>1, SwitchAsks

(* The last step: the platform gives the controller a seat, or drops it.   *)
LEMMA SwitchGetsReady ==
    ASSUME NEW p, NEW w \in SwitchStates, SwitchSound(w, p), w.damaged = "no", w.timer \in 0 .. 1,
           w.conn = "PENDING_READY", w.ins.state = "UPDATE_LED", NEW seat \in Seats \cup {"none"},
           NEW z, z = S!fsm_ready(S!restart(w), seat)
    PROVE  Advanced(z, p)
<1>. DEFINE v == S!restart(w)
            e == S!enter(v, "READY")
            c == S!set_ready_complete(e, seat)
<1>1. Restarted(w, v)
    BY SwitchRestarts
<1>. HIDE DEF v
<1>2. /\ e \in SwitchStates /\ e.ins.state = "READY" /\ e.conn = v.conn /\ e.timer = v.timer
      /\ e.requests = v.requests /\ e.damaged = v.damaged /\ e.seated = v.seated
  <2>1. "READY" \in S!States
      BY DEF S!States
  <2>. QED
      BY <1>1, <2>1, SwitchEnters DEF Restarted
<1>3. z = IF c.conn = "gone" THEN c ELSE S!restart(c)
    BY DEF S!fsm_ready, v
<1>. HIDE DEF e
<1>4. OnlyFull(e) /\ ReportsAsked(e, p)
    BY <1>1, <1>2 DEF SwitchSound, OnlyFull, ReportsAsked, Restarted, SwitchLateStates
<1>5. e.conn = "PENDING_READY" /\ e.timer = 1 /\ e.damaged = "no"
    BY <1>1, <1>2 DEF Restarted
<1>6. CASE seat # "none" /\ ~e.seated
  <2>. DEFINE g == [e EXCEPT !.ins.gamepad_seat = seat]
              f == S!send_subcmd(g, "SET_PLAYER_LEDS", seat)
  <2>1. c = [f EXCEPT !.conn = "READY", !.seated = TRUE]
      BY <1>2, <1>5, <1>6 DEF S!set_ready_complete, S!uni_hid_parser_switch_set_player_leds, S!set_led
  <2>2. /\ g \in SwitchStates /\ g.ins.state = "READY" /\ g.ins.gamepad_seat = seat
        /\ g.requests = e.requests /\ g.timer = e.timer /\ g.damaged = e.damaged
      BY <1>2 DEF SwitchStates, SwitchIns
  <2>. HIDE DEF g
  <2>3. "SET_PLAYER_LEDS" \in S!Subcommands /\ seat \in S!Arguments
      BY DEF S!Subcommands, S!Arguments
  <2>4. OnlyFull(g) /\ ReportsAsked(g, p)
      BY <1>2, <1>4, <2>2 DEF OnlyFull, ReportsAsked
  <2>5. /\ SwitchSound(f, p) /\ f.ins = g.ins /\ f.timer = g.timer /\ f.damaged = g.damaged
        /\ f.requests # <<>> /\ f.requests[Len(f.requests)] = <<"SET_PLAYER_LEDS", seat>>
      BY <2>2, <2>3, <2>4, SwitchSends
  <2>. HIDE DEF f, c
  <2>6. /\ c \in SwitchStates /\ c.ins = f.ins /\ c.timer = f.timer /\ c.damaged = f.damaged
        /\ c.requests = f.requests /\ c.conn = "READY"
      BY <2>1, <2>5 DEF SwitchSound, SwitchStates
  <2>7. z = S!restart(c)
      BY <1>3, <2>6
  <2>8. Restarted(c, z)
      BY <1>5, <2>2, <2>5, <2>6, <2>7, SwitchRestarts
  <2>9. /\ z \in SwitchStates /\ z.ins.state = "READY" /\ z.ins.gamepad_seat = seat /\ z.conn = "READY"
        /\ z.timer = 0 /\ z.requests = f.requests /\ z.ins = f.ins
      BY <2>2, <2>5, <2>6, <2>8 DEF Restarted
  <2>10. SwitchSound(z, p)
      BY <2>5, <2>9 DEF SwitchSound, OnlyFull, ReportsAsked
  <2>. QED
      BY <1>6, <2>5, <2>9, <2>10 DEF Advanced, SwitchSteady, StageKnown, LedsAsked, SwitchTimed
<1>7. CASE ~(seat # "none" /\ ~e.seated)
  <2>1. c = S!drop(e)
      BY <1>5, <1>7 DEF S!set_ready_complete
  <2>2. /\ c \in SwitchStates /\ c.conn = "gone" /\ c.ins = e.ins /\ c.requests = e.requests
      BY <1>2, <2>1 DEF S!drop, SwitchStates
  <2>. HIDE DEF c
  <2>3. z = c
      BY <1>3, <2>2
  <2>4. SwitchSound(z, p)
      BY <1>4, <2>2, <2>3 DEF SwitchSound, OnlyFull, ReportsAsked
  <2>. QED
      BY <2>2, <2>3, <2>4 DEF Advanced, SwitchSteady, StageKnown, LedsAsked, SwitchTimed
<1>. QED
    BY <1>6, <1>7

(* Every step of the state machine keeps the invariant. *)
LEMMA SwitchProcesses ==
    ASSUME NEW p, NEW w \in SwitchStates, SwitchSound(w, p), w.damaged = "no", w.timer \in 0 .. 1,
           \/ w.conn = "PENDING_READY" /\ w.ins.state \in SwitchInSetup \cup {"SETUP"}
           \/ w.conn = "READY" /\ w.ins.state = "READY" /\ LedsAsked(w, p),
           NEW seat \in Seats \cup {"none"},
           NEW z, z = S!process_fsm(w, seat)
    PROVE  Advanced(z, p)
<1>0. /\ {"REQ_DEV_INFO", "SPI_FLASH_READ", "SET_REPORT_MODE", "ENABLE_IMU"} \subseteq S!Subcommands
      /\ {"none", "full", "on", "off"} \subseteq S!Arguments
    BY DEF S!Subcommands, S!Arguments
<1>. DEFINE v == S!restart(w)
<1>00. Restarted(w, v)
    BY SwitchRestarts
<1>1. CASE w.conn = "READY"
  <2>1. z = v
      BY <1>1 DEF S!process_fsm, SwitchInSetup
  <2>. HIDE DEF v
  <2>. QED
      BY <1>00, <1>1, <2>1 DEF Advanced, Restarted, SwitchSteady, SwitchSound, OnlyFull, ReportsAsked, LedsAsked, StageKnown, SwitchTimed
<1>2. CASE w.conn = "PENDING_READY" /\ w.ins.state = "SETUP"
  <2>1. z = S!send_subcmd(S!enter(S!restart(w), "REQ_DEV_INFO"), "REQ_DEV_INFO", "none")
      BY <1>2 DEF S!process_fsm
  <2>. QED
      BY <1>0, <1>2, <2>1, SwitchAdvances DEF SwitchInSetup, SwitchLateStates
<1>3. CASE w.conn = "PENDING_READY" /\ w.ins.state = "REQ_DEV_INFO"
  <2>1. z = S!send_subcmd(S!enter(S!restart(w), "READ_FACTORY_CALIBRATION"), "SPI_FLASH_READ", "none")
      BY <1>3 DEF S!process_fsm
  <2>. QED
      BY <1>0, <1>3, <2>1, SwitchAdvances DEF SwitchInSetup, SwitchLateStates
<1>4. CASE w.conn = "PENDING_READY" /\ w.ins.state = "READ_FACTORY_CALIBRATION"
  <2>1. z = S!send_subcmd(S!enter(S!restart(w), "READ_USER_CALIBRATION"), "SPI_FLASH_READ", "none")
      BY <1>4 DEF S!process_fsm
  <2>. QED
      BY <1>0, <1>4, <2>1, SwitchAdvances DEF SwitchInSetup, SwitchLateStates
<1>5. CASE w.conn = "PENDING_READY" /\ w.ins.state = "READ_USER_CALIBRATION"
  <2>1. z = S!send_subcmd(S!enter(S!restart(w), "SET_FULL_REPORT"), "SET_REPORT_MODE", "full")
      BY <1>5 DEF S!process_fsm
  <2>. QED
      BY <1>0, <1>5, <2>1, SwitchAdvances DEF SwitchInSetup, SwitchLateStates
<1>6. CASE w.conn = "PENDING_READY" /\ w.ins.state = "SET_FULL_REPORT"
  <2>. DEFINE arg == IF v.ins.mode = "ACCEL" THEN "on" ELSE "off"
  <2>1. z = S!send_subcmd(S!enter(S!restart(w), "ENABLE_IMU"), "ENABLE_IMU", arg)
      BY <1>6 DEF S!process_fsm
  <2>2. arg \in S!Arguments
      BY <1>0
  <2>. HIDE DEF arg
  <2>. QED
      BY <1>0, <1>6, <2>1, <2>2, SwitchAdvances DEF SwitchInSetup, SwitchLateStates
<1>7. CASE w.conn = "PENDING_READY" /\ w.ins.state = "ENABLE_IMU"
  <2>1. z = S!fsm_dump_rom(S!restart(w))
      BY <1>7 DEF S!process_fsm
  <2>. QED
      BY <1>7, <2>1, SwitchDumpsRom
<1>8. CASE w.conn = "PENDING_READY" /\ w.ins.state = "UPDATE_LED"
  <2>1. z = S!fsm_ready(S!restart(w), seat)
      BY <1>8 DEF S!process_fsm
  <2>. QED
      BY <1>8, <2>1, SwitchGetsReady
<1>. QED
    BY <1>1, <1>2, <1>3, <1>4, <1>5, <1>6, <1>7, <1>8 DEF SwitchInSetup

(* What the controller and its answers can be, and the invariant. *)
SwitchPads == [report : S!Arguments \cup {"simple"}, imu : S!Arguments, leds : S!Arguments]

Answer == S!Subcommands \X (S!Arguments \cup {"NORMAL", "ACCEL"})
SwitchInv ==
    /\ SwitchSteady(S!Now, switchPad)
    /\ switchPad \in SwitchPads
    /\ answers \in Seq(Answer)
    /\ switchConn = "SDP" => requests = <<>> /\ answers = <<>>

(* The invariant holds initially. *)
LEMMA SwitchBegins == S!Init => SwitchInv
<1>. SUFFICES ASSUME S!Init PROVE SwitchInv
    OBVIOUS
<1>. DEFINE w == S!Now
<1>1. w = [ins |-> [state |-> "UNINIT", mode |-> "NONE", gamepad_seat |-> "none"], conn |-> "SDP",
           timer |-> 0, requests |-> <<>>, damaged |-> "no", seated |-> FALSE]
    BY DEF S!Init, S!Now
<1>2. w \in SwitchStates
  <2>1. <<>> \in Seq(SwitchRequest)
      OBVIOUS
  <2>2. w.ins \in SwitchIns
      BY <1>1 DEF SwitchIns, S!States
  <2>. QED
      BY <1>1, <2>1, <2>2 DEF SwitchStates
<1>3. w.conn = "SDP" /\ w.ins.state = "UNINIT" /\ w.timer = 0 /\ w.requests = <<>>
    BY <1>1
<1>. HIDE DEF w
<1>4. SwitchSteady(w, switchPad)
    BY <1>2, <1>3 DEF SwitchSteady, SwitchSound, OnlyFull, ReportsAsked, SwitchLateStates, StageKnown, LedsAsked, SwitchTimed
<1>5. switchPad \in SwitchPads
    BY DEF S!Init, SwitchPads, S!Arguments
<1>6. answers \in Seq(Answer) /\ answers = <<>> /\ requests = <<>>
    BY DEF S!Init
<1>. QED
    BY <1>4, <1>5, <1>6 DEF SwitchInv, w

(* The fields of the state, as variables. *)
LEMMA SwitchFields ==
    /\ S!Now.ins = switchIns /\ S!Now.conn = switchConn /\ S!Now.timer = setup_timer
    /\ S!Now.requests = requests /\ S!Now.damaged = switchDamaged /\ S!Now.seated = seated
    BY DEF S!Now

(* A step that becomes z leaves the state z. *)
LEMMA SwitchBecomes ==
    ASSUME NEW z \in SwitchStates, S!Become(z)
    PROVE  S!Now' = z
    BY DEF S!Become, S!Now, SwitchStates

(* Any step that processes the state machine. *)
LEMMA SwitchMovesOn ==
    ASSUME NEW z, Advanced(z, switchPad), S!Become(z), UNCHANGED switchPad, switchPad \in SwitchPads,
           answers' \in Seq(Answer)
    PROVE  SwitchInv'
<1>1. z \in SwitchStates
    BY DEF Advanced, SwitchSteady, SwitchSound
<1>2. S!Now' = z /\ switchConn' = z.conn
    BY <1>1, SwitchBecomes DEF S!Become
<1>. QED
    BY <1>2 DEF SwitchInv, Advanced

(* The state machine started over. *)
LEMMA SwitchStartsOver ==
    ASSUME NEW w \in SwitchStates, OnlyFull(w), w.damaged = "no", w.timer \in 0 .. 1,
           w.conn # "PENDING_READY", NEW p,
           NEW z, z = S!uni_hid_device_set_ready(w)
    PROVE  Advanced(z, p)
<1>. DEFINE c == [w EXCEPT !.conn = "PENDING_READY"]
            u == [c EXCEPT !.ins.state = "SETUP", !.ins.mode = "NONE"]
<1>1. z = S!process_fsm(u, "none")
    BY DEF S!uni_hid_device_set_ready, S!uni_hid_parser_switch_setup
<1>2. c \in SwitchStates /\ c.conn = "PENDING_READY" /\ c.requests = w.requests /\ c.timer = w.timer
      /\ c.damaged = w.damaged
    BY DEF SwitchStates
<1>. HIDE DEF c
<1>3. /\ u \in SwitchStates /\ u.conn = "PENDING_READY" /\ u.requests = w.requests /\ u.timer = w.timer
      /\ u.damaged = w.damaged /\ u.ins.state = "SETUP"
    BY <1>2 DEF SwitchStates, SwitchIns, S!States
<1>. HIDE DEF u
<1>4. SwitchSound(u, p)
    BY <1>3 DEF SwitchSound, OnlyFull, ReportsAsked, SwitchLateStates
<1>. QED
    BY <1>1, <1>3, <1>4, SwitchProcesses

(* Every step of this stage keeps the invariant. *)
LEMMA SwitchSteps == SwitchInv /\ S!Next => SwitchInv'
<1>. SUFFICES ASSUME SwitchInv, S!Next PROVE SwitchInv'
    OBVIOUS
<1>. DEFINE w == S!Now
<1>1. /\ w \in SwitchStates /\ SwitchSound(w, switchPad) /\ OnlyFull(w) /\ StageKnown(w)
      /\ LedsAsked(w, switchPad) /\ SwitchTimed(w) /\ switchPad \in SwitchPads /\ answers \in Seq(Answer)
    BY DEF SwitchInv, SwitchSteady, SwitchSound
<1>2. /\ w.ins = switchIns /\ w.conn = switchConn /\ w.timer = setup_timer
      /\ w.requests = requests /\ w.damaged = switchDamaged /\ w.seated = seated
    BY SwitchFields
<1>3. S!alive => w.damaged = "no" /\ w.conn # "gone" /\ w.timer \in 0 .. 1
    BY <1>1, <1>2 DEF S!alive, SwitchTimed
<1>4. CASE S!setReady
  <2>1. w.conn # "PENDING_READY"
      BY <1>1, <1>2, <1>4 DEF S!setReady, StageKnown, SwitchInSetup
  <2>2. S!Become(S!uni_hid_device_set_ready(w)) /\ UNCHANGED <<answers, switchPad>>
      BY <1>4 DEF S!setReady
  <2>. HIDE DEF w
  <2>3. Advanced(S!uni_hid_device_set_ready(w), switchPad)
      BY <1>1, <1>3, <1>4, <2>1, SwitchStartsOver DEF S!setReady
  <2>. QED
      BY <1>1, <2>2, <2>3, SwitchMovesOn
<1>5. CASE S!queryDone
  <2>. DEFINE u == [w EXCEPT !.conn = "SDP"]
  <2>1. S!Become(S!uni_hid_device_set_ready(u)) /\ UNCHANGED <<answers, switchPad>> /\ S!alive
      BY <1>5 DEF S!queryDone
  <2>. HIDE DEF w
  <2>2. u \in SwitchStates /\ u.conn = "SDP" /\ u.requests = w.requests /\ u.damaged = w.damaged
        /\ u.timer = w.timer
      BY <1>1 DEF SwitchStates
  <2>. HIDE DEF u
  <2>3. OnlyFull(u)
      BY <1>1, <2>2 DEF OnlyFull
  <2>4. Advanced(S!uni_hid_device_set_ready(u), switchPad)
      BY <1>3, <2>1, <2>2, <2>3, SwitchStartsOver
  <2>. QED
      BY <1>1, <2>1, <2>4, SwitchMovesOn
<1>6. ASSUME NEW seat \in Seats \cup {"none"}, S!process_input_subcmd_reply(seat)
      PROVE  SwitchInv'
  <2>. DEFINE a == Head(answers)
              mode == IF a[1] = "REQ_DEV_INFO" /\ switchIns.mode = "NONE" THEN a[2] ELSE switchIns.mode
              u == [w EXCEPT !.ins.mode = mode]
  <2>1. /\ S!Become(S!process_fsm(u, seat)) /\ answers' = Tail(answers) /\ answers # <<>>
        /\ UNCHANGED switchPad /\ S!alive
      BY <1>6 DEF S!process_input_subcmd_reply
  <2>2. a \in Answer /\ answers' \in Seq(Answer)
      BY <1>1, <2>1
  <2>3. mode \in S!Arguments \cup {"NONE", "NORMAL", "ACCEL"}
      BY <1>1, <1>2, <2>2 DEF SwitchStates, SwitchIns, Answer
  <2>. HIDE DEF w, mode
  <2>4. /\ u \in SwitchStates /\ u.ins.state = w.ins.state /\ u.conn = w.conn /\ u.requests = w.requests
        /\ u.damaged = w.damaged /\ u.timer = w.timer /\ u.ins.gamepad_seat = w.ins.gamepad_seat
      BY <1>1, <2>3 DEF SwitchStates, SwitchIns
  <2>. HIDE DEF u
  <2>5. w.conn # "SDP"
      BY <1>2, <2>1 DEF SwitchInv
  <2>6. SwitchSound(u, switchPad) /\ LedsAsked(u, switchPad)
      BY <1>1, <2>4 DEF SwitchSound, OnlyFull, ReportsAsked, LedsAsked
  <2>7. \/ u.conn = "PENDING_READY" /\ u.ins.state \in SwitchInSetup \cup {"SETUP"}
        \/ u.conn = "READY" /\ u.ins.state = "READY" /\ LedsAsked(u, switchPad)
      BY <1>1, <1>3, <2>1, <2>4, <2>5, <2>6 DEF StageKnown, SwitchStates
  <2>8. Advanced(S!process_fsm(u, seat), switchPad)
      BY <1>3, <2>1, <2>4, <2>6, <2>7, SwitchProcesses
  <2>. QED
      BY <1>1, <2>1, <2>2, <2>8, SwitchMovesOn
<1>7. ASSUME NEW seat \in Seats \cup {"none"}, S!switch_setup_timeout_callback(seat)
      PROVE  SwitchInv'
  <2>. DEFINE u == [w EXCEPT !.timer = 0]
  <2>1. /\ S!Become(S!process_fsm(u, seat)) /\ UNCHANGED <<answers, switchPad>>
        /\ S!alive /\ setup_timer = 1
      BY <1>7 DEF S!switch_setup_timeout_callback
  <2>. HIDE DEF w
  <2>2. 0 \in 0 .. 2
      OBVIOUS
  <2>3. /\ u \in SwitchStates /\ u.ins = w.ins /\ u.conn = w.conn /\ u.requests = w.requests
        /\ u.damaged = w.damaged /\ u.timer = 0
      BY <1>1, <2>2 DEF SwitchStates
  <2>. HIDE DEF u
  <2>4. w.conn = "PENDING_READY"
      BY <1>1, <1>2, <1>3, <2>1 DEF SwitchTimed
  <2>5. SwitchSound(u, switchPad)
      BY <1>1, <2>3 DEF SwitchSound, OnlyFull, ReportsAsked
  <2>6. u.conn = "PENDING_READY" /\ u.ins.state \in SwitchInSetup
      BY <1>1, <2>3, <2>4 DEF StageKnown
  <2>7. Advanced(S!process_fsm(u, seat), switchPad)
      BY <1>3, <2>1, <2>3, <2>5, <2>6, SwitchProcesses
  <2>. QED
      BY <1>1, <2>1, <2>7, SwitchMovesOn
<1>8. CASE S!leave
  <2>. DEFINE u == S!drop(w)
  <2>1. S!Become(u) /\ UNCHANGED <<answers, switchPad>>
      BY <1>8 DEF S!leave
  <2>. HIDE DEF w
  <2>2. u \in SwitchStates /\ u.conn = "gone" /\ u.ins = w.ins /\ u.requests = w.requests
      BY <1>1 DEF S!drop, SwitchStates
  <2>. HIDE DEF u
  <2>3. Advanced(u, switchPad)
      BY <1>1, <2>2 DEF Advanced, SwitchSteady, SwitchSound, OnlyFull, ReportsAsked, StageKnown, LedsAsked, SwitchTimed
  <2>. QED
      BY <1>1, <2>1, <2>3, SwitchMovesOn
<1>9. CASE S!controller
  <2>. DEFINE q == requests
              r == Head(q)
              v == S!Now'
  <2>1. /\ S!alive /\ q # <<>> /\ requests' = Tail(q) /\ S!obey(r)
        /\ UNCHANGED <<switchIns, switchConn, setup_timer, switchDamaged, seated>>
        /\ \/ UNCHANGED answers
           \/ \E a \in S!replies(r) : answers' = Append(answers, a)
      BY <1>9 DEF S!controller
  <2>2. q \in Seq(SwitchRequest) /\ r \in SwitchRequest
    <3>1. w.requests \in Seq(SwitchRequest)
      <4>. HIDE DEF w
      <4>. QED
          BY <1>1 DEF SwitchStates
    <3>2. q \in Seq(SwitchRequest)
        BY <1>2, <3>1
    <3>. QED
        BY <2>1, <3>2
  <2>3. /\ Tail(q) \in Seq(SwitchRequest) /\ Len(q) \in Nat /\ Len(q) > 0 /\ Len(Tail(q)) = Len(q) - 1
        /\ \A i \in 1 .. Len(q) - 1 : Tail(q)[i] = q[i + 1]
        /\ DOMAIN q = 1 .. Len(q) /\ DOMAIN Tail(q) = 1 .. Len(q) - 1 /\ r = q[1]
      BY <2>1, <2>2
  <2>4. answers' \in Seq(Answer)
    <3>1. \A a \in S!replies(r) : a \in Answer
      <4>. HIDE DEF r
      <4>1. r[1] \in S!Subcommands /\ r \in Answer
          BY <2>2 DEF Answer, SwitchRequest
      <4>2. CASE r[1] = "REQ_DEV_INFO"
        <5>1. S!replies(r) = {<<r[1], m>> : m \in {"NORMAL", "ACCEL"}}
            BY <4>2 DEF S!replies
        <5>. QED
            BY <4>1, <5>1 DEF Answer
      <4>3. CASE r[1] # "REQ_DEV_INFO"
        <5>1. S!replies(r) = {r}
            BY <4>3 DEF S!replies
        <5>. QED
            BY <4>1, <5>1
      <4>. QED
          BY <4>2, <4>3
    <3>. QED
        BY <1>1, <2>1, <3>1
  <2>5. /\ v.ins = w.ins /\ v.conn = w.conn /\ v.timer = w.timer /\ v.damaged = w.damaged
        /\ v.seated = w.seated /\ v.requests = Tail(q)
      BY <2>1 DEF S!Now
  <2>6. v \in SwitchStates
    <3>1. v = [ins |-> w.ins, conn |-> w.conn, timer |-> w.timer, requests |-> Tail(q),
               damaged |-> w.damaged, seated |-> w.seated]
        BY <2>1 DEF S!Now
    <3>. HIDE DEF v, w
    <3>. QED
        BY <1>1, <2>3, <3>1 DEF SwitchStates
  <2>. HIDE DEF v, w
  <2>7. \A i \in DOMAIN q : q[i][1] = "SET_REPORT_MODE" => q[i][2] = "full"
      BY <1>1, <1>2 DEF OnlyFull
  <2>8. OnlyFull(v)
    <3>1. \A i \in DOMAIN Tail(q) : i + 1 \in DOMAIN q /\ Tail(q)[i] = q[i + 1]
        BY <2>3
    <3>. QED
        BY <2>5, <2>7, <3>1 DEF OnlyFull
  <2>9. /\ switchPad' \in SwitchPads
        /\ switchPad'.report = IF r[1] = "SET_REPORT_MODE" THEN r[2] ELSE switchPad.report
        /\ switchPad'.leds = IF r[1] = "SET_PLAYER_LEDS" THEN r[2] ELSE switchPad.leds
    <3>1. r[2] \in S!Arguments
        BY <2>2 DEF SwitchRequest
    <3>. HIDE DEF r
    <3>2. switchPad' = CASE r[1] = "SET_REPORT_MODE" -> [switchPad EXCEPT !.report = r[2]]
                         [] r[1] = "ENABLE_IMU" -> [switchPad EXCEPT !.imu = r[2]]
                         [] r[1] = "SET_PLAYER_LEDS" -> [switchPad EXCEPT !.leds = r[2]]
                         [] OTHER -> switchPad
        BY <2>1 DEF S!obey
    <3>3. CASE r[1] = "SET_REPORT_MODE"
      <4>1. switchPad' = [switchPad EXCEPT !.report = r[2]]
          BY <3>2, <3>3
      <4>. QED
          BY <1>1, <3>1, <3>3, <4>1 DEF SwitchPads
    <3>4. CASE r[1] = "ENABLE_IMU"
      <4>1. switchPad' = [switchPad EXCEPT !.imu = r[2]]
          BY <3>2, <3>4
      <4>. QED
          BY <1>1, <3>1, <3>4, <4>1 DEF SwitchPads
    <3>5. CASE r[1] = "SET_PLAYER_LEDS"
      <4>1. switchPad' = [switchPad EXCEPT !.leds = r[2]]
          BY <3>2, <3>5
      <4>. QED
          BY <1>1, <3>1, <3>5, <4>1 DEF SwitchPads
    <3>6. CASE r[1] \notin {"SET_REPORT_MODE", "ENABLE_IMU", "SET_PLAYER_LEDS"}
      <4>1. switchPad' = switchPad
          BY <3>2, <3>6
      <4>. QED
          BY <1>1, <3>6, <4>1
    <3>. QED
        BY <3>3, <3>4, <3>5, <3>6
  <2>10. ReportsAsked(v, switchPad')
    <3>. SUFFICES ASSUME v.ins.state \in SwitchLateStates, switchPad'.report # "full"
                  PROVE  \E i \in DOMAIN v.requests : v.requests[i][1] = "SET_REPORT_MODE"
        BY DEF ReportsAsked
    <3>1. 1 \in DOMAIN q
        BY <2>3
    <3>2. r[1] # "SET_REPORT_MODE" /\ switchPad.report # "full"
        BY <2>3, <2>7, <2>9, <3>1
    <3>3. PICK i \in DOMAIN q : q[i][1] = "SET_REPORT_MODE"
        BY <1>1, <1>2, <2>5, <3>2 DEF SwitchSound, ReportsAsked
    <3>4. i # 1
        BY <2>3, <3>2, <3>3
    <3>5. i - 1 \in DOMAIN Tail(q) /\ Tail(q)[i - 1] = q[i]
        BY <2>3, <3>4
    <3>. QED
        BY <2>5, <3>3, <3>5
  <2>11. LedsAsked(v, switchPad')
    <3>. SUFFICES ASSUME v.conn = "READY" PROVE LedsAsked(v, switchPad')
        BY DEF LedsAsked
    <3>1. w.ins.gamepad_seat \in Seats /\ q[Len(q)] = <<"SET_PLAYER_LEDS", w.ins.gamepad_seat>>
        BY <1>1, <1>2, <2>1, <2>5 DEF LedsAsked
    <3>2. CASE Len(q) = 1
      <4>1. r[1] = "SET_PLAYER_LEDS" /\ r[2] = w.ins.gamepad_seat
          BY <2>3, <3>1, <3>2
      <4>2. Tail(q) = <<>>
          BY <2>3, <3>2
      <4>. QED
          BY <2>5, <2>9, <3>1, <4>1, <4>2 DEF LedsAsked
    <3>3. CASE Len(q) # 1
      <4>1. Len(q) - 1 \in 1 .. Len(q) - 1 /\ Len(q) - 1 + 1 = Len(q)
          BY <2>3, <3>3
      <4>2. Tail(q)[Len(q) - 1] = q[Len(q)]
          BY <2>3, <4>1
      <4>3. Tail(q) # <<>>
        <5>1. Tail(q) \in Seq(SwitchRequest) /\ Len(Tail(q)) # 0
            BY <2>3, <4>1
        <5>. QED
            BY <5>1, EmptySeq
      <4>. QED
          BY <2>3, <2>5, <3>1, <4>2, <4>3 DEF LedsAsked
    <3>. QED
        BY <3>2, <3>3
  <2>12. StageKnown(v) /\ SwitchTimed(v)
      BY <1>1, <2>5 DEF StageKnown, SwitchTimed
  <2>13. switchConn' # "SDP"
      BY <2>1 DEF SwitchInv
  <2>. QED
      BY <2>4, <2>6, <2>8, <2>9, <2>10, <2>11, <2>12, <2>13 DEF SwitchInv, SwitchSteady, SwitchSound, v
<1>. QED
    BY <1>4, <1>5, <1>6, <1>7, <1>8, <1>9 DEF S!Next

(* Steps of the other stages keep it. *)
LEMMA SwitchStays == SwitchInv /\ UNCHANGED switchVars => SwitchInv'
    BY DEF SwitchInv, switchVars, S!Now, SwitchSteady, SwitchSound, ReportsAsked, LedsAsked

(* The invariant of the Switch parser holds throughout. *)
LEMMA SwitchInvariant == SetupSpec => []SwitchInv
<1>1. SetupInit => SwitchInv
    BY SwitchBegins DEF SetupInit
<1>2. SwitchInv /\ [SetupNext]_allVars => SwitchInv'
    BY SwitchSteps, SwitchStays DEF SetupNext, allVars, switchVars
<1>. QED
    BY <1>1, <1>2, PTL DEF SetupSpec

(* The invariant implies the properties of the Switch parser. *)
LEMMA SwitchHolds == SwitchInv => S!SetupTimed /\ S!Configured
<1>. SUFFICES ASSUME SwitchInv PROVE S!SetupTimed /\ S!Configured
    OBVIOUS
<1>1. S!SetupTimed
    BY SwitchFields DEF SwitchInv, SwitchSteady, SwitchTimed, S!SetupTimed, S!alive
<1>2. S!Configured
  <2>. SUFFICES ASSUME switchConn = "READY", requests = <<>>
                PROVE  switchPad.report = "full" /\ switchPad.leds = switchIns.gamepad_seat
                       /\ switchIns.gamepad_seat \in Seats
      BY DEF S!Configured
  <2>1. S!Now.ins.state = "READY"
      BY SwitchFields DEF SwitchInv, SwitchSteady, StageKnown
  <2>2. ~ \E i \in DOMAIN S!Now.requests : S!Now.requests[i][1] = "SET_REPORT_MODE"
    <3>1. S!Now.requests = <<>>
        BY SwitchFields
    <3>2. DOMAIN S!Now.requests = {}
        BY <3>1
    <3>. QED
        BY <3>2
  <2>3. switchPad.report = "full"
      BY <2>1, <2>2 DEF SwitchInv, SwitchSteady, SwitchSound, ReportsAsked, SwitchLateStates
  <2>4. switchPad.leds = switchIns.gamepad_seat /\ switchIns.gamepad_seat \in Seats
      BY SwitchFields DEF SwitchInv, SwitchSteady, LedsAsked
  <2>. QED
      BY <2>3, <2>4
<1>. QED
    BY <1>1, <1>2

-----------------------------------------------------------------------------
(* The parser for Wii controllers. *)

(* What the variables of the parser, its requests and the reports can      *)
(* hold.                                                                   *)
WiiArgs == {"none"} \cup W!Banks \cup W!Modes \cup W!Leds
WiiIds == {"SREQ", "WMEM", "RMEM fa", "RMEM 24", "RMEM 34", "DRM", "LED"}
WiiRequest == WiiIds \X WiiArgs
WiiReport ==
    ({"STATUS"} \X (BOOLEAN \X {"none", "ACCEL", "VERTICAL"}))
      \cup ({"RETURN"} \X {"ok", "error"})
      \cup ({"DATA"} \X ({"error", "calibration"} \cup W!Extensions))

WiiIns ==
    [state : W!States, dev_type : {"UNK", "PRO", "REMOTE", "REMOTE_MP"},
     ext_type : (W!Extensions \ {"other"}) \cup {"UNK"}, flags : SUBSET {"ACCEL", "VERTICAL"},
     register_address : W!Banks \cup {"zero"}, gamepad_seat : Seats \cup {"none"}]
WiiStates == [ins : WiiIns, conn : {"PENDING_READY", "READY", "gone"}, out : Seq(WiiRequest)]
WiiPads == [is : W!PadRecord, mode : WiiArgs, leds : WiiArgs]

(* Requests that are answered by an acknowledgement or by memory. *)
Questions == {"WMEM", "RMEM fa", "RMEM 24", "RMEM 34"}
Replies == {"RETURN", "DATA"}

(* States that wait for an acknowledgement, and states that wait for a     *)
(* calibration.                                                            *)
WriteStates == {"EXT_DID_INIT", "EXT_DID_NO_ENCRYPTION"}
BoardStates == {"BALANCE_BOARD_DID_READ_CALIBRATION", "BALANCE_BOARD_DID_READ_CALIBRATION2"}

(* A request, and an answer, that belongs to the state the parser is in. *)
AskFits(i, r) ==
    /\ r[2] = i.register_address
    /\ r[1] = "WMEM" => i.state \in WriteStates
    /\ r[1] = "RMEM fa" => i.state = "EXT_DID_READ_REGISTER"
    /\ r[1] \in {"RMEM 24", "RMEM 34"} => i.state \in BoardStates

Usable(p, bank) == p.ext # "none" /\ bank \in p.banks

ReplyFits(i, p, n, r) ==
    /\ r[1] = "RETURN" =>
         i.state \in WriteStates /\ (n = 0 => (r[2] = "ok" <=> Usable(p, i.register_address)))
    /\ r[1] = "DATA" =>
         \/ /\ i.state = "EXT_DID_READ_REGISTER" /\ r[2] # "calibration"
            /\ n = 0 => \/ r[2] = "error"
                        \/ r[2] = p.ext
                        \/ r[2] = "other" /\ i.register_address = "a6"
         \/ i.state \in BoardStates /\ r[2] \in {"calibration", "error"}

(* Nothing is outstanding; at most one answer is, and it fits. *)
NothingAsked(q, h) ==
    /\ \A i \in DOMAIN q : q[i][1] \notin Questions
    /\ \A i \in DOMAIN h : h[i][1] \notin Replies
Converses(w, h, p, n) ==
    /\ \A i \in DOMAIN w.out : w.out[i][1] \in Questions => AskFits(w.ins, w.out[i])
    /\ \A i \in DOMAIN h : h[i][1] \in Replies => ReplyFits(w.ins, p, n, h[i])
    /\ \A i, j \in DOMAIN w.out : w.out[i][1] \in Questions /\ w.out[j][1] \in Questions => i = j
    /\ \A i, j \in DOMAIN h : h[i][1] \in Replies /\ h[j][1] \in Replies => i = j
    /\ \A i \in DOMAIN w.out, j \in DOMAIN h : ~(w.out[i][1] \in Questions /\ h[j][1] \in Replies)

(* The report mode, and then the LEDs, are the last things asked for. *)
DrmAsked(w, pd) ==
    /\ \A i \in DOMAIN w.out :
         w.out[i][1] = "DRM" => w.ins.state = "LED_UPDATED" /\ w.out[i][2] = W!reportType(w.ins)
    /\ w.conn = "READY" =>
         pd.mode = W!reportType(w.ins) \/ \E i \in DOMAIN w.out : w.out[i][1] = "DRM"
WiiLedsAsked(w, pd) ==
    w.conn = "READY" =>
        /\ w.ins.state = "LED_UPDATED"
        /\ w.ins.gamepad_seat \in Seats
        /\ IF w.out = <<>> THEN pd.leds[1] = w.ins.gamepad_seat
           ELSE LET r == w.out[Len(w.out)] IN r[1] = "LED" /\ r[2][1] = w.ins.gamepad_seat

(* What the parser should take a controller for; before it has looked for  *)
(* the Motion Plus; and what it should take its extension for.             *)
RightDevice(p) ==
    IF p.ext = "pro" THEN "PRO" ELSE IF p.product = "0306" THEN "REMOTE" ELSE "REMOTE_MP"
EarlyDevice(p) == IF p.product = "0306" THEN "REMOTE" ELSE "UNK"
RightExtension(p) == IF p.ext = "other" THEN "UNK" ELSE p.ext

(* What the parser holds in each state is true of the controller. *)
KnownSoFar(i, p) ==
    /\ p.ext = "pro" => i.register_address # "a6" /\ p.product = "0330" /\ "a4" \in p.banks
    /\ i.state \in {"UNINIT", "SETUP", "DID_REQ_STATUS"} => i.dev_type \in {"UNK", EarlyDevice(p)}
    /\ i.state \in {"DEV_UNK", "EXT_UNK", "EXT_DID_INIT", "EXT_DID_NO_ENCRYPTION", "EXT_DID_READ_REGISTER"} =>
         p.ext # "none" /\ i.ext_type = "UNK" /\ i.dev_type = EarlyDevice(p)
    /\ i.state \in {"BALANCE_BOARD_READ_CALIBRATION", "BALANCE_BOARD_READ_CALIBRATION2"} \cup BoardStates =>
         p.ext = "board" /\ i.ext_type = "board" /\ i.dev_type = RightDevice(p)
    /\ i.state \in {"DEV_GUESSED", "DEV_ASSIGNED", "LED_UPDATED"} =>
         /\ i.dev_type = RightDevice(p)
         /\ i.ext_type = RightExtension(p) \/ (i.register_address = "a6" /\ i.ext_type = "UNK")

(* A status report tells whether an extension is plugged in. *)
StatusTrue(h, p) == \A i \in DOMAIN h : h[i][1] = "STATUS" => h[i][2][1] = (p.ext # "none")

(* A state the set-up stops in, waiting. *)
WiiWaiting(w) ==
    /\ w.conn = "PENDING_READY" =>
         w.ins.state \in {"UNINIT", "DID_REQ_STATUS", "EXT_DID_READ_REGISTER"} \cup WriteStates \cup BoardStates
    /\ w.ins.state # "UNINIT" => w.ins.register_address # "zero"

(* What holds of the record between the steps of one handler, with the     *)
(* reports, controller and number of plugs that there are.                 *)
Healthy(w, h, pd, n) ==
    /\ w \in WiiStates
    /\ Converses(w, h, pd.is, n)
    /\ DrmAsked(w, pd)
    /\ WiiLedsAsked(w, pd)
    /\ WiiWaiting(w)
    /\ n = 0 => KnownSoFar(w.ins, pd.is)

(* What is known after a report was sent, and after the state changed.     *)
Sent(w, id, arg, z) ==
    /\ z \in WiiStates /\ z.ins = w.ins /\ z.conn = w.conn
    /\ Len(z.out) = Len(w.out) + 1 /\ Len(w.out) \in Nat
    /\ DOMAIN z.out = 1 .. Len(w.out) + 1 /\ DOMAIN w.out = 1 .. Len(w.out)
    /\ \A i \in DOMAIN w.out : z.out[i] = w.out[i]
    /\ z.out[Len(w.out) + 1] = <<id, arg>> /\ z.out # <<>>
Entered(w, s, z) ==
    /\ z \in WiiStates /\ z.ins = [w.ins EXCEPT !.state = s] /\ z.ins.state = s
    /\ z.ins.dev_type = w.ins.dev_type /\ z.ins.ext_type = w.ins.ext_type
    /\ z.ins.flags = w.ins.flags /\ z.ins.register_address = w.ins.register_address
    /\ z.ins.gamepad_seat = w.ins.gamepad_seat
    /\ z.conn = w.conn /\ z.out = w.out

(* A request that is sent is the last one under way, and changes nothing   *)
(* else.                                                                   *)
LEMMA WiiSends ==
    ASSUME NEW w \in WiiStates, NEW id \in WiiIds, NEW arg \in WiiArgs, NEW z, z = W!send(w, id, arg)
    PROVE  Sent(w, id, arg, z)
<1>. DEFINE e == <<id, arg>>
            q == w.out
<1>1. e \in WiiRequest
    BY DEF WiiRequest
<1>2. q \in Seq(WiiRequest)
    BY DEF WiiStates
<1>3. Append(q, e) \in Seq(WiiRequest)
    BY <1>1, <1>2
<1>4. z \in WiiStates /\ z.ins = w.ins /\ z.conn = w.conn /\ z.out = Append(q, e)
    BY <1>3 DEF W!send, WiiStates
<1>. HIDE DEF q, e
<1>5. /\ Len(z.out) = Len(q) + 1 /\ Len(q) \in Nat
      /\ DOMAIN z.out = 1 .. Len(q) + 1 /\ DOMAIN q = 1 .. Len(q)
      /\ \A i \in DOMAIN q : z.out[i] = q[i]
      /\ z.out[Len(q) + 1] = e /\ z.out # <<>>
    BY <1>1, <1>2, <1>4
<1>. QED
    BY <1>4, <1>5 DEF q, e, Sent

(* A change of state changes only the state. *)
LEMMA WiiEnters ==
    ASSUME NEW w \in WiiStates, NEW s \in W!States, NEW z, z = W!enter(w, s)
    PROVE  Entered(w, s, z)
    BY DEF W!enter, WiiStates, WiiIns, Entered

WaitStates == {"DID_REQ_STATUS", "EXT_DID_READ_REGISTER"} \cup WriteStates \cup BoardStates

Prepared(w, h, p, n) ==
    /\ w \in WiiStates /\ w.conn = "PENDING_READY" /\ w.ins.register_address # "zero"
    /\ NothingAsked(w.out, h)
    /\ \A i \in DOMAIN w.out : w.out[i][1] # "DRM"
    /\ n = 0 => KnownSoFar(w.ins, p)

(* Asking for something when nothing is outstanding keeps the invariant. *)
LEMMA WiiAsks ==
    ASSUME NEW h, NEW pd, NEW n, NEW w, Prepared(w, h, pd.is, n),
           NEW s \in WaitStates, NEW id \in Questions \cup {"SREQ"}, NEW arg \in WiiArgs,
           id \in Questions => AskFits([w.ins EXCEPT !.state = s], <<id, arg>>),
           n = 0 => KnownSoFar([w.ins EXCEPT !.state = s], pd.is),
           NEW z, z = W!send(W!enter(w, s), id, arg)
    PROVE  Healthy(z, h, pd, n)
<1>. DEFINE v == W!enter(w, s)
<1>1. w \in WiiStates /\ w.conn = "PENDING_READY" /\ w.ins.register_address # "zero"
    BY DEF Prepared
<1>2. s \in W!States /\ id \in WiiIds
    BY DEF WaitStates, WriteStates, BoardStates, W!States, Questions, WiiIds
<1>3. /\ v \in WiiStates /\ v.ins = [w.ins EXCEPT !.state = s] /\ v.ins.state = s
      /\ v.ins.register_address = w.ins.register_address
      /\ v.conn = w.conn /\ v.out = w.out
  <2>1. Entered(w, s, v)
      BY <1>1, <1>2, WiiEnters
  <2>. HIDE DEF v
  <2>. QED
      BY <2>1 DEF Entered
<1>. HIDE DEF v
<1>4. z = W!send(v, id, arg)
    BY DEF v
<1>5. /\ z \in WiiStates /\ z.ins = v.ins /\ z.conn = v.conn
      /\ Len(z.out) = Len(v.out) + 1 /\ Len(v.out) \in Nat
      /\ DOMAIN z.out = 1 .. Len(v.out) + 1 /\ DOMAIN v.out = 1 .. Len(v.out)
      /\ \A i \in DOMAIN v.out : z.out[i] = v.out[i]
      /\ z.out[Len(v.out) + 1] = <<id, arg>> /\ z.out # <<>>
  <2>1. arg \in WiiArgs
      OBVIOUS
  <2>2. Sent(v, id, arg, z)
      BY <1>2, <1>3, <1>4, <2>1, WiiSends
  <2>. QED
      BY <2>2 DEF Sent
<1>6. \A i \in DOMAIN z.out : i = Len(v.out) + 1 \/ (i \in DOMAIN v.out /\ z.out[i] = v.out[i])
    BY <1>5
<1>7. \A i \in DOMAIN z.out : z.out[i][1] \in Questions => i = Len(v.out) + 1
    BY <1>3, <1>6 DEF Prepared, NothingAsked
<1>8. Converses(z, h, pd.is, n)
  <2>1. \A i \in DOMAIN z.out : z.out[i][1] \in Questions => AskFits(z.ins, z.out[i])
      BY <1>3, <1>5, <1>7
  <2>. QED
      BY <1>7, <2>1 DEF Converses, Prepared, NothingAsked
<1>9. DrmAsked(z, pd)
  <2>0. id # "DRM"
      BY DEF Questions
  <2>1. id # "DRM" /\ z.out[Len(v.out) + 1][1] = id
      BY <1>5, <2>0
  <2>2. \A i \in DOMAIN z.out : z.out[i][1] # "DRM"
      BY <1>3, <1>6, <2>1 DEF Prepared
  <2>. QED
      BY <1>1, <1>3, <1>5, <2>2 DEF DrmAsked
<1>10. WiiLedsAsked(z, pd) /\ WiiWaiting(z)
    BY <1>1, <1>3, <1>5 DEF WiiLedsAsked, WiiWaiting, WaitStates
<1>. QED
    BY <1>3, <1>5, <1>8, <1>9, <1>10 DEF Healthy

(* A report type is a mode that the controller has. *)
LEMMA ReportTypes == ASSUME NEW i PROVE W!reportType(i) \in W!Modes
    BY DEF W!reportType, W!Modes

(* What the platform's answer makes of it. *)
LEMMA WiiGetsReady ==
    ASSUME NEW h, NEW pd, NEW n, NEW w, Prepared(w, h, pd.is, n), w.ins.state = "DEV_GUESSED",
           NEW seat \in Seats \cup {"none"},
           NEW z, z = W!wii_fsm_assign_device(w, seat)
    PROVE  Healthy(z, h, pd, n)
<1>. DEFINE mode == W!reportType(w.ins)
            a == W!send(w, "DRM", mode)
            b == W!enter(a, "DEV_ASSIGNED")
            leds == <<b.ins.gamepad_seat, b.ins.flags>>
            c == W!send(b, "LED", leds)
            d == W!enter(c, "LED_UPDATED")
<1>1. w \in WiiStates /\ w.conn = "PENDING_READY" /\ w.ins.register_address # "zero"
    BY DEF Prepared
<1>2. z = W!set_ready_complete(d, seat)
    BY DEF W!wii_fsm_assign_device, W!wii_fsm_update_led, W!wii_set_led
<1>3. mode \in WiiArgs /\ "DRM" \in WiiIds /\ "LED" \in WiiIds
    BY ReportTypes DEF WiiArgs, WiiIds
<1>. HIDE DEF mode
<1>4. /\ a \in WiiStates /\ a.ins = w.ins /\ a.conn = w.conn
      /\ DOMAIN a.out = 1 .. Len(w.out) + 1 /\ DOMAIN w.out = 1 .. Len(w.out)
      /\ Len(w.out) \in Nat /\ Len(a.out) = Len(w.out) + 1
      /\ \A i \in DOMAIN w.out : a.out[i] = w.out[i]
      /\ a.out[Len(w.out) + 1] = <<"DRM", mode>>
  <2>1. Sent(w, "DRM", mode, a)
      BY <1>1, <1>3, WiiSends
  <2>. HIDE DEF a
  <2>. QED
      BY <2>1 DEF Sent
<1>. HIDE DEF a
<1>5. /\ b \in WiiStates /\ b.ins = [w.ins EXCEPT !.state = "DEV_ASSIGNED"]
      /\ b.conn = w.conn /\ b.out = a.out
      /\ b.ins.gamepad_seat = w.ins.gamepad_seat
  <2>1. "DEV_ASSIGNED" \in W!States
      BY DEF W!States
  <2>2. Entered(a, "DEV_ASSIGNED", b)
      BY <1>4, <2>1, WiiEnters
  <2>. HIDE DEF b
  <2>. QED
      BY <1>4, <2>2 DEF Entered
<1>. HIDE DEF b
<1>6. leds \in WiiArgs
    BY <1>5 DEF WiiStates, WiiIns, WiiArgs, W!Leds
<1>. HIDE DEF leds
<1>7. /\ c \in WiiStates /\ c.ins = b.ins /\ c.conn = w.conn
      /\ DOMAIN c.out = 1 .. Len(a.out) + 1
      /\ Len(c.out) = Len(a.out) + 1
      /\ \A i \in DOMAIN a.out : c.out[i] = a.out[i]
      /\ c.out[Len(a.out) + 1] = <<"LED", leds>> /\ c.out # <<>>
  <2>1. Sent(b, "LED", leds, c)
      BY <1>3, <1>5, <1>6, WiiSends
  <2>. HIDE DEF c
  <2>. QED
      BY <1>5, <2>1 DEF Sent
<1>. HIDE DEF c
<1>8. /\ d \in WiiStates /\ d.ins.state = "LED_UPDATED" /\ d.conn = w.conn /\ d.out = c.out
      /\ d.ins.dev_type = w.ins.dev_type /\ d.ins.ext_type = w.ins.ext_type /\ d.ins.flags = w.ins.flags
      /\ d.ins.register_address = w.ins.register_address
  <2>1. "LED_UPDATED" \in W!States
      BY DEF W!States
  <2>2. /\ c.ins.dev_type = w.ins.dev_type /\ c.ins.ext_type = w.ins.ext_type
        /\ c.ins.flags = w.ins.flags /\ c.ins.register_address = w.ins.register_address
      BY <1>1, <1>5, <1>7 DEF WiiStates, WiiIns
  <2>3. /\ d \in WiiStates /\ d.ins.state = "LED_UPDATED" /\ d.conn = c.conn /\ d.out = c.out
        /\ d.ins.dev_type = c.ins.dev_type /\ d.ins.ext_type = c.ins.ext_type /\ d.ins.flags = c.ins.flags
        /\ d.ins.register_address = c.ins.register_address
    <3>1. Entered(c, "LED_UPDATED", d)
        BY <1>7, <2>1, WiiEnters
    <3>. HIDE DEF d
    <3>. QED
        BY <3>1 DEF Entered
  <2>. QED
      BY <1>7, <2>2, <2>3
<1>. HIDE DEF d
<1>. DEFINE m == Len(w.out)
            Ours(q) == /\ DOMAIN q \subseteq Nat
                       /\ m + 1 \in DOMAIN q /\ q[m + 1] = <<"DRM", mode>>
                       /\ \A i \in DOMAIN q : \/ i \in DOMAIN w.out /\ q[i] = w.out[i]
                                              \/ q[i] = <<"DRM", mode>>
                                              \/ q[i][1] = "LED"
<1>9. Ours(d.out)
  <2>2. m \in Nat /\ Len(a.out) = m + 1 /\ DOMAIN a.out = 1 .. m + 1 /\ d.out = c.out
        /\ DOMAIN w.out = 1 .. m /\ DOMAIN c.out = 1 .. m + 1 + 1
      BY <1>4, <1>7, <1>8
  <2>3. m + 1 \in DOMAIN d.out /\ m + 1 \in DOMAIN a.out
      BY <2>2
  <2>4. d.out[m + 1] = <<"DRM", mode>>
      BY <1>4, <1>7, <2>2, <2>3
  <2>5. d.out[m + 1 + 1][1] = "LED"
      BY <1>7, <2>2
  <2>6. \A i \in DOMAIN w.out : d.out[i] = w.out[i]
      BY <1>4, <1>7, <2>2
  <2>7. \A i \in DOMAIN d.out : i \in DOMAIN w.out \/ i = m + 1 \/ i = m + 1 + 1
      BY <2>2
  <2>8. DOMAIN d.out \subseteq Nat
      BY <2>2
  <2>. QED
      BY <2>3, <2>4, <2>5, <2>6, <2>7, <2>8
<1>. DEFINE Known(i) == /\ i.state = "LED_UPDATED"
                        /\ i.dev_type = w.ins.dev_type /\ i.ext_type = w.ins.ext_type /\ i.flags = w.ins.flags
                        /\ i.register_address = w.ins.register_address
<1>10. ASSUME z \in WiiStates, Ours(z.out), Known(z.ins), WiiLedsAsked(z, pd), z.conn # "PENDING_READY"
       PROVE  Healthy(z, h, pd, n)
  <2>1. Converses(z, h, pd.is, n)
    <3>1. \A i \in DOMAIN z.out : z.out[i][1] \notin Questions
      <4>. TAKE i \in DOMAIN z.out
      <4>1. CASE i \in DOMAIN w.out /\ z.out[i] = w.out[i]
          BY <4>1 DEF Prepared, NothingAsked
      <4>2. CASE z.out[i] = <<"DRM", mode>>
        <5>1. z.out[i][1] = "DRM"
            BY <4>2
        <5>. QED
            BY <5>1 DEF Questions
      <4>3. CASE z.out[i][1] = "LED"
          BY <4>3 DEF Questions
      <4>. QED
          BY <1>10, <4>1, <4>2, <4>3
    <3>. QED
        BY <3>1 DEF Converses, Prepared, NothingAsked
  <2>2. W!reportType(z.ins) = mode
      BY <1>10 DEF W!reportType, mode
  <2>3. DrmAsked(z, pd)
    <3>1. \A i \in DOMAIN w.out : w.out[i][1] # "DRM"
        BY DEF Prepared
    <3>2. \A i \in DOMAIN z.out : z.out[i][1] = "DRM" => z.out[i] = <<"DRM", mode>>
        BY <1>10, <3>1
    <3>3. z.out[m + 1][1] = "DRM" /\ m + 1 \in DOMAIN z.out
        BY <1>10
    <3>. QED
        BY <1>10, <2>2, <3>2, <3>3 DEF DrmAsked
  <2>4. WiiWaiting(z)
      BY <1>1, <1>10 DEF WiiWaiting, WiiLedsAsked
  <2>5. n = 0 => KnownSoFar(z.ins, pd.is)
      BY <1>10 DEF Prepared, KnownSoFar, BoardStates
  <2>. QED
      BY <1>10, <2>1, <2>3, <2>4, <2>5 DEF Healthy
<1>11. CASE seat = "none"
  <2>1. z = [d EXCEPT !.conn = "gone"]
      BY <1>1, <1>2, <1>8, <1>11 DEF W!set_ready_complete
  <2>2. z \in WiiStates /\ z.conn = "gone" /\ z.ins = d.ins /\ z.out = d.out
      BY <1>8, <2>1 DEF WiiStates
  <2>. HIDE DEF Ours
  <2>. QED
      BY <1>8, <1>9, <1>10, <2>2 DEF WiiLedsAsked
<1>12. CASE seat # "none"
  <2>. DEFINE e == [d EXCEPT !.ins.gamepad_seat = seat]
              light == <<seat, e.ins.flags>>
              f == W!send(e, "LED", light)
  <2>1. /\ e \in WiiStates /\ e.out = d.out /\ e.conn = d.conn /\ e.ins.gamepad_seat = seat
        /\ e.ins = [d.ins EXCEPT !.gamepad_seat = seat]
        /\ e.ins.state = d.ins.state
        /\ e.ins.dev_type = d.ins.dev_type /\ e.ins.ext_type = d.ins.ext_type /\ e.ins.flags = d.ins.flags
        /\ e.ins.register_address = d.ins.register_address
      BY <1>8 DEF WiiStates, WiiIns
  <2>2. z = [f EXCEPT !.conn = "READY"]
    <3>1. z = [W!uni_hid_parser_wii_set_player_leds(d, seat) EXCEPT !.conn = "READY"]
        BY <1>1, <1>2, <1>8, <1>12 DEF W!set_ready_complete
    <3>2. e.ins.state = "LED_UPDATED"
        BY <1>8, <2>1
    <3>3. W!uni_hid_parser_wii_set_player_leds(d, seat) = W!wii_set_led(e)
        BY <3>2 DEF W!uni_hid_parser_wii_set_player_leds
    <3>4. W!wii_set_led(e) = f
        BY <2>1 DEF W!wii_set_led
    <3>. QED
        BY <3>1, <3>3, <3>4
  <2>. HIDE DEF e
  <2>3. light \in WiiArgs
      BY <2>1 DEF WiiStates, WiiIns, WiiArgs, W!Leds
  <2>4. light[1] = seat
      OBVIOUS
  <2>. HIDE DEF light
  <2>5. /\ f \in WiiStates /\ f.ins = e.ins
        /\ Len(f.out) = Len(e.out) + 1 /\ Len(e.out) \in Nat
        /\ DOMAIN f.out = 1 .. Len(e.out) + 1 /\ DOMAIN e.out = 1 .. Len(e.out)
        /\ \A i \in DOMAIN e.out : f.out[i] = e.out[i]
        /\ f.out[Len(e.out) + 1] = <<"LED", light>> /\ f.out # <<>>
    <3>1. Sent(e, "LED", light, f)
        BY <1>3, <2>1, <2>3, WiiSends
    <3>. HIDE DEF f
    <3>. QED
        BY <3>1 DEF Sent
  <2>. HIDE DEF f
  <2>6. z \in WiiStates /\ z.conn = "READY" /\ z.ins = f.ins /\ z.out = f.out
      BY <2>2, <2>5 DEF WiiStates
  <2>7. Ours(z.out)
    <3>1. DOMAIN z.out \subseteq Nat
        BY <2>5, <2>6
    <3>2. m + 1 \in DOMAIN e.out /\ e.out[m + 1] = <<"DRM", mode>>
        BY <1>9, <2>1
    <3>3. m + 1 \in DOMAIN z.out /\ z.out[m + 1] = <<"DRM", mode>>
        BY <2>5, <2>6, <3>2
    <3>4. ASSUME NEW i \in DOMAIN z.out
          PROVE  \/ i \in DOMAIN w.out /\ z.out[i] = w.out[i]
                 \/ z.out[i] = <<"DRM", mode>>
                 \/ z.out[i][1] = "LED"
      <4>1. CASE i = Len(e.out) + 1
          BY <2>5, <2>6, <4>1
      <4>2. CASE i # Len(e.out) + 1
        <5>1. i \in DOMAIN e.out
            BY <2>5, <2>6, <4>2
        <5>2. z.out[i] = d.out[i] /\ i \in DOMAIN d.out
            BY <2>1, <2>5, <2>6, <5>1
        <5>. QED
            BY <1>9, <5>2
      <4>. QED
          BY <4>1, <4>2
    <3>. QED
        BY <3>1, <3>3, <3>4
  <2>8. Known(z.ins)
      BY <1>8, <2>1, <2>5, <2>6
  <2>9. WiiLedsAsked(z, pd)
    <3>1. z.ins.gamepad_seat = seat /\ seat \in Seats /\ z.ins.state = "LED_UPDATED"
        BY <1>8, <1>12, <2>1, <2>5, <2>6
    <3>2. z.out # <<>> /\ z.out[Len(z.out)] = <<"LED", light>>
        BY <2>5, <2>6
    <3>. QED
        BY <2>4, <3>1, <3>2 DEF WiiLedsAsked
  <2>. HIDE DEF Ours, Known
  <2>. QED
      BY <1>10, <2>6, <2>7, <2>8, <2>9
<1>. QED
    BY <1>11, <1>12

FsmStates == {"SETUP", "DEV_UNK", "EXT_UNK", "EXT_DID_INIT", "EXT_DID_NO_ENCRYPTION", "DEV_GUESSED",
              "BALANCE_BOARD_READ_CALIBRATION", "BALANCE_BOARD_READ_CALIBRATION2"}

(* Every step of the state machine keeps the invariant. *)
LEMMA WiiProcesses ==
    ASSUME NEW h, NEW pd, NEW n, NEW w, Prepared(w, h, pd.is, n), w.ins.state \in FsmStates,
           NEW seat \in Seats \cup {"none"},
           NEW z, z = W!wii_process_fsm(w, seat)
    PROVE  Healthy(z, h, pd, n)
<1>. DEFINE bank == w.ins.register_address
            i == w.ins
<1>1. i \in WiiIns /\ bank \in WiiArgs /\ "none" \in WiiArgs
    BY DEF Prepared, WiiStates, WiiIns, WiiArgs
<1>2. ASSUME NEW s \in WaitStates
      PROVE  LET v == [i EXCEPT !.state = s]
             IN  /\ v.state = s /\ v.register_address = bank
                 /\ v.dev_type = i.dev_type /\ v.ext_type = i.ext_type
    BY <1>1 DEF WiiIns
<1>3. n = 0 => KnownSoFar(i, pd.is)
    BY DEF Prepared
<1>4. ASSUME NEW s \in WaitStates, NEW id \in Questions \cup {"SREQ"}, NEW arg \in WiiArgs,
             id \in Questions => arg = bank,
             id = "WMEM" => s \in WriteStates,
             id = "RMEM fa" => s = "EXT_DID_READ_REGISTER",
             id \in {"RMEM 24", "RMEM 34"} => s \in BoardStates,
             KnownSoFar(i, pd.is) => KnownSoFar([i EXCEPT !.state = s], pd.is),
             z = W!send(W!enter(w, s), id, arg)
      PROVE  Healthy(z, h, pd, n)
  <2>1. id \in Questions => AskFits([i EXCEPT !.state = s], <<id, arg>>)
    <3>. DEFINE v == [i EXCEPT !.state = s]
    <3>1. v.state = s /\ v.register_address = bank
        BY <1>2
    <3>2. <<id, arg>>[1] = id /\ <<id, arg>>[2] = arg
        OBVIOUS
    <3>. DEFINE e == <<id, arg>>
    <3>. HIDE DEF v, e
    <3>3. id \in Questions => AskFits(v, e)
        BY <1>4, <3>1, <3>2 DEF AskFits, e
    <3>. QED
        BY <3>3 DEF v, e
  <2>2. n = 0 => KnownSoFar([i EXCEPT !.state = s], pd.is)
      BY <1>3, <1>4
  <2>. QED
      BY <1>4, <2>1, <2>2, WiiAsks
<1>. HIDE DEF bank
<1>5. CASE i.state = "SETUP"
  <2>. DEFINE v == [i EXCEPT !.state = "DID_REQ_STATUS"]
  <2>1. z = W!send(W!enter(w, "DID_REQ_STATUS"), "SREQ", "none")
      BY <1>5 DEF W!wii_process_fsm
  <2>2. "DID_REQ_STATUS" \in WaitStates /\ "SREQ" \notin Questions
      BY DEF WaitStates, Questions
  <2>3. v.state = "DID_REQ_STATUS" /\ v.register_address = bank /\ v.dev_type = i.dev_type
      BY <1>2, <2>2
  <2>. HIDE DEF v
  <2>4. KnownSoFar(i, pd.is) => KnownSoFar(v, pd.is)
      BY <1>5, <2>3 DEF KnownSoFar, BoardStates, bank
  <2>. QED
      BY <1>1, <1>4, <2>1, <2>2, <2>4 DEF v
<1>6. CASE i.state \in {"DEV_UNK", "EXT_UNK"}
  <2>. DEFINE v == [i EXCEPT !.state = "EXT_DID_INIT"]
  <2>1. z = W!send(W!enter(w, "EXT_DID_INIT"), "WMEM", bank)
      BY <1>6 DEF W!wii_process_fsm, bank
  <2>2. "EXT_DID_INIT" \in WaitStates /\ "EXT_DID_INIT" \in WriteStates /\ "WMEM" \in Questions
      BY DEF WaitStates, WriteStates, Questions
  <2>3. v.state = "EXT_DID_INIT" /\ v.register_address = bank /\ v.dev_type = i.dev_type /\ v.ext_type = i.ext_type
      BY <1>2, <2>2
  <2>. HIDE DEF v
  <2>4. KnownSoFar(i, pd.is) => KnownSoFar(v, pd.is)
      BY <1>6, <2>3 DEF KnownSoFar, BoardStates, bank
  <2>. QED
      BY <1>1, <1>4, <2>1, <2>2, <2>4 DEF v
<1>7. CASE i.state = "EXT_DID_INIT"
  <2>. DEFINE v == [i EXCEPT !.state = "EXT_DID_NO_ENCRYPTION"]
  <2>1. z = W!send(W!enter(w, "EXT_DID_NO_ENCRYPTION"), "WMEM", bank)
      BY <1>7 DEF W!wii_process_fsm, bank
  <2>2. /\ "EXT_DID_NO_ENCRYPTION" \in WaitStates /\ "EXT_DID_NO_ENCRYPTION" \in WriteStates
        /\ "WMEM" \in Questions
      BY DEF WaitStates, WriteStates, Questions
  <2>3. /\ v.state = "EXT_DID_NO_ENCRYPTION" /\ v.register_address = bank
        /\ v.dev_type = i.dev_type /\ v.ext_type = i.ext_type
      BY <1>2, <2>2
  <2>. HIDE DEF v
  <2>4. KnownSoFar(i, pd.is) => KnownSoFar(v, pd.is)
      BY <1>7, <2>3 DEF KnownSoFar, BoardStates, bank
  <2>. QED
      BY <1>1, <1>4, <2>1, <2>2, <2>4 DEF v
<1>8. CASE i.state = "EXT_DID_NO_ENCRYPTION"
  <2>. DEFINE v == [i EXCEPT !.state = "EXT_DID_READ_REGISTER"]
  <2>1. z = W!send(W!enter(w, "EXT_DID_READ_REGISTER"), "RMEM fa", bank)
      BY <1>8 DEF W!wii_process_fsm, bank
  <2>2. "EXT_DID_READ_REGISTER" \in WaitStates /\ "RMEM fa" \in Questions
      BY DEF WaitStates, Questions
  <2>3. /\ v.state = "EXT_DID_READ_REGISTER" /\ v.register_address = bank
        /\ v.dev_type = i.dev_type /\ v.ext_type = i.ext_type
      BY <1>2, <2>2
  <2>. HIDE DEF v
  <2>4. KnownSoFar(i, pd.is) => KnownSoFar(v, pd.is)
      BY <1>8, <2>3 DEF KnownSoFar, BoardStates, bank
  <2>. QED
      BY <1>1, <1>4, <2>1, <2>2, <2>4 DEF v
<1>9. CASE i.state = "BALANCE_BOARD_READ_CALIBRATION"
  <2>. DEFINE s == "BALANCE_BOARD_DID_READ_CALIBRATION"
              v == [i EXCEPT !.state = s]
  <2>1. z = W!send(W!enter(w, s), "RMEM 24", bank)
      BY <1>9 DEF W!wii_process_fsm, bank
  <2>2. s \in WaitStates /\ s \in BoardStates /\ "RMEM 24" \in Questions
      BY DEF WaitStates, BoardStates, Questions
  <2>3. v.state = s /\ v.register_address = bank /\ v.dev_type = i.dev_type /\ v.ext_type = i.ext_type
      BY <1>2, <2>2
  <2>. HIDE DEF v
  <2>4. KnownSoFar(i, pd.is) => KnownSoFar(v, pd.is)
      BY <1>9, <2>3 DEF KnownSoFar, BoardStates, bank
  <2>. QED
      BY <1>1, <1>4, <2>1, <2>2, <2>4 DEF v
<1>10. CASE i.state = "BALANCE_BOARD_READ_CALIBRATION2"
  <2>. DEFINE s == "BALANCE_BOARD_DID_READ_CALIBRATION2"
              v == [i EXCEPT !.state = s]
  <2>1. z = W!send(W!enter(w, s), "RMEM 34", bank)
      BY <1>10 DEF W!wii_process_fsm, bank
  <2>2. s \in WaitStates /\ s \in BoardStates /\ "RMEM 34" \in Questions
      BY DEF WaitStates, BoardStates, Questions
  <2>3. v.state = s /\ v.register_address = bank /\ v.dev_type = i.dev_type /\ v.ext_type = i.ext_type
      BY <1>2, <2>2
  <2>. HIDE DEF v
  <2>4. KnownSoFar(i, pd.is) => KnownSoFar(v, pd.is)
      BY <1>10, <2>3 DEF KnownSoFar, BoardStates, bank
  <2>. QED
      BY <1>1, <1>4, <2>1, <2>2, <2>4 DEF v
<1>11. CASE i.state = "DEV_GUESSED"
  <2>1. z = W!wii_fsm_assign_device(w, seat)
      BY <1>11 DEF W!wii_process_fsm
  <2>. QED
      BY <1>11, <2>1, WiiGetsReady
<1>. QED
    BY <1>5, <1>6, <1>7, <1>8, <1>9, <1>10, <1>11 DEF FsmStates

Taking(w, h, pd, n) ==
    /\ Healthy(w, h, pd, n) /\ w.conn # "gone"
    /\ h \in Seq(WiiReport) /\ h # <<>>
    /\ n = 0 => StatusTrue(h, pd.is)
    /\ pd \in WiiPads

(* Taking the first report leaves the others, and no question if it was an *)
(* answer.                                                                 *)
LEMMA WiiTakes ==
    ASSUME NEW w, NEW h, NEW pd, NEW n, Taking(w, h, pd, n)
    PROVE  /\ Healthy(w, Tail(h), pd, n)
           /\ Head(h) \in WiiReport /\ Head(h) = h[1] /\ 1 \in DOMAIN h
           /\ Head(h)[1] \in Replies => NothingAsked(w.out, Tail(h))
<1>. DEFINE t == Tail(h)
<1>1. /\ h \in Seq(WiiReport) /\ h # <<>> /\ Converses(w, h, pd.is, n)
    BY DEF Taking, Healthy
<1>2. /\ Head(h) \in WiiReport /\ Head(h) = h[1] /\ 1 \in DOMAIN h
      /\ DOMAIN t \subseteq Nat /\ DOMAIN h \subseteq Nat
      /\ \A i \in DOMAIN t : i + 1 \in DOMAIN h /\ t[i] = h[i + 1] /\ i # 0
    BY <1>1
<1>. HIDE DEF t
<1>3. Converses(w, t, pd.is, n)
  <2>1. \A i \in DOMAIN t : t[i][1] \in Replies => ReplyFits(w.ins, pd.is, n, t[i])
      BY <1>1, <1>2 DEF Converses
  <2>2. \A i, j \in DOMAIN t : t[i][1] \in Replies /\ t[j][1] \in Replies => i + 1 = j + 1
      BY <1>1, <1>2 DEF Converses
  <2>3. \A i, j \in DOMAIN t : t[i][1] \in Replies /\ t[j][1] \in Replies => i = j
      BY <1>2, <2>2
  <2>4. \A i \in DOMAIN w.out, j \in DOMAIN t : ~(w.out[i][1] \in Questions /\ t[j][1] \in Replies)
      BY <1>1, <1>2 DEF Converses
  <2>. QED
      BY <1>1, <2>1, <2>3, <2>4 DEF Converses
<1>4. ASSUME Head(h)[1] \in Replies PROVE NothingAsked(w.out, t)
  <2>1. \A i \in DOMAIN w.out : w.out[i][1] \notin Questions
      BY <1>1, <1>2, <1>4 DEF Converses
  <2>2. \A i \in DOMAIN t : t[i][1] \in Replies => i + 1 = 1
      BY <1>1, <1>2, <1>4 DEF Converses
  <2>3. \A i \in DOMAIN t : t[i][1] \notin Replies
      BY <1>2, <2>2
  <2>. QED
      BY <2>1, <2>3 DEF NothingAsked
<1>5. Healthy(w, t, pd, n)
    BY <1>3 DEF Taking, Healthy
<1>. QED
    BY <1>2, <1>4, <1>5 DEF t

(* In a state that waits for no answer, none is under way. *)
LEMMA WiiQuiet ==
    ASSUME NEW w, NEW h, NEW pd, NEW n, Healthy(w, h, pd, n), w.ins.state = "DID_REQ_STATUS"
    PROVE  NothingAsked(w.out, h)
<1>1. w.ins.state \notin WriteStates \cup BoardStates \cup {"EXT_DID_READ_REGISTER"}
    BY DEF WriteStates, BoardStates
<1>2. \A i \in DOMAIN w.out : w.out[i][1] \notin Questions
    BY <1>1 DEF Healthy, Converses, AskFits, Questions
<1>3. \A i \in DOMAIN h : h[i][1] \notin Replies
    BY <1>1 DEF Healthy, Converses, ReplyFits, Replies
<1>. QED
    BY <1>2, <1>3 DEF NothingAsked

(* What an answer that is taken finds, and what is left to show of the     *)
(* state that it leads to.                                                 *)
LEMMA WiiTaken ==
    ASSUME NEW w, NEW h, NEW pd, NEW n, Taking(w, h, pd, n), w.ins.state \in WaitStates,
           w.ins.state = "DID_REQ_STATUS" \/ Head(h)[1] \in Replies
    PROVE  /\ w \in WiiStates /\ w.conn = "PENDING_READY" /\ w.ins.register_address \in W!Banks
           /\ n = 0 => KnownSoFar(w.ins, pd.is)
           /\ \A u : /\ u \in WiiStates /\ u.conn = w.conn /\ u.out = w.out
                     /\ u.ins.register_address # "zero"
                     /\ n = 0 => KnownSoFar(u.ins, pd.is)
                     => Prepared(u, Tail(h), pd.is, n)
<1>1. /\ Healthy(w, h, pd, n) /\ Healthy(w, Tail(h), pd, n) /\ w \in WiiStates
      /\ w.ins.state # "LED_UPDATED" /\ w.ins.state # "UNINIT" /\ w.conn # "gone"
    BY WiiTakes DEF Taking, Healthy, WaitStates, WriteStates, BoardStates
<1>2. w.conn = "PENDING_READY"
    BY <1>1 DEF Healthy, WiiLedsAsked, WiiStates
<1>3. NothingAsked(w.out, Tail(h))
    BY <1>1, WiiQuiet, WiiTakes
<1>4. \A i \in DOMAIN w.out : w.out[i][1] # "DRM"
    BY <1>1 DEF Healthy, DrmAsked
<1>5. w.ins.register_address \in W!Banks
    BY <1>1 DEF Healthy, WiiWaiting, WiiStates, WiiIns
<1>6. n = 0 => KnownSoFar(w.ins, pd.is)
    BY <1>1 DEF Healthy
<1>. QED
    BY <1>1, <1>2, <1>3, <1>4, <1>5, <1>6 DEF Prepared

(* The handler of a status report keeps the invariant. *)
LEMMA WiiStatus ==
    ASSUME NEW w, NEW h, NEW n, Taking(w, h, wiiPad, n), Head(h)[1] = "STATUS",
           NEW seat \in Seats \cup {"none"},
           NEW z, z = W!process_req_status(w, Head(h), seat)
    PROVE  Healthy(z, Tail(h), wiiPad, n)
<1>. DEFINE r == Head(h)
            ext == r[2][1]
            p == wiiPad.is
            i == w.ins
            k == W!statusSeen(w.ins, ext, {r[2][2]})
            u == [w EXCEPT !.ins = k]
<1>1. Healthy(w, Tail(h), wiiPad, n) /\ r \in WiiReport /\ r = h[1] /\ 1 \in DOMAIN h /\ w \in WiiStates
    BY WiiTakes DEF Taking, Healthy
<1>2. CASE i.state # "DID_REQ_STATUS"
  <2>1. z = w
      BY <1>2 DEF W!process_req_status
  <2>. QED
      BY <1>1, <2>1
<1>3. CASE i.state = "DID_REQ_STATUS"
  <2>1. i.state \in WaitStates
      BY <1>3 DEF WaitStates
  <2>2. /\ w.conn = "PENDING_READY" /\ i.register_address \in W!Banks
        /\ n = 0 => KnownSoFar(i, p)
      BY <1>3, <2>1, WiiTaken
  <2>3. z = W!wii_process_fsm(u, seat)
      BY <1>3 DEF W!process_req_status
  <2>4. ext \in BOOLEAN /\ r[2][2] \in {"none", "ACCEL", "VERTICAL"}
    <3>. HIDE DEF r
    <3>. QED
        BY <1>1 DEF WiiReport
  <2>5. n = 0 => ext = (p.ext # "none")
      BY <1>1 DEF Taking, StatusTrue
  <2>6. p \in W!PadRecord
      BY DEF Taking, WiiPads
  <2>7. /\ k \in WiiIns /\ k.register_address = i.register_address
        /\ k.state = IF ext THEN "EXT_UNK" ELSE "DEV_GUESSED"
        /\ k.ext_type = IF ext THEN "UNK" ELSE "none"
        /\ k.dev_type = CASE p.product = "0306" -> "REMOTE"
                           [] p.product = "0330" /\ ~ext -> "REMOTE_MP"
                           [] OTHER -> i.dev_type
    <3>1. i \in WiiIns
        BY <1>1 DEF WiiStates
    <3>2. {r[2][2]} \ {"none"} \subseteq {"ACCEL", "VERTICAL"}
        BY <2>4
    <3>. DEFINE press == {r[2][2]} \ {"none"}
    <3>. DEFINE dev == CASE p.product = "0306" -> "REMOTE"
                         [] p.product = "0330" /\ ~ext -> "REMOTE_MP"
                         [] OTHER -> i.dev_type
                st == IF ext THEN "EXT_UNK" ELSE "DEV_GUESSED"
                et == IF ext THEN "UNK" ELSE "none"
    <3>3. k = [i EXCEPT !.dev_type = dev, !.state = st, !.ext_type = et, !.flags = i.flags \cup press]
        BY DEF W!statusSeen
    <3>4. st \in W!States /\ et \in (W!Extensions \ {"other"}) \cup {"UNK"}
        BY DEF W!States, W!Extensions
    <3>5. dev \in {"UNK", "PRO", "REMOTE", "REMOTE_MP"}
        BY <3>1 DEF WiiIns
    <3>. HIDE DEF i, dev, st, et, press, k
    <3>6. i.flags \cup press \in SUBSET {"ACCEL", "VERTICAL"}
        BY <3>1, <3>2 DEF WiiIns, press
    <3>7. /\ k \in WiiIns /\ k.register_address = i.register_address /\ k.state = st
          /\ k.ext_type = et /\ k.dev_type = dev
        BY <3>1, <3>3, <3>4, <3>5, <3>6 DEF WiiIns
    <3>. QED
        BY <3>7 DEF st, et, dev
  <2>. HIDE DEF k
  <2>8. u \in WiiStates /\ u.ins = k /\ u.conn = w.conn /\ u.out = w.out
      BY <1>1, <2>7 DEF WiiStates
  <2>. HIDE DEF u, ext
  <2>9. n = 0 => KnownSoFar(k, p)
    <3>. SUFFICES ASSUME n = 0 PROVE KnownSoFar(k, p)
        OBVIOUS
    <3>1. KnownSoFar(i, p) /\ ext = (p.ext # "none")
        BY <2>2, <2>5
    <3>2. p.product \in {"0306", "0330"}
        BY <2>6 DEF W!PadRecord
    <3>3. i.dev_type \in {"UNK", EarlyDevice(p)}
        BY <1>3, <3>1 DEF KnownSoFar
    <3>4. p.ext = "pro" => k.register_address # "a6" /\ p.product = "0330" /\ "a4" \in p.banks
        BY <2>7, <3>1 DEF KnownSoFar
    <3>. HIDE DEF i, p
    <3>5. CASE ext
      <4>1. k.state = "EXT_UNK" /\ k.ext_type = "UNK" /\ k.dev_type = EarlyDevice(p)
          BY <2>7, <3>2, <3>3, <3>5 DEF EarlyDevice
      <4>. QED
          BY <3>1, <3>4, <3>5, <4>1 DEF KnownSoFar, BoardStates
    <3>6. CASE ~ext
      <4>1. p.ext = "none"
          BY <3>1, <3>6
      <4>2. k.state = "DEV_GUESSED" /\ k.ext_type = "none" /\ k.dev_type = RightDevice(p)
          BY <2>7, <3>2, <3>6, <4>1 DEF RightDevice
      <4>. QED
          BY <3>4, <4>1, <4>2 DEF KnownSoFar, BoardStates, RightExtension
    <3>. QED
        BY <2>4, <3>5, <3>6
  <2>10. u.ins.register_address # "zero" /\ u.ins.state \in FsmStates
      BY <2>2, <2>7, <2>8 DEF W!Banks, FsmStates
  <2>11. Prepared(u, Tail(h), p, n)
      BY <1>3, <2>1, <2>8, <2>9, <2>10, WiiTaken
  <2>. QED
      BY <2>3, <2>10, <2>11, WiiProcesses
<1>. QED
    BY <1>2, <1>3

(* The handler of an acknowledgement keeps the invariant. *)
LEMMA WiiReturn ==
    ASSUME NEW w, NEW h, NEW n, Taking(w, h, wiiPad, n), Head(h)[1] = "RETURN",
           NEW seat \in Seats \cup {"none"},
           NEW z, z = W!process_req_return(w, Head(h), seat)
    PROVE  Healthy(z, Tail(h), wiiPad, n)
<1>. DEFINE r == Head(h)
            p == wiiPad.is
            i == w.ins
<1>1. r = h[1] /\ 1 \in DOMAIN h /\ w \in WiiStates /\ r[1] \in Replies
    BY WiiTakes DEF Taking, Healthy, Replies
<1>2. i.state \in WriteStates /\ (n = 0 => (r[2] = "ok" <=> Usable(p, i.register_address)))
    BY <1>1 DEF Taking, Healthy, Converses, ReplyFits
<1>3. i.state \in WaitStates
    BY <1>2 DEF WaitStates
<1>4. /\ w.conn = "PENDING_READY" /\ i.register_address \in W!Banks
      /\ n = 0 => KnownSoFar(i, p)
      /\ \A u : /\ u \in WiiStates /\ u.conn = w.conn /\ u.out = w.out
                /\ u.ins.register_address # "zero"
                /\ n = 0 => KnownSoFar(u.ins, p)
                => Prepared(u, Tail(h), p, n)
    BY <1>1, <1>3, WiiTaken
<1>5. i \in WiiIns
    BY <1>1 DEF WiiStates
<1>. HIDE DEF r
<1>6. ASSUME NEW u \in WiiStates, u.conn = w.conn, u.out = w.out, u.ins.register_address # "zero",
             n = 0 => KnownSoFar(u.ins, p), u.ins.state \in FsmStates,
             z = W!wii_process_fsm(u, seat)
      PROVE  Healthy(z, Tail(h), wiiPad, n)
    BY <1>4, <1>6, WiiProcesses
<1>7. CASE r[2] = "ok"
  <2>1. z = W!wii_process_fsm(w, seat)
      BY <1>7 DEF W!process_req_return, r
  <2>2. i.register_address # "zero" /\ i.state \in FsmStates
      BY <1>2, <1>4 DEF W!Banks, FsmStates, WriteStates
  <2>. QED
      BY <1>1, <1>4, <1>6, <2>1, <2>2
<1>8. CASE r[2] # "ok" /\ i.register_address = "a6"
  <2>. DEFINE u == W!enter(w, "SETUP")
  <2>1. z = W!wii_process_fsm(u, seat)
      BY <1>8 DEF W!process_req_return, r
  <2>2. Entered(w, "SETUP", u)
    <3>1. "SETUP" \in W!States
        BY DEF W!States
    <3>. QED
        BY <1>1, <3>1, WiiEnters
  <2>. HIDE DEF u
  <2>3. /\ u \in WiiStates /\ u.conn = w.conn /\ u.out = w.out /\ u.ins.register_address # "zero"
        /\ u.ins.state \in FsmStates
      BY <1>8, <2>2 DEF Entered, FsmStates
  <2>4. n = 0 => KnownSoFar(u.ins, p)
      BY <1>2, <1>4, <2>2 DEF Entered, KnownSoFar, BoardStates, WriteStates
  <2>. QED
      BY <1>6, <2>1, <2>3, <2>4
<1>9. CASE r[2] # "ok" /\ i.register_address # "a6"
  <2>. DEFINE u == [W!enter(w, "DEV_UNK") EXCEPT !.ins.register_address = "a6"]
  <2>1. z = W!wii_process_fsm(u, seat)
      BY <1>9 DEF W!process_req_return, r
  <2>2. /\ u \in WiiStates /\ u.conn = w.conn /\ u.out = w.out /\ u.ins.register_address = "a6"
        /\ u.ins.state = "DEV_UNK" /\ u.ins.dev_type = i.dev_type /\ u.ins.ext_type = i.ext_type
    <3>. DEFINE e == W!enter(w, "DEV_UNK")
    <3>1. Entered(w, "DEV_UNK", e)
      <4>1. "DEV_UNK" \in W!States
          BY DEF W!States
      <4>. QED
          BY <1>1, <4>1, WiiEnters
    <3>. HIDE DEF e
    <3>2. /\ e \in WiiStates /\ e.conn = w.conn /\ e.out = w.out /\ e.ins.state = "DEV_UNK"
          /\ e.ins.dev_type = i.dev_type /\ e.ins.ext_type = i.ext_type
        BY <3>1 DEF Entered
    <3>3. u = [e EXCEPT !.ins.register_address = "a6"]
        BY DEF e
    <3>4. "a6" \in W!Banks
        BY DEF W!Banks
    <3>. HIDE DEF u
    <3>. QED
        BY <3>2, <3>3, <3>4 DEF WiiStates, WiiIns
  <2>. HIDE DEF u
  <2>3. n = 0 => KnownSoFar(u.ins, p)
    <3>. SUFFICES ASSUME n = 0 PROVE KnownSoFar(u.ins, p)
        OBVIOUS
    <3>1. i.register_address = "a4"
        BY <1>4, <1>9 DEF W!Banks
    <3>2. KnownSoFar(i, p) /\ p.ext # "none" /\ i.ext_type = "UNK" /\ i.dev_type = EarlyDevice(p)
        BY <1>2, <1>4 DEF KnownSoFar, WriteStates
    <3>3. "a4" \notin p.banks
        BY <1>2, <1>9, <3>1, <3>2 DEF Usable
    <3>4. p.ext # "pro"
        BY <3>2, <3>3 DEF KnownSoFar
    <3>. QED
        BY <2>2, <3>2, <3>4 DEF KnownSoFar, BoardStates
  <2>4. u.ins.state \in FsmStates
      BY <2>2 DEF FsmStates
  <2>. QED
      BY <1>6, <2>1, <2>2, <2>3, <2>4
<1>. QED
    BY <1>7, <1>8, <1>9

(* The handler of what was read from memory keeps the invariant. *)
LEMMA WiiData ==
    ASSUME NEW w, NEW h, NEW n, Taking(w, h, wiiPad, n), Head(h)[1] = "DATA",
           NEW seat \in Seats \cup {"none"},
           NEW z, z = W!process_req_data(w, Head(h), seat)
    PROVE  Healthy(z, Tail(h), wiiPad, n)
<1>. DEFINE r == Head(h)
            id == r[2]
            p == wiiPad.is
            i == w.ins
            known == i.register_address
<1>1. /\ r = h[1] /\ 1 \in DOMAIN h /\ w \in WiiStates /\ r[1] \in Replies
      /\ Healthy(w, Tail(h), wiiPad, n)
    BY WiiTakes DEF Taking, Healthy, Replies
<1>2. \/ /\ i.state = "EXT_DID_READ_REGISTER" /\ id # "calibration"
         /\ n = 0 => id = "error" \/ id = p.ext \/ (id = "other" /\ known = "a6")
      \/ i.state \in BoardStates
    BY <1>1 DEF Taking, Healthy, Converses, ReplyFits
<1>3. i.state \in WaitStates
    BY <1>2 DEF WaitStates
<1>4. /\ w.conn = "PENDING_READY" /\ known \in W!Banks
      /\ n = 0 => KnownSoFar(i, p)
      /\ \A u : /\ u \in WiiStates /\ u.conn = w.conn /\ u.out = w.out
                /\ u.ins.register_address # "zero"
                /\ n = 0 => KnownSoFar(u.ins, p)
                => Prepared(u, Tail(h), p, n)
    BY <1>1, <1>3, WiiTaken
<1>5. i \in WiiIns /\ p \in W!PadRecord
    BY <1>1 DEF WiiStates, Taking, WiiPads
<1>6. id \in {"error", "calibration"} \cup W!Extensions
  <2>1. r \in WiiReport /\ r[1] = "DATA"
      BY WiiTakes
  <2>. HIDE DEF r
  <2>. QED
      BY <2>1 DEF WiiReport
<1>. HIDE DEF id
<1>7. ASSUME NEW k \in WiiIns, k.register_address = known, n = 0 => KnownSoFar(k, p), k.state \in FsmStates,
             z = w \/ z = W!wii_process_fsm([w EXCEPT !.ins = k], seat)
      PROVE  Healthy(z, Tail(h), wiiPad, n)
  <2>. DEFINE u == [w EXCEPT !.ins = k]
  <2>1. u \in WiiStates /\ u.ins = k /\ u.conn = w.conn /\ u.out = w.out
      BY <1>1, <1>7 DEF WiiStates
  <2>2. k.register_address # "zero"
      BY <1>4, <1>7 DEF W!Banks
  <2>3. z = w \/ z = W!wii_process_fsm(u, seat)
      BY <1>7
  <2>. HIDE DEF u
  <2>4. CASE z = W!wii_process_fsm(u, seat)
      BY <1>4, <1>7, <2>1, <2>2, <2>4, WiiProcesses
  <2>. QED
      BY <1>1, <2>3, <2>4
<1>8. CASE id = "error"
  <2>1. z = w
      BY <1>8 DEF W!process_req_data, id
  <2>. QED
      BY <1>1, <2>1
<1>9. CASE id # "error" /\ i.state = "BALANCE_BOARD_DID_READ_CALIBRATION"
  <2>. DEFINE k == [i EXCEPT !.state = "BALANCE_BOARD_READ_CALIBRATION2"]
  <2>1. z = w \/ z = W!wii_process_fsm([w EXCEPT !.ins = k], seat)
      BY <1>9 DEF W!process_req_data, id
  <2>2. /\ k \in WiiIns /\ k.register_address = known /\ k.state = "BALANCE_BOARD_READ_CALIBRATION2"
        /\ k.dev_type = i.dev_type /\ k.ext_type = i.ext_type
      BY <1>5 DEF WiiIns, W!States
  <2>. HIDE DEF k
  <2>3. n = 0 => KnownSoFar(k, p)
      BY <1>4, <1>9, <2>2 DEF KnownSoFar, BoardStates
  <2>4. k.state \in FsmStates
      BY <2>2 DEF FsmStates
  <2>. QED
      BY <1>7, <2>1, <2>2, <2>3, <2>4
<1>10. CASE id # "error" /\ i.state = "BALANCE_BOARD_DID_READ_CALIBRATION2"
  <2>. DEFINE k == [i EXCEPT !.state = "DEV_GUESSED"]
  <2>1. z = w \/ z = W!wii_process_fsm([w EXCEPT !.ins = k], seat)
      BY <1>10 DEF W!process_req_data, id
  <2>2. /\ k \in WiiIns /\ k.register_address = known /\ k.state = "DEV_GUESSED"
        /\ k.dev_type = i.dev_type /\ k.ext_type = i.ext_type
      BY <1>5 DEF WiiIns, W!States
  <2>. HIDE DEF k
  <2>3. n = 0 => KnownSoFar(k, p)
      BY <1>4, <1>10, <2>2 DEF KnownSoFar, BoardStates, RightExtension
  <2>4. k.state \in FsmStates
      BY <2>2 DEF FsmStates
  <2>. QED
      BY <1>7, <2>1, <2>2, <2>3, <2>4
<1>11. CASE id # "error" /\ i.state = "EXT_DID_READ_REGISTER"
  <2>. DEFINE ext == CASE id = "pro" -> "pro"
                       [] id \in {"nunchuk", "board", "classic"} /\ i.ext_type = "UNK" -> id
                       [] OTHER -> i.ext_type
              guess == IF p.product = "0330" THEN "REMOTE_MP" ELSE "REMOTE"
              dev == IF id = "pro" THEN "PRO" ELSE IF i.dev_type = "UNK" THEN guess ELSE i.dev_type
              st == IF ext = "board" THEN "BALANCE_BOARD_READ_CALIBRATION" ELSE "DEV_GUESSED"
              k == [i EXCEPT !.dev_type = dev, !.ext_type = ext, !.state = st]
  <2>1. z = w \/ z = W!wii_process_fsm([w EXCEPT !.ins = k], seat)
    <3>1. W!registerRead(w.ins, Head(h)[2]) = k
        BY DEF W!registerRead, id
    <3>. HIDE DEF k
    <3>. QED
        BY <1>11, <3>1 DEF W!process_req_data, id
  <2>2. id \in W!Extensions
      BY <1>2, <1>6, <1>11 DEF BoardStates
  <2>3. ext \in (W!Extensions \ {"other"}) \cup {"UNK"}
      BY <1>5, <2>2 DEF WiiIns, W!Extensions
  <2>4. dev \in {"UNK", "PRO", "REMOTE", "REMOTE_MP"} /\ st \in W!States /\ st \in FsmStates
      BY <1>5 DEF WiiIns, W!States, FsmStates
  <2>5. ASSUME n = 0
        PROVE  /\ dev = RightDevice(p)
               /\ ext = RightExtension(p) \/ (known = "a6" /\ ext = "UNK")
               /\ ext = "board" => p.ext = "board"
               /\ p.ext = "pro" => known # "a6" /\ p.product = "0330" /\ "a4" \in p.banks
    <3>1. /\ p.ext = "pro" => known # "a6" /\ p.product = "0330" /\ "a4" \in p.banks
          /\ p.ext # "none" /\ i.ext_type = "UNK" /\ i.dev_type = EarlyDevice(p)
        BY <1>4, <1>11, <2>5 DEF KnownSoFar
    <3>2. id = p.ext \/ (id = "other" /\ known = "a6")
        BY <1>2, <1>11, <2>5 DEF BoardStates
    <3>3. p.product \in {"0306", "0330"} /\ p.ext \in W!Extensions
        BY <1>5 DEF W!PadRecord
    <3>. HIDE DEF i, p, known
    <3>4. dev = RightDevice(p)
        BY <3>1, <3>2, <3>3 DEF RightDevice, EarlyDevice
    <3>7. /\ ext = RightExtension(p) \/ (known = "a6" /\ ext = "UNK")
          /\ ext = "board" => p.ext = "board"
        BY <3>2, <3>1, <3>3, <3>4 DEF RightExtension, W!Extensions
    <3>. QED
        BY <3>1, <3>4, <3>7
  <2>6. st = IF ext = "board" THEN "BALANCE_BOARD_READ_CALIBRATION" ELSE "DEV_GUESSED"
      OBVIOUS
  <2>. HIDE DEF dev, ext, st
  <2>7. /\ k \in WiiIns /\ k.register_address = known /\ k.state = st
        /\ k.dev_type = dev /\ k.ext_type = ext
      BY <1>5, <2>3, <2>4 DEF WiiIns
  <2>. HIDE DEF k
  <2>8. n = 0 => KnownSoFar(k, p)
    <3>1. CASE ext = "board"
        BY <2>5, <2>6, <2>7, <3>1 DEF KnownSoFar, BoardStates
    <3>2. CASE ext # "board"
        BY <2>5, <2>6, <2>7, <3>2 DEF KnownSoFar, BoardStates
    <3>. QED
        BY <3>1, <3>2
  <2>. QED
      BY <1>7, <2>1, <2>4, <2>7, <2>8
<1>. QED
    BY <1>2, <1>8, <1>9, <1>10, <1>11 DEF BoardStates

-----------------------------------------------------------------------------
(* The controller's side of it. *)

(* The parts of the state that the parser's operators work on. *)
LEMMA WiiFields == W!Now.ins = wiiIns /\ W!Now.conn = wiiConn /\ W!Now.out = toPad
    BY DEF W!Now

WiiInv ==
    /\ Healthy(W!Now, toHost, wiiPad, plugs)
    /\ wiiPad \in WiiPads
    /\ toHost \in Seq(WiiReport)
    /\ plugs \in Nat
    /\ plugs = 0 => StatusTrue(toHost, wiiPad.is)

(* The invariant holds initially. *)
LEMMA WiiBegins == W!Init => WiiInv
<1>. SUFFICES ASSUME W!Init PROVE WiiInv
    OBVIOUS
<1>. DEFINE w == W!Now
            i == [state |-> "UNINIT", dev_type |-> "UNK", ext_type |-> "none", flags |-> {},
                  register_address |-> "zero", gamepad_seat |-> "none"]
<1>1. w = [ins |-> i, conn |-> "PENDING_READY", out |-> <<>>] /\ toHost = <<>> /\ plugs = 0
    BY DEF W!Init, W!Now
<1>2. i \in WiiIns
    BY DEF WiiIns, W!States, W!Extensions
<1>3. PICK p \in Pads : wiiPad = [is |-> p, mode |-> "K", leds |-> <<"none", {}>>]
    BY DEF W!Init
<1>4. p \in W!PadRecord /\ (p.ext = "pro" => p.product = "0330" /\ "a4" \in p.banks)
    BY ParserConstants DEF W!WiiConstants
<1>5. wiiPad \in WiiPads /\ wiiPad.is = p
  <2>1. "K" \in WiiArgs /\ <<"none", {}>> \in WiiArgs
      BY DEF WiiArgs, W!Modes, W!Leds
  <2>. QED
      BY <1>3, <1>4, <2>1 DEF WiiPads
<1>6. i.state = "UNINIT" /\ i.dev_type = "UNK" /\ i.register_address = "zero"
    OBVIOUS
<1>. HIDE DEF i
<1>7. w \in WiiStates /\ w.ins = i /\ w.conn = "PENDING_READY" /\ w.out = <<>>
  <2>1. <<>> \in Seq(WiiRequest)
      OBVIOUS
  <2>. HIDE DEF w
  <2>. QED
      BY <1>1, <1>2, <2>1 DEF WiiStates
<1>. HIDE DEF w
<1>8. toHost \in Seq(WiiReport) /\ StatusTrue(toHost, p)
    BY <1>1 DEF StatusTrue
<1>9. KnownSoFar(i, p)
    BY <1>4, <1>6 DEF KnownSoFar, BoardStates
<1>10. DOMAIN w.out = {} /\ DOMAIN toHost = {}
    BY <1>1, <1>7
<1>11. Converses(w, toHost, p, plugs) /\ DrmAsked(w, wiiPad) /\ WiiLedsAsked(w, wiiPad) /\ WiiWaiting(w)
    BY <1>6, <1>7, <1>10 DEF Converses, DrmAsked, WiiLedsAsked, WiiWaiting
<1>. QED
    BY <1>1, <1>5, <1>7, <1>8, <1>9, <1>11 DEF WiiInv, Healthy, w

(* Any step of the parser. *)
LEMMA WiiMovesOn ==
    ASSUME NEW z, Healthy(z, toHost', wiiPad, plugs), W!Become(z), UNCHANGED <<wiiPad, plugs>>,
           wiiPad \in WiiPads, plugs \in Nat, toHost' \in Seq(WiiReport),
           plugs = 0 => StatusTrue(toHost', wiiPad.is)
    PROVE  WiiInv'
<1>1. z \in WiiStates
    BY DEF Healthy
<1>2. W!Now' = z
    BY <1>1 DEF W!Become, W!Now, WiiStates
<1>. QED
    BY <1>2 DEF WiiInv

(* Setting up the parser keeps the invariant. *)
LEMMA WiiSetsUp == WiiInv /\ W!uni_hid_parser_wii_setup => WiiInv'
<1>. SUFFICES ASSUME WiiInv, W!uni_hid_parser_wii_setup PROVE WiiInv'
    OBVIOUS
<1>. DEFINE w == W!Now
            e == W!enter(w, "SETUP")
            u == [e EXCEPT !.ins.register_address = "a4"]
            z == W!wii_process_fsm(u, "none")
<1>1. Healthy(w, toHost, wiiPad, plugs) /\ w \in WiiStates
    BY DEF WiiInv, Healthy
<1>2. w.ins.state = "UNINIT" /\ w.conn = "PENDING_READY"
    BY DEF W!uni_hid_parser_wii_setup, W!Now
<1>. HIDE DEF w
<1>3. "SETUP" \in W!States /\ "a4" \in W!Banks
    BY DEF W!States, W!Banks
<1>4. Entered(w, "SETUP", e)
    BY <1>1, <1>3, WiiEnters
<1>. HIDE DEF e
<1>5. /\ u \in WiiStates /\ u.conn = w.conn /\ u.out = w.out /\ u.ins.state = "SETUP"
      /\ u.ins.register_address = "a4" /\ u.ins.dev_type = w.ins.dev_type
    BY <1>3, <1>4 DEF Entered, WiiStates, WiiIns
<1>6. z = W!wii_process_fsm(u, "none")
    OBVIOUS
<1>. HIDE DEF u
<1>7. Prepared(u, toHost, wiiPad.is, plugs)
  <2>1. NothingAsked(w.out, toHost)
    <3>1. w.ins.state \notin WriteStates \cup BoardStates \cup {"EXT_DID_READ_REGISTER"}
        BY <1>2 DEF WriteStates, BoardStates
    <3>2. \A i \in DOMAIN w.out : w.out[i][1] \notin Questions
        BY <1>1, <3>1 DEF Healthy, Converses, AskFits, Questions
    <3>3. \A i \in DOMAIN toHost : toHost[i][1] \notin Replies
        BY <1>1, <3>1 DEF Healthy, Converses, ReplyFits, Replies
    <3>. QED
        BY <3>2, <3>3 DEF NothingAsked
  <2>2. \A i \in DOMAIN w.out : w.out[i][1] # "DRM"
      BY <1>1, <1>2 DEF Healthy, DrmAsked
  <2>3. plugs = 0 => KnownSoFar(u.ins, wiiPad.is)
      BY <1>1, <1>2, <1>5 DEF Healthy, KnownSoFar, BoardStates
  <2>. QED
      BY <1>2, <1>5, <2>1, <2>2, <2>3 DEF Prepared
<1>8. Healthy(z, toHost, wiiPad, plugs)
  <2>1. u.ins.state \in FsmStates /\ "none" \in Seats \cup {"none"}
      BY <1>5 DEF FsmStates
  <2>. QED
      BY <1>6, <1>7, <2>1, WiiProcesses
<1>9. W!Become(z) /\ UNCHANGED <<toHost, wiiPad, plugs>>
    BY DEF W!uni_hid_parser_wii_setup, z, u, e, w
<1>. HIDE DEF z
<1>. QED
    BY <1>8, <1>9, WiiMovesOn DEF WiiInv

(* Parsing a report keeps the invariant. *)
LEMMA WiiParses ==
    ASSUME WiiInv, NEW seat \in Seats \cup {"none"}, W!uni_hid_parser_wii_parse_input_report(seat)
    PROVE  WiiInv'
<1>. DEFINE w == W!Now
            r == Head(toHost)
            t == Tail(toHost)
            z == CASE r[1] = "STATUS" -> W!process_req_status(w, r, seat)
                   [] r[1] = "RETURN" -> W!process_req_return(w, r, seat)
                   [] r[1] = "DATA" -> W!process_req_data(w, r, seat)
<1>1. /\ wiiConn # "gone" /\ toHost # <<>> /\ toHost' = t /\ W!Become(z)
      /\ UNCHANGED <<wiiPad, plugs>>
    BY DEF W!uni_hid_parser_wii_parse_input_report
<1>2. w.conn = wiiConn
    BY WiiFields
<1>3. Taking(w, toHost, wiiPad, plugs)
    BY <1>1, <1>2 DEF Taking, WiiInv
<1>. HIDE DEF w
<1>4. r \in WiiReport
    BY <1>3, WiiTakes
<1>5. Healthy(z, t, wiiPad, plugs)
  <2>1. r[1] \in {"STATUS", "RETURN", "DATA"}
    <3>. HIDE DEF r
    <3>. QED
        BY <1>4 DEF WiiReport
  <2>2. CASE r[1] = "STATUS"
    <3>1. z = W!process_req_status(w, r, seat)
        BY <2>2
    <3>. QED
        BY <1>3, <2>2, <3>1, WiiStatus
  <2>3. CASE r[1] = "RETURN"
    <3>1. z = W!process_req_return(w, r, seat)
        BY <2>3
    <3>. QED
        BY <1>3, <2>3, <3>1, WiiReturn
  <2>4. CASE r[1] = "DATA"
    <3>1. z = W!process_req_data(w, r, seat)
        BY <2>4
    <3>. QED
        BY <1>3, <2>4, <3>1, WiiData
  <2>. QED
      BY <2>1, <2>2, <2>3, <2>4
<1>6. t \in Seq(WiiReport) /\ (plugs = 0 => StatusTrue(t, wiiPad.is))
  <2>1. toHost \in Seq(WiiReport) /\ (plugs = 0 => StatusTrue(toHost, wiiPad.is))
      BY DEF WiiInv
  <2>2. t \in Seq(WiiReport) /\ \A i \in DOMAIN t : i + 1 \in DOMAIN toHost /\ t[i] = toHost[i + 1]
      BY <1>1, <2>1
  <2>. HIDE DEF t
  <2>. QED
      BY <2>1, <2>2 DEF StatusTrue
<1>. HIDE DEF z, t
<1>. QED
    BY <1>1, <1>5, <1>6, WiiMovesOn DEF WiiInv

(* What the controller answers to the request that it takes next. *)
Answered(x) ==
    /\ x \in WiiReport
    /\ x[1] \in Replies => Head(toPad)[1] \in Questions /\ ReplyFits(wiiIns, wiiPad.is, plugs, x)
    /\ x[1] = "STATUS" => x[2][1] = (wiiPad.is.ext # "none")

(* Appending a sequence of one element. *)
LEMMA ConcatOne ==
    ASSUME NEW T, NEW s \in Seq(T), NEW e \in T
    PROVE  s \o <<e>> = Append(s, e) /\ s \o <<>> = s
<1>1. <<e>> \in Seq(T) /\ <<>> \in Seq(T)
    OBVIOUS
<1>2. s \o <<e>> = Append(s, e)
  <2>1. /\ s \o <<e>> \in Seq(T) /\ Len(s \o <<e>>) = Len(s) + 1
        /\ \A i \in 1 .. Len(s) + 1 : (s \o <<e>>)[i] = IF i <= Len(s) THEN s[i] ELSE <<e>>[i - Len(s)]
      BY <1>1, ConcatProperties
  <2>2. /\ Append(s, e) \in Seq(T) /\ Len(Append(s, e)) = Len(s) + 1
        /\ \A i \in 1 .. Len(s) + 1 : Append(s, e)[i] = IF i <= Len(s) THEN s[i] ELSE e
      OBVIOUS
  <2>3. ASSUME NEW i \in 1 .. Len(s) + 1 PROVE (s \o <<e>>)[i] = Append(s, e)[i]
    <3>1. CASE i <= Len(s)
        BY <2>1, <2>2, <3>1
    <3>2. CASE ~(i <= Len(s))
      <4>1. i - Len(s) = 1
          BY <3>2
      <4>. QED
          BY <2>1, <2>2, <3>2, <4>1
    <3>. QED
        BY <3>1, <3>2
  <2>. QED
      BY <2>1, <2>2, <2>3, SeqEqual
<1>3. s \o <<>> = s
  <2>1. /\ s \o <<>> \in Seq(T) /\ Len(s \o <<>>) = Len(s)
        /\ \A i \in 1 .. Len(s) : (s \o <<>>)[i] = s[i]
      BY <1>1, ConcatProperties
  <2>. QED
      BY <2>1, SeqEqual
<1>. QED
    BY <1>2, <1>3

(* The controller answers a request with the report that it asks for, or   *)
(* with none.                                                              *)
LEMMA WiiAnswers ==
    ASSUME WiiInv, W!controller
    PROVE  toHost' = toHost \/ \E x : Answered(x) /\ toHost' = Append(toHost, x)
<1>. DEFINE w == W!Now
            q == toPad
            r == Head(toPad)
            p == wiiPad.is
            bank == r[2]
            i == wiiIns
<1>1. q # <<>> /\ (\E a \in W!answersTo(r) : toHost' = toHost \o a) /\ wiiConn # "gone"
    BY DEF W!controller
<1>2. q \in Seq(WiiRequest)
  <2>1. w \in WiiStates /\ w.out = q
      BY WiiFields DEF WiiInv, Healthy
  <2>. HIDE DEF w
  <2>. QED
      BY <2>1 DEF WiiStates
<1>3. r \in WiiRequest /\ r = q[1] /\ 1 \in DOMAIN q
    BY <1>1, <1>2
<1>4. r[1] \in WiiIds
    BY <1>3 DEF WiiRequest
<1>5. r[1] \in Questions => AskFits(i, r)
  <2>. HIDE DEF r
  <2>. QED
      BY <1>3, WiiFields DEF WiiInv, Healthy, Converses
<1>6. toHost \in Seq(WiiReport) /\ p \in W!PadRecord
    BY DEF WiiInv, WiiPads
<1>7. \A x \in WiiReport : toHost \o <<x>> = Append(toHost, x)
    BY <1>6, ConcatOne
<1>8. \A b : W!usable(b) <=> Usable(p, b)
    BY DEF W!usable, Usable
<1>9. bank = i.register_address \/ r[1] \notin Questions
    BY <1>5 DEF AskFits
<1>. HIDE DEF r, i, p
<1>10. CASE r[1] = "SREQ"
  <2>. DEFINE ext == p.ext # "none"
  <2>1. PICK pr \in {"none", "ACCEL", "VERTICAL"} : toHost' = toHost \o <<W!status(pr)>>
      BY <1>1, <1>10 DEF W!answersTo
  <2>2. W!status(pr) = <<"STATUS", <<ext, pr>>>>
      BY DEF W!status, p
  <2>. DEFINE x == <<"STATUS", <<ext, pr>>>>
  <2>3. x \in WiiReport /\ x[1] = "STATUS" /\ x[2][1] = ext
      BY DEF WiiReport
  <2>4. toHost' = Append(toHost, x)
      BY <1>7, <2>1, <2>2, <2>3
  <2>. HIDE DEF x
  <2>5. Answered(x)
      BY <2>3 DEF Answered, Replies, p
  <2>. QED
      BY <2>4, <2>5
<1>11. CASE r[1] = "WMEM"
  <2>. DEFINE ok == IF Usable(p, bank) THEN "ok" ELSE "error"
              x == <<"RETURN", ok>>
  <2>1. W!answersTo(r) = {<<x>>}
      BY <1>8, <1>11 DEF W!answersTo
  <2>2. x \in WiiReport /\ x[1] = "RETURN" /\ x[2] = ok
      BY DEF WiiReport
  <2>3. "WMEM" \in Questions
      BY DEF Questions
  <2>4. bank = i.register_address /\ i.state \in WriteStates
      BY <1>5, <1>11, <2>3 DEF AskFits
  <2>5. ok = "ok" <=> Usable(p, i.register_address)
      BY <2>4
  <2>. HIDE DEF x, ok
  <2>6. toHost' = Append(toHost, x)
      BY <1>1, <1>7, <2>1, <2>2
  <2>7. ReplyFits(i, p, plugs, x)
      BY <2>2, <2>4, <2>5 DEF ReplyFits
  <2>8. Answered(x)
      BY <1>11, <2>2, <2>3, <2>7 DEF Answered, r, i, p
  <2>. QED
      BY <2>6, <2>8
<1>12. CASE r[1] = "RMEM fa"
  <2>1. PICK id \in {p.ext} \cup (IF bank = "a6" THEN {"other"} ELSE {}) :
          toHost' = toHost \o <<<<"DATA", IF ~Usable(p, bank) THEN "error" ELSE id>>>>
      BY <1>1, <1>8, <1>12 DEF W!answersTo, p
  <2>. DEFINE d == IF ~Usable(p, bank) THEN "error" ELSE id
              x == <<"DATA", d>>
  <2>2. "RMEM fa" \in Questions
      BY DEF Questions
  <2>3. bank = i.register_address /\ i.state = "EXT_DID_READ_REGISTER"
      BY <1>5, <1>12, <2>2 DEF AskFits
  <2>4. /\ d \in {"error"} \cup W!Extensions
        /\ d = "error" \/ d = p.ext \/ (d = "other" /\ i.register_address = "a6")
      BY <1>6, <2>1, <2>3 DEF W!PadRecord, W!Extensions
  <2>5. d # "calibration"
      BY <2>4 DEF W!Extensions
  <2>6. toHost' = toHost \o <<x>>
      BY <2>1
  <2>. HIDE DEF d
  <2>7. x \in WiiReport /\ x[1] = "DATA" /\ x[2] = d
      BY <2>4 DEF WiiReport
  <2>. HIDE DEF x
  <2>8. toHost' = Append(toHost, x)
      BY <1>7, <2>6, <2>7
  <2>9. ReplyFits(i, p, plugs, x)
      BY <2>3, <2>4, <2>5, <2>7 DEF ReplyFits
  <2>10. Answered(x)
      BY <1>12, <2>2, <2>7, <2>9 DEF Answered, r, i, p
  <2>. QED
      BY <2>8, <2>10
<1>13. CASE r[1] \in {"RMEM 24", "RMEM 34"}
  <2>. DEFINE d == IF Usable(p, bank) THEN "calibration" ELSE "error"
              x == <<"DATA", d>>
  <2>1. W!answersTo(r) = {<<x>>}
      BY <1>8, <1>13 DEF W!answersTo
  <2>2. x \in WiiReport /\ x[1] = "DATA" /\ x[2] = d /\ d \in {"calibration", "error"}
      BY DEF WiiReport
  <2>3. r[1] \in Questions
      BY <1>13 DEF Questions
  <2>4. i.state \in BoardStates
      BY <1>5, <1>13, <2>3 DEF AskFits
  <2>. HIDE DEF x, d
  <2>5. toHost' = Append(toHost, x)
      BY <1>1, <1>7, <2>1, <2>2
  <2>6. ReplyFits(i, p, plugs, x)
      BY <2>2, <2>4 DEF ReplyFits
  <2>7. Answered(x)
      BY <2>2, <2>3, <2>6 DEF Answered, r, i, p
  <2>. QED
      BY <2>5, <2>7
<1>14. CASE r[1] \in {"DRM", "LED"}
  <2>1. W!answersTo(r) = {<<>>}
      BY <1>14 DEF W!answersTo
  <2>2. toHost \o <<>> = toHost
    <3>1. \A e \in WiiReport : toHost \o <<>> = toHost
        BY <1>6, ConcatOne
    <3>2. <<"RETURN", "ok">> \in WiiReport
        BY DEF WiiReport
    <3>. QED
        BY <3>1, <3>2
  <2>. QED
      BY <1>1, <2>1, <2>2
<1>. QED
    BY <1>4, <1>10, <1>11, <1>12, <1>13, <1>14 DEF WiiIds

(* An answer of the controller keeps the invariant. *)
LEMMA WiiListens == WiiInv /\ W!controller => WiiInv'
<1>. SUFFICES ASSUME WiiInv, W!controller PROVE WiiInv'
    OBVIOUS
<1>. DEFINE w == W!Now
            v == W!Now'
            q == toPad
            r == Head(q)
            t == Tail(q)
            h == toHost
            p == wiiPad.is
<1>1. /\ q # <<>> /\ toPad' = t /\ UNCHANGED <<wiiIns, wiiConn, plugs>>
      /\ wiiPad' = CASE r[1] = "DRM" -> [wiiPad EXCEPT !.mode = r[2]]
                     [] r[1] = "LED" -> [wiiPad EXCEPT !.leds = r[2]]
                     [] OTHER -> wiiPad
    BY DEF W!controller
<1>2. /\ w.ins = wiiIns /\ w.conn = wiiConn /\ w.out = q
      /\ v.ins = wiiIns /\ v.conn = wiiConn /\ v.out = t
    BY <1>1 DEF W!Now
<1>3. /\ Healthy(w, h, wiiPad, plugs) /\ wiiPad \in WiiPads /\ h \in Seq(WiiReport) /\ plugs \in Nat
      /\ plugs = 0 => StatusTrue(h, p)
    BY DEF WiiInv
<1>4. v = [ins |-> w.ins, conn |-> w.conn, out |-> t]
    BY <1>1 DEF W!Now
<1>. HIDE DEF w, v
<1>5. /\ w \in WiiStates /\ Converses(w, h, p, plugs) /\ DrmAsked(w, wiiPad) /\ WiiLedsAsked(w, wiiPad)
      /\ WiiWaiting(w) /\ (plugs = 0 => KnownSoFar(w.ins, p))
    BY <1>3 DEF Healthy
<1>6. q \in Seq(WiiRequest)
    BY <1>2, <1>5 DEF WiiStates
<1>7. /\ t \in Seq(WiiRequest) /\ r \in WiiRequest /\ r = q[1] /\ 1 \in DOMAIN q
      /\ Len(q) \in Nat /\ Len(q) # 0 /\ Len(t) = Len(q) - 1 /\ DOMAIN q = 1 .. Len(q) /\ DOMAIN t = 1 .. Len(q) - 1
      /\ \A j \in DOMAIN t : j + 1 \in DOMAIN q /\ t[j] = q[j + 1] /\ j # 0
    BY <1>1, <1>6
<1>8. v \in WiiStates
    BY <1>4, <1>5, <1>7 DEF WiiStates
<1>9. \/ h' = h
      \/ \E x : Answered(x) /\ h' = Append(h, x)
    BY WiiAnswers
<1>10. /\ h' \in Seq(WiiReport)
       /\ plugs = 0 => StatusTrue(h', p)
       /\ Converses(v, h', p, plugs)
  <2>1. \A a, b \in DOMAIN t : t[a][1] \in Questions /\ t[b][1] \in Questions => a = b
    <3>1. \A a, b \in DOMAIN t : t[a][1] \in Questions /\ t[b][1] \in Questions => a + 1 = b + 1
        BY <1>2, <1>5, <1>7 DEF Converses
    <3>. QED
        BY <1>7, <3>1
  <2>2. \A a \in DOMAIN t : t[a][1] \in Questions => AskFits(w.ins, t[a])
      BY <1>2, <1>5, <1>7 DEF Converses
  <2>3. CASE h' = h
    <3>1. \A a \in DOMAIN t, b \in DOMAIN h : ~(t[a][1] \in Questions /\ h[b][1] \in Replies)
        BY <1>2, <1>5, <1>7 DEF Converses
    <3>. QED
        BY <1>2, <1>3, <1>5, <2>1, <2>2, <2>3, <3>1 DEF Converses
  <2>4. ASSUME NEW x, Answered(x), h' = Append(h, x)
        PROVE  /\ h' \in Seq(WiiReport)
               /\ plugs = 0 => StatusTrue(h', p)
               /\ Converses(v, h', p, plugs)
    <3>. DEFINE g == h'
    <3>1. x \in WiiReport
        BY <2>4 DEF Answered
    <3>2. /\ g \in Seq(WiiReport) /\ Len(h) \in Nat /\ DOMAIN h = 1 .. Len(h)
          /\ DOMAIN g = 1 .. Len(h) + 1 /\ g[Len(h) + 1] = x
          /\ \A a \in DOMAIN h : g[a] = h[a]
        BY <1>3, <2>4, <3>1
    <3>3. \A a \in DOMAIN g : (a \in DOMAIN h /\ g[a] = h[a]) \/ (a = Len(h) + 1 /\ g[a] = x)
        BY <3>2
    <3>. HIDE DEF g
    <3>4. plugs = 0 => StatusTrue(g, p)
        BY <1>3, <2>4, <3>3 DEF StatusTrue, Answered
    <3>5. CASE x[1] \notin Replies
      <4>1. \A a \in DOMAIN g : g[a][1] \in Replies => a \in DOMAIN h /\ g[a] = h[a]
          BY <3>3, <3>5
      <4>2. \A a \in DOMAIN t, b \in DOMAIN g : ~(t[a][1] \in Questions /\ g[b][1] \in Replies)
          BY <1>2, <1>5, <1>7, <4>1 DEF Converses
      <4>3. Converses(v, g, p, plugs)
          BY <1>2, <1>5, <2>1, <2>2, <4>1, <4>2 DEF Converses
      <4>. QED
          BY <3>2, <3>4, <4>3 DEF g
    <3>6. CASE x[1] \in Replies
      <4>1. r[1] \in Questions /\ ReplyFits(w.ins, p, plugs, x)
          BY <1>2, <2>4, <3>6 DEF Answered
      <4>2. \A a \in DOMAIN h : h[a][1] \notin Replies
          BY <1>2, <1>5, <1>7, <4>1 DEF Converses
      <4>3. \A a \in DOMAIN t : t[a][1] \notin Questions
        <5>1. \A a \in DOMAIN t : t[a][1] \in Questions => a + 1 = 1
            BY <1>2, <1>5, <1>7, <4>1 DEF Converses
        <5>. QED
            BY <1>7, <5>1
      <4>4. \A a \in DOMAIN g : g[a][1] \in Replies => a = Len(h) + 1 /\ g[a] = x
          BY <3>3, <4>2
      <4>5. Converses(v, g, p, plugs)
          BY <1>2, <4>1, <4>3, <4>4 DEF Converses
      <4>. QED
          BY <3>2, <3>4, <4>5 DEF g
    <3>. QED
        BY <3>5, <3>6
  <2>. QED
      BY <1>9, <2>3, <2>4
<1>11. /\ wiiPad' \in WiiPads /\ wiiPad'.is = p
       /\ wiiPad'.mode = IF r[1] = "DRM" THEN r[2] ELSE wiiPad.mode
       /\ wiiPad'.leds = IF r[1] = "LED" THEN r[2] ELSE wiiPad.leds
  <2>1. r[2] \in WiiArgs
      BY <1>7 DEF WiiRequest
  <2>. HIDE DEF r
  <2>2. CASE r[1] = "DRM"
    <3>1. wiiPad' = [wiiPad EXCEPT !.mode = r[2]]
        BY <1>1, <2>2
    <3>. QED
        BY <1>3, <2>1, <2>2, <3>1 DEF WiiPads
  <2>3. CASE r[1] = "LED"
    <3>1. wiiPad' = [wiiPad EXCEPT !.leds = r[2]]
        BY <1>1, <2>3
    <3>. QED
        BY <1>3, <2>1, <2>3, <3>1 DEF WiiPads
  <2>4. CASE r[1] \notin {"DRM", "LED"}
    <3>1. wiiPad' = wiiPad
        BY <1>1, <2>4
    <3>. QED
        BY <1>3, <2>4, <3>1
  <2>. QED
      BY <2>2, <2>3, <2>4
<1>12. DrmAsked(v, wiiPad')
  <2>1. \A j \in DOMAIN t : t[j][1] = "DRM" => w.ins.state = "LED_UPDATED" /\ t[j][2] = W!reportType(w.ins)
      BY <1>2, <1>5, <1>7 DEF DrmAsked
  <2>2. ASSUME w.conn = "READY", wiiPad'.mode # W!reportType(w.ins)
        PROVE  \E j \in DOMAIN t : t[j][1] = "DRM"
    <3>1. r[1] # "DRM"
        BY <1>2, <1>5, <1>7, <1>11, <2>2 DEF DrmAsked
    <3>2. PICK j \in DOMAIN q : q[j][1] = "DRM"
        BY <1>2, <1>5, <1>11, <2>2, <3>1 DEF DrmAsked
    <3>3. j # 1
        BY <1>7, <3>1, <3>2
    <3>4. j - 1 \in DOMAIN t /\ t[j - 1] = q[j]
        BY <1>7, <3>3
    <3>. QED
        BY <3>2, <3>4
  <2>. QED
      BY <1>2, <2>1, <2>2 DEF DrmAsked
<1>13. WiiLedsAsked(v, wiiPad')
  <2>. SUFFICES ASSUME v.conn = "READY" PROVE WiiLedsAsked(v, wiiPad')
      BY DEF WiiLedsAsked
  <2>1. /\ w.ins.state = "LED_UPDATED" /\ w.ins.gamepad_seat \in Seats
        /\ q[Len(q)][1] = "LED" /\ q[Len(q)][2][1] = w.ins.gamepad_seat
      BY <1>1, <1>2, <1>5 DEF WiiLedsAsked
  <2>2. CASE Len(q) = 1
    <3>1. t = <<>>
        BY <1>7, <2>2
    <3>2. r = q[Len(q)]
        BY <1>7, <2>2
    <3>3. wiiPad'.leds[1] = w.ins.gamepad_seat
      <4>. HIDE DEF r
      <4>. QED
          BY <1>11, <2>1, <3>2
    <3>. QED
        BY <1>2, <2>1, <3>1, <3>3 DEF WiiLedsAsked
  <2>3. CASE Len(q) # 1
    <3>1. Len(q) - 1 \in DOMAIN t /\ Len(q) - 1 + 1 = Len(q)
        BY <1>7, <2>3
    <3>2. t[Len(t)] = q[Len(q)]
        BY <1>7, <3>1
    <3>3. t # <<>>
        BY <1>7, <3>1, EmptySeq
    <3>. QED
        BY <1>2, <2>1, <3>2, <3>3 DEF WiiLedsAsked
  <2>. QED
      BY <1>7, <2>2, <2>3
<1>14. WiiWaiting(v) /\ (plugs = 0 => KnownSoFar(v.ins, p))
    BY <1>2, <1>5 DEF WiiWaiting
<1>15. Healthy(v, h', wiiPad', plugs)
    BY <1>8, <1>10, <1>11, <1>12, <1>13, <1>14 DEF Healthy
<1>. QED
    BY <1>1, <1>3, <1>10, <1>11, <1>15 DEF WiiInv, v

(* Plugging an extension in or out keeps the invariant. *)
LEMMA WiiPlugs ==
    ASSUME WiiInv, NEW e \in W!Extensions \ {"pro", "board", "other"}, W!plug(e)
    PROVE  WiiInv'
<1>. DEFINE w == W!Now
            h == toHost
            ext == e # "none"
            x == <<"STATUS", <<ext, "none">>>>
            g == h'
<1>1. /\ g = Append(h, x) /\ plugs' = plugs + 1 /\ wiiPad' = [wiiPad EXCEPT !.is.ext = e]
      /\ UNCHANGED <<wiiIns, wiiConn, toPad>>
    BY DEF W!plug
<1>2. W!Now' = w
    BY <1>1 DEF W!Now
<1>3. /\ Healthy(w, h, wiiPad, plugs) /\ wiiPad \in WiiPads /\ h \in Seq(WiiReport) /\ plugs \in Nat
    BY DEF WiiInv
<1>. HIDE DEF w
<1>4. plugs' \in Nat /\ plugs' # 0
    BY <1>1, <1>3
<1>5. /\ wiiPad' \in WiiPads /\ wiiPad'.mode = wiiPad.mode /\ wiiPad'.leds = wiiPad.leds
    BY <1>1, <1>3 DEF WiiPads, W!PadRecord
<1>6. x \in WiiReport /\ x[1] = "STATUS"
    BY DEF WiiReport
<1>. HIDE DEF x
<1>7. /\ g \in Seq(WiiReport)
      /\ \A a \in DOMAIN g : (a \in DOMAIN h /\ g[a] = h[a]) \/ g[a] = x
    BY <1>1, <1>3, <1>6
<1>. HIDE DEF g
<1>8. Converses(w, g, wiiPad'.is, plugs')
  <2>1. \A a \in DOMAIN g : g[a][1] \in Replies => a \in DOMAIN h /\ g[a] = h[a]
      BY <1>6, <1>7 DEF Replies
  <2>2. Converses(w, h, wiiPad.is, plugs)
      BY <1>3 DEF Healthy
  <2>3. \A a \in DOMAIN g : g[a][1] \in Replies => ReplyFits(w.ins, wiiPad'.is, plugs', g[a])
      BY <1>4, <2>1, <2>2 DEF Converses, ReplyFits
  <2>. QED
      BY <2>1, <2>2, <2>3 DEF Converses
<1>9. DrmAsked(w, wiiPad') /\ WiiLedsAsked(w, wiiPad') /\ WiiWaiting(w) /\ w \in WiiStates
    BY <1>3, <1>5 DEF Healthy, DrmAsked, WiiLedsAsked
<1>10. Healthy(w, g, wiiPad', plugs')
    BY <1>4, <1>8, <1>9 DEF Healthy
<1>. QED
    BY <1>2, <1>4, <1>5, <1>7, <1>10 DEF WiiInv, g

(* A controller that leaves keeps the invariant. *)
LEMMA WiiLeaves == WiiInv /\ W!leave => WiiInv'
<1>. SUFFICES ASSUME WiiInv, W!leave PROVE WiiInv'
    OBVIOUS
<1>. DEFINE w == W!Now
            v == W!Now'
<1>1. v = [w EXCEPT !.conn = "gone"] /\ UNCHANGED <<toHost, wiiPad, plugs>>
    BY DEF W!leave, W!Now
<1>2. Healthy(w, toHost, wiiPad, plugs) /\ w \in WiiStates
    BY DEF WiiInv, Healthy
<1>. HIDE DEF w, v
<1>3. v \in WiiStates /\ v.ins = w.ins /\ v.out = w.out /\ v.conn = "gone"
    BY <1>1, <1>2 DEF WiiStates
<1>4. Healthy(v, toHost, wiiPad, plugs)
    BY <1>2, <1>3 DEF Healthy, Converses, DrmAsked, WiiLedsAsked, WiiWaiting
<1>. QED
    BY <1>1, <1>4 DEF WiiInv, v

(* Every step of this stage keeps the invariant. *)
LEMMA WiiSteps == WiiInv /\ W!Next => WiiInv'
    BY WiiSetsUp, WiiParses, WiiListens, WiiPlugs, WiiLeaves DEF W!Next

(* Steps of the other stages keep it. *)
LEMMA WiiStays == WiiInv /\ UNCHANGED wiiVars => WiiInv'
    BY DEF WiiInv, wiiVars, W!Now

(* The invariant of the Wii parser holds throughout. *)
LEMMA WiiInvariant == SetupSpec => []WiiInv
<1>1. SetupInit => WiiInv
    BY WiiBegins DEF SetupInit
<1>2. WiiInv /\ [SetupNext]_allVars => WiiInv'
    BY WiiSteps, WiiStays DEF SetupNext, allVars, wiiVars
<1>. QED
    BY <1>1, <1>2, PTL DEF SetupSpec

(* The invariant implies the properties of the Wii parser. *)
LEMMA WiiHolds == WiiInv => W!AnswersFit /\ W!Recognised /\ W!LedsShowSeat
<1>. SUFFICES ASSUME WiiInv PROVE W!AnswersFit /\ W!Recognised /\ W!LedsShowSeat
    OBVIOUS
<1>. DEFINE w == W!Now
            p == wiiPad.is
<1>1. w.ins = wiiIns /\ w.conn = wiiConn /\ w.out = toPad
    BY WiiFields
<1>2. /\ w \in WiiStates /\ Converses(w, toHost, p, plugs) /\ DrmAsked(w, wiiPad)
      /\ WiiLedsAsked(w, wiiPad) /\ WiiWaiting(w) /\ (plugs = 0 => KnownSoFar(w.ins, p))
    BY DEF WiiInv, Healthy
<1>. HIDE DEF w
<1>3. W!AnswersFit
  <2>. SUFFICES ASSUME NEW i \in DOMAIN toHost
                PROVE  /\ toHost[i][1] = "RETURN" => wiiIns.state \in {"EXT_DID_INIT", "EXT_DID_NO_ENCRYPTION"}
                       /\ toHost[i][1] = "DATA" =>
                            \/ wiiIns.state = "EXT_DID_READ_REGISTER" /\ toHost[i][2] # "calibration"
                            \/ /\ wiiIns.state \in {"BALANCE_BOARD_DID_READ_CALIBRATION",
                                                    "BALANCE_BOARD_DID_READ_CALIBRATION2"}
                               /\ toHost[i][2] \in {"calibration", "error"}
      BY DEF W!AnswersFit
  <2>1. toHost[i][1] \in Replies => ReplyFits(wiiIns, p, plugs, toHost[i])
      BY <1>1, <1>2 DEF Converses
  <2>. QED
      BY <2>1 DEF ReplyFits, Replies, WriteStates, BoardStates
<1>4. W!Recognised
  <2>. SUFFICES ASSUME wiiConn = "READY", plugs = 0
                PROVE  /\ wiiIns.dev_type = CASE p.ext = "pro" -> "PRO"
                                              [] p.ext # "pro" /\ p.product = "0306" -> "REMOTE"
                                              [] OTHER -> "REMOTE_MP"
                       /\ wiiIns.ext_type \in {IF p.ext = "other" THEN "UNK" ELSE p.ext}
                             \cup (IF wiiIns.register_address = "a6" THEN {"UNK"} ELSE {})
                       /\ toPad = <<>> => wiiPad.mode = W!reportType(wiiIns)
      BY DEF W!Recognised
  <2>1. wiiIns.state = "LED_UPDATED"
      BY <1>1, <1>2 DEF WiiLedsAsked
  <2>2. /\ wiiIns.dev_type = RightDevice(p)
        /\ wiiIns.ext_type = RightExtension(p) \/ (wiiIns.register_address = "a6" /\ wiiIns.ext_type = "UNK")
      BY <1>1, <1>2, <2>1 DEF KnownSoFar
  <2>3. toPad = <<>> => wiiPad.mode = W!reportType(wiiIns)
      BY <1>1, <1>2 DEF DrmAsked
  <2>. QED
      BY <2>2, <2>3 DEF RightDevice, RightExtension
<1>5. W!LedsShowSeat
    BY <1>1, <1>2 DEF W!LedsShowSeat, WiiLedsAsked
<1>. QED
    BY <1>3, <1>4, <1>5

(* What a Wii controller answers is taken for the answer that it is        *)
(* (uni_hid_parser_wii_parse_input_report dispatches on the state).        *)
THEOREM AnswersAreFit == SetupSpec => []AnswersFit
<1>1. WiiInv => AnswersFit
    BY WiiHolds DEF AnswersFit
<1>. QED
    BY <1>1, WiiInvariant, PTL

-----------------------------------------------------------------------------
(* The connection. *)

(* What the variables of the connection can hold. *)
BtRec ==
    [addr : Addresses \cup {NoAddress}, state : States, incoming : BOOLEAN,
     connected : BOOLEAN, handle : BOOLEAN, control : Cids \cup {NULL},
     interrupt : Cids \cup {NULL}, name : Names \cup {"none"},
     type : Addresses \cup {NoAddress, Android}, query : {"before", "after", "not_needed"},
     parsing : BOOLEAN, seat : {"zero", "none", "taken"}, connection_timer : BOOLEAN,
     name_timer : BOOLEAN, prompt : BOOLEAN]
BtChannel ==
    [a : Addresses \cup {NoAddress}, psm : {"none", "control", "interrupt"},
     st : {"free", "requested", "accepted", "open", "failing", "closing"}]
BtSdp ==
    [device : Slots \cup {NULL}, timer : Slots \cup {NULL},
     client : [a : Addresses \cup {NoAddress}, for : {"none", "vendor", "descriptor"}, lost : BOOLEAN]]
BtStack ==
    [link : [Addresses -> {"down", "requested", "up", "closing"}], chan : [Cids -> BtChannel],
     naming : Addresses \cup {NoAddress}]
BtStates ==
    [rec : [Slots -> BtRec], sdp : BtSdp, stack : BtStack, seats : Int,
     damaged : {"no", "cleared", "twice"}]

(* The two channels of a controller; a channel that the stack counts as    *)
(* taken.                                                                  *)
Fields == {"control", "interrupt"}
IsTaken(h) == h.st \in {"accepted", "open"}

(* Records have different addresses, and a channel that is in use belongs  *)
(* to a controller.                                                        *)
Addressed(w) ==
    /\ \A s, t \in Slots : w.rec[s].addr = w.rec[t].addr /\ w.rec[s].addr # NoAddress => s = t
    /\ \A c \in Cids : w.stack.chan[c] # NoChannel =>
          /\ w.stack.chan[c].a \in Addresses
          /\ w.stack.chan[c].psm \in Fields
          /\ w.stack.chan[c].st # "free"

(* A channel fails or closes with its link, is the only one of its kind to *)
(* its controller, and the interrupt channel is never open without the     *)
(* control channel.                                                        *)
Linked(w) ==
    LET chan == w.stack.chan
        link == w.stack.link
    IN  /\ \A c \in Cids : chan[c].st \in {"failing", "closing"} => link[chan[c].a] = "closing"
        /\ \A c \in Cids : IsTaken(chan[c]) => link[chan[c].a] # "closing"
        /\ \A c, d \in Cids : IsTaken(chan[c]) /\ IsTaken(chan[d]) /\ chan[c].a = chan[d].a
                                 /\ chan[c].psm = chan[d].psm => c = d
        /\ \A c \in Cids : chan[c].psm = "interrupt" /\ chan[c].st = "open" =>
              \E d \in Cids : chan[d].psm = "control" /\ chan[d].st = "open" /\ chan[d].a = chan[c].a

(* The SDP query has a timer while it has a device; the seats are counted. *)
SdpKept(w) == w.sdp.device = w.sdp.timer
Counted(w) == w.seats = Cardinality({s \in Slots : w.rec[s].seat = "taken"})

(* The channels of a record are its controller's own; an unused record has *)
(* none; seat, state and timer of a record go together.                    *)
OwnChannels(w, s) ==
    \A f \in Fields : w.rec[s][f] # NULL =>
       w.stack.chan[w.rec[s][f]].a = w.rec[s].addr /\ w.stack.chan[w.rec[s][f]].psm = f
Absent(r) ==
    r.addr = NoAddress => r.control = NULL /\ r.interrupt = NULL /\ r.query = "after"
                            /\ ~r.name_timer /\ r.seat = "zero"
Standing(r) ==
    /\ r.connected <=> r.seat # "zero"
    /\ r.seat # "zero" => r.interrupt # NULL
    /\ r.state = "READY" => r.seat = "taken"
    /\ r.state = "CONTROL_CONNECTED" => ~r.connected
    /\ r.addr # NoAddress /\ r.seat # "taken" => r.connection_timer
Kept(w, s) ==
    LET r == w.rec[s]
    IN  /\ OwnChannels(w, s) /\ Absent(r) /\ Standing(r)
        /\ r.seat # "zero" => w.stack.chan[r.interrupt].st \in {"open", "closing"}

(* The inductive invariant: records, channels, links, query and seats      *)
(* agree.                                                                  *)
Orderly(w) ==
    /\ Addressed(w) /\ Linked(w) /\ SdpKept(w) /\ Counted(w)
    /\ \A s \in Slots : Kept(w, s)
Sound(w) == w \in BtStates /\ Orderly(w)

(* z differs from w in the record of s at most; the line of a record is    *)
(* what ties it to the rest.                                               *)
Alike(w, z, s) ==
    /\ z \in BtStates /\ z.seats = w.seats
    /\ z.stack.chan = w.stack.chan /\ z.stack.link = w.stack.link
    /\ \A t \in Slots : t # s => z.rec[t] = w.rec[t]
SameLine(q, r) ==
    /\ r.addr = q.addr /\ r.control = q.control /\ r.interrupt = q.interrupt
    /\ r.seat = q.seat /\ r.connected = q.connected

(* A change to a record that leaves its line keeps the invariant. *)
LEMMA AlikeKeeps ==
    ASSUME NEW w, Orderly(w), NEW s \in Slots, NEW z, Alike(w, z, s), SameLine(w.rec[s], z.rec[s]),
           Standing(z.rec[s]), Absent(z.rec[s]), SdpKept(z)
    PROVE  Sound(z)
<1>1. Addressed(z)
    BY DEF Orderly, Addressed, Alike, SameLine
<1>2. Linked(z)
    BY DEF Orderly, Linked, Alike
<1>3. Counted(z)
  <2>1. \A t \in Slots : z.rec[t].seat = w.rec[t].seat
      BY DEF Alike, SameLine
  <2>2. {t \in Slots : z.rec[t].seat = "taken"} = {t \in Slots : w.rec[t].seat = "taken"}
      BY <2>1
  <2>. QED
      BY <2>2 DEF Orderly, Counted, Alike
<1>4. ASSUME NEW t \in Slots PROVE Kept(z, t)
  <2>1. Kept(w, t)
      BY DEF Orderly
  <2>2. CASE t # s
      BY <2>1, <2>2 DEF Alike, Kept, OwnChannels
  <2>3. CASE t = s
    <3>1. OwnChannels(z, s)
      <4>1. z.rec[s].control = w.rec[s].control /\ z.rec[s].interrupt = w.rec[s].interrupt
          BY DEF SameLine
      <4>. QED
          BY <2>1, <2>3, <4>1 DEF Alike, Kept, OwnChannels, SameLine, Fields
    <3>. QED
        BY <2>1, <2>3, <3>1 DEF Alike, Kept, SameLine
  <2>. QED
      BY <2>2, <2>3
<1>. QED
    BY <1>1, <1>2, <1>3, <1>4 DEF Orderly, Sound, Alike

(* What the invariant says of one record. *)
LEMMA RecordIsTyped ==
    ASSUME NEW w, Sound(w), NEW s \in Slots
    PROVE  w \in BtStates /\ w.rec[s] \in BtRec /\ w.sdp \in BtSdp /\ w.stack \in BtStack
           /\ w.stack.chan \in [Cids -> BtChannel] /\ Kept(w, s) /\ Standing(w.rec[s]) /\ Absent(w.rec[s])
           /\ Orderly(w) /\ SdpKept(w) /\ Addressed(w) /\ Linked(w) /\ Counted(w)
<1>1. w \in BtStates /\ Orderly(w)
    BY DEF Sound
<1>2. w.rec[s] \in BtRec /\ w.sdp \in BtSdp /\ w.stack \in BtStack
    BY <1>1 DEF BtStates
<1>3. w.stack.chan \in [Cids -> BtChannel]
    BY <1>2 DEF BtStack
<1>. QED
    BY <1>1, <1>2, <1>3 DEF Orderly, Kept

(* z is w with record s replaced by r. *)
Wrote(w, z, s, r) == z = [w EXCEPT !.rec[s] = r]

(* The parts of the state after a record is replaced. *)
LEMMA WroteFields ==
    ASSUME NEW w \in BtStates, NEW s \in Slots, NEW r \in BtRec, NEW z, Wrote(w, z, s, r)
    PROVE  z \in BtStates /\ Alike(w, z, s) /\ z.sdp = w.sdp /\ z.stack = w.stack /\ z.rec[s] = r
           /\ z.damaged = w.damaged
    BY DEF Wrote, Alike, BtStates

(* A change of one record. *)
LEMMA Rewrite ==
    ASSUME NEW w, Sound(w), NEW s \in Slots, NEW r \in BtRec, SameLine(w.rec[s], r), Standing(r), Absent(r),
           NEW z, Wrote(w, z, s, r)
    PROVE  Sound(z) /\ z.rec[s] = r /\ z.sdp = w.sdp /\ z.stack = w.stack
<1>1. w \in BtStates /\ Orderly(w) /\ SdpKept(w)
    BY DEF Sound, Orderly
<1>2. Alike(w, z, s) /\ z.sdp = w.sdp /\ z.rec[s] = r /\ z.stack = w.stack
    BY <1>1, WroteFields
<1>. QED
    BY <1>1, <1>2, AlikeKeeps DEF SdpKept

(* A change of the SDP query, the name request and the damage alone. *)
LEMMA Besides ==
    ASSUME NEW w, Sound(w), NEW z, z \in BtStates, z.rec = w.rec, z.seats = w.seats, SdpKept(z),
           z.stack.chan = w.stack.chan, z.stack.link = w.stack.link
    PROVE  Sound(z)
<1>1. Addressed(w) /\ Linked(w) /\ Counted(w) /\ \A s \in Slots : Kept(w, s)
    BY DEF Sound, Orderly
<1>2. Addressed(z)
    BY <1>1 DEF Addressed
<1>3. Linked(z)
  <2> DEFINE chan == w.stack.chan
             link == w.stack.link
  <2>1. z.stack.chan = chan /\ z.stack.link = link
      OBVIOUS
  <2>2. /\ \A c \in Cids : chan[c].st \in {"failing", "closing"} => link[chan[c].a] = "closing"
        /\ \A c \in Cids : IsTaken(chan[c]) => link[chan[c].a] # "closing"
        /\ \A c, d \in Cids : IsTaken(chan[c]) /\ IsTaken(chan[d]) /\ chan[c].a = chan[d].a
                               /\ chan[c].psm = chan[d].psm => c = d
        /\ \A c \in Cids : chan[c].psm = "interrupt" /\ chan[c].st = "open" =>
              \E d \in Cids : chan[d].psm = "control" /\ chan[d].st = "open" /\ chan[d].a = chan[c].a
      BY <1>1 DEF Linked
  <2> HIDE DEF chan, link
  <2>. QED
      BY <2>1, <2>2 DEF Linked
<1>4. Counted(z)
    BY <1>1 DEF Counted
<1>5. ASSUME NEW s \in Slots PROVE Kept(z, s)
  <2>1. Kept(w, s)
      BY <1>1
  <2>2. OwnChannels(z, s)
      BY <2>1 DEF Kept, OwnChannels
  <2>. QED
      BY <2>1, <2>2 DEF Kept
<1>. QED
    BY <1>2, <1>3, <1>4, <1>5 DEF Sound, Orderly

(* A set of numbers that is not empty contains its least element. *)
LEMMA LeastIsIn ==
    ASSUME NEW f, f \in SUBSET Nat, f # {}
    PROVE  Min(f) \in f
<1>1. PICK x \in f : \A y \in f : ~(<<y, x>> \in OpToRel(<, Nat))
    BY NatLessThanWellFounded, WFMin
<1>2. ASSUME NEW y \in f PROVE x =< y
  <2>1. x \in Nat /\ y \in Nat
      OBVIOUS
  <2>2. ~(<<y, x>> \in {p \in Nat \X Nat : p[1] < p[2]})
      BY <1>1 DEF OpToRel
  <2>3. ~(y < x)
      BY <2>1, <2>2
  <2>. QED
      BY <2>1, <2>3
<1>. QED
    BY <1>2 DEF Min

(* The record found for an address is the one with that address. *)
LEMMA DeviceFound ==
    ASSUME NEW w, NEW a
    PROVE  /\ deviceFor(w, a) = NULL => \A s \in Slots : w.rec[s].addr # a
           /\ deviceFor(w, a) # NULL => deviceFor(w, a) \in Slots /\ w.rec[deviceFor(w, a)].addr = a
<1> DEFINE f == {s \in Slots : w.rec[s].addr = a}
<1>1. f \in SUBSET Nat /\ (f # {} => Min(f) \in f)
    BY BtConstants, LeastIsIn
<1>2. f # {} => Min(f) # NULL
    BY <1>1, BtConstants DEF NULL
<1>. QED
    BY <1>1, <1>2 DEF deviceFor

(* The record found for a channel is one that holds it. *)
LEMMA DeviceOfChannel ==
    ASSUME NEW w, NEW c
    PROVE  /\ deviceForCid(w, c) = NULL => \A s \in Slots : w.rec[s].interrupt # c /\ w.rec[s].control # c
           /\ deviceForCid(w, c) # NULL =>
                 /\ deviceForCid(w, c) \in Slots
                 /\ w.rec[deviceForCid(w, c)].interrupt = c \/ w.rec[deviceForCid(w, c)].control = c
<1> DEFINE f == {s \in Slots : w.rec[s].interrupt = c \/ w.rec[s].control = c}
<1>1. f \in SUBSET Nat /\ (f # {} => Min(f) \in f)
    BY BtConstants, LeastIsIn
<1>2. f # {} => Min(f) # NULL
    BY <1>1, BtConstants DEF NULL
<1>. QED
    BY <1>1, <1>2 DEF deviceForCid

(* A fresh channel is one that no record holds. *)
LEMMA FreshCid ==
    ASSUME NEW w, freshCids(w) # {}, NEW c, c = Min(freshCids(w))
    PROVE  /\ c \in Cids /\ c # NULL /\ w.stack.chan[c] = NoChannel
           /\ \A s \in Slots : w.rec[s].interrupt # c /\ w.rec[s].control # c
<1>1. freshCids(w) \in SUBSET Nat
    BY BtConstants DEF freshCids, Cids
<1>2. c \in freshCids(w)
    BY <1>1, LeastIsIn
<1>3. c \in Cids /\ w.stack.chan[c] = NoChannel /\ deviceForCid(w, c) = NULL
    BY <1>2 DEF freshCids
<1>4. c # NULL
    BY <1>3, BtConstants DEF Cids, NULL
<1>. QED
    BY <1>3, <1>4, DeviceOfChannel

(* What must hold of a record that is dropped: its own channels may be gone *)
(* already.                                                                 *)
Droppable(v, s) ==
    LET r == v.rec[s]
        chan == v.stack.chan
    IN  /\ v \in BtStates /\ Addressed(v) /\ Linked(v) /\ SdpKept(v) /\ Counted(v)
        /\ \A t \in Slots : t # s => Kept(v, t)
        /\ r.connected <=> r.seat # "zero"
        /\ \A t \in Slots, x \in {r.control, r.interrupt} :
              t # s /\ x # NULL => v.rec[t].control # x /\ v.rec[t].interrupt # x
        /\ \A x \in Cids : x = r.control \/ x = r.interrupt => chan[x].st # "open" \/ chan[x].a = r.addr
        /\ r.connected => \A d \in Cids : chan[d].psm = "interrupt" /\ chan[d].st = "open"
                                             /\ chan[d].a = r.addr => d = r.interrupt

(* z is v with record s zeroed, its channels freed if it was connected,    *)
(* and its seat given back.                                                *)
Cleared(v, z, s) ==
    LET r == v.rec[s]
        gone == IF r.connected THEN {r.control, r.interrupt} ELSE {}
    IN  /\ z \in BtStates /\ z.sdp = v.sdp /\ z.stack.link = v.stack.link
        /\ z.rec[s] = Zeros /\ \A t \in Slots : t # s => z.rec[t] = v.rec[t]
        /\ \A c \in Cids : z.stack.chan[c] = IF c \in gone THEN NoChannel ELSE v.stack.chan[c]
        /\ z.seats = IF r.seat = "taken" THEN v.seats - 1 ELSE v.seats

(* The values that a record, a channel and the query start from. *)
LEMMA ZerosTyped == Zeros \in BtRec /\ NoChannel \in BtChannel /\ NoQuery \in [a : Addresses \cup {NoAddress}, for : {"none", "vendor", "descriptor"}, lost : BOOLEAN]
    BY DEF Zeros, NoChannel, NoQuery, BtRec, BtChannel, States, Names, NULL

(* Deleting a record that was not connected clears it. *)
LEMMA DeleteClears ==
    ASSUME NEW v \in BtStates, NEW s \in Slots, ~v.rec[s].connected, v.rec[s].seat = "zero",
           NEW z, z = uni_hid_device_delete(v, s)
    PROVE  Cleared(v, z, s)
<1>1. z.sdp = v.sdp /\ z.stack = v.stack /\ z.seats = v.seats /\ z.rec = [v.rec EXCEPT ![s] = Zeros]
    BY DEF uni_hid_device_delete, BtStates
<1>2. z \in BtStates
    BY ZerosTyped DEF uni_hid_device_delete, BtStates
<1>. QED
    BY <1>1, <1>2 DEF Cleared, BtStates

(* So does disconnecting and deleting it, connected or not. *)
LEMMA DropClears ==
    ASSUME NEW v \in BtStates, NEW s \in Slots, v.rec[s].connected <=> v.rec[s].seat # "zero",
           NEW z, z = drop(v, s)
    PROVE  Cleared(v, z, s)
<1>1. CASE ~v.rec[s].connected
    BY <1>1, DeleteClears DEF drop, uni_hid_device_disconnect
<1>2. CASE v.rec[s].connected
  <2> DEFINE r == v.rec[s]
             chan == [c \in Cids |-> IF c \in {r.control, r.interrupt} THEN NoChannel ELSE v.stack.chan[c]]
             n == IF r.seat = "none" THEN v.seats ELSE v.seats - 1
             stack1 == [v.stack EXCEPT !.chan = chan]
             y == [v EXCEPT !.rec[s] = Zeros, !.stack = stack1, !.seats = n]
  <2>2. v.stack \in BtStack /\ v.seats \in Int /\ r \in BtRec /\ v.rec \in [Slots -> BtRec]
      BY DEF BtStates
  <2>3. chan \in [Cids -> BtChannel]
      BY <2>2, ZerosTyped DEF BtStack
  <2>4. stack1 \in BtStack /\ stack1.chan = chan /\ stack1.link = v.stack.link
      <3> HIDE DEF chan
      <3>. QED  BY <2>2, <2>3 DEF BtStack
  <2>5. n \in Int /\ n = IF r.seat = "taken" THEN v.seats - 1 ELSE v.seats
      BY <2>2, <1>2 DEF BtRec
  <2>6. \A c \in Cids : chan[c] = IF c \in {r.control, r.interrupt} THEN NoChannel ELSE v.stack.chan[c]
      OBVIOUS
  <2> DEFINE r1 == [r EXCEPT !.control = NULL, !.interrupt = NULL, !.connected = FALSE]
             r2 == [r1 EXCEPT !.seat = "none", !.connection_timer = FALSE, !.name_timer = FALSE]
             u1 == [v EXCEPT !.stack = stack1, !.rec[s] = r1]
             u2 == [v EXCEPT !.stack = stack1, !.rec[s] = r2, !.seats = n]
  <2>1. z = y
    <3>0. r \in BtRec
        BY DEF BtStates
    <3>1. uni_bt_conn_disconnect(v, s) = u1
        BY DEF uni_bt_conn_disconnect, BtStates
    <3>2. u1.seats = v.seats /\ u1.rec[s] = r1
        BY DEF BtStates
    <3>3. uni_hid_device_disconnect(v, s) = [u1 EXCEPT !.seats = n, !.rec[s] = [@ EXCEPT !.seat = "none", !.connection_timer = FALSE, !.name_timer = FALSE]]
      <4>1. uni_hid_device_disconnect(v, s) = [u1 EXCEPT !.seats = n,
               !.rec[s].seat = "none", !.rec[s].connection_timer = FALSE, !.rec[s].name_timer = FALSE]
          BY <1>2, <3>1, <3>2 DEF uni_hid_device_disconnect
      <4>2. u1 \in BtStates
        <5>1. r1 \in BtRec
            BY <3>0 DEF BtRec, NULL
        <5> HIDE DEF stack1, r1
        <5>. QED
            BY <5>1, <2>4 DEF BtStates
      <4> HIDE DEF u1, n
      <4> DEFINE g == [u1 EXCEPT !.seats = n, !.rec[s].seat = "none"]
                 q == [u1.rec[s] EXCEPT !.seat = "none"]
      <4>3. uni_hid_device_disconnect(v, s) = [g EXCEPT !.rec[s].connection_timer = FALSE, !.rec[s].name_timer = FALSE]
          BY <4>1
      <4>4. u1.rec[s] \in BtRec
          BY <4>2 DEF BtStates
      <4>5. q \in BtRec
          BY <4>4 DEF BtRec
      <4>6. g = [u1 EXCEPT !.seats = n, !.rec[s] = q]
          BY <4>2 DEF BtStates
      <4> HIDE DEF q, g
      <4>7. g \in BtStates /\ g.rec[s] = q
        <5> DEFINE gg == [u1 EXCEPT !.seats = n, !.rec[s] = q]
        <5>1. gg \in BtStates /\ gg.rec[s] = q
            BY <4>2, <4>5, <2>5 DEF BtStates
        <5> HIDE DEF gg
        <5>. QED
            BY <5>1, <4>6 DEF gg
      <4>8. uni_hid_device_disconnect(v, s) = [g EXCEPT !.rec[s] = [@ EXCEPT !.connection_timer = FALSE, !.name_timer = FALSE]]
          BY <4>3, <4>7 DEF BtStates
      <4>9. [q EXCEPT !.connection_timer = FALSE, !.name_timer = FALSE]
              = [u1.rec[s] EXCEPT !.seat = "none", !.connection_timer = FALSE, !.name_timer = FALSE]
          BY DEF q
      <4>10. uni_hid_device_disconnect(v, s) = [g EXCEPT !.rec[s] = [u1.rec[s] EXCEPT !.seat = "none", !.connection_timer = FALSE, !.name_timer = FALSE]]
          BY <4>7, <4>8, <4>9 DEF BtStates
      <4> DEFINE p == [u1.rec[s] EXCEPT !.seat = "none", !.connection_timer = FALSE, !.name_timer = FALSE]
      <4> HIDE DEF p
      <4>11. [g EXCEPT !.rec[s] = p] = [u1 EXCEPT !.seats = n, !.rec[s] = p]
          BY <4>2, <4>6 DEF BtStates
      <4>. QED
          BY <4>10, <4>11 DEF p
    <3>4. u2.damaged = v.damaged /\ u2.rec[s] = r2 /\ uni_hid_device_disconnect(v, s) = u2
      <4> HIDE DEF stack1, n, r1, r2
      <4>1. u2.damaged = v.damaged /\ u2.rec[s] = r2
          BY DEF BtStates
      <4>2. [u1 EXCEPT !.seats = n, !.rec[s] = r2] = u2
          BY DEF BtStates
      <4>3. uni_hid_device_disconnect(v, s) = [u1 EXCEPT !.seats = n, !.rec[s] = r2]
          BY <3>2, <3>3 DEF r2, BtStates
      <4>. QED
          BY <4>1, <4>2, <4>3
    <3>5. ~r2.name_timer
        BY <3>0 DEF BtRec
    <3>6. [u2 EXCEPT !.rec[s] = Zeros, !.damaged = v.damaged] = y
      <4> HIDE DEF stack1, n, r1, r2
      <4>. QED
          BY DEF BtStates
    <3> HIDE DEF u2, y, r2
    <3>. QED
        BY <3>4, <3>5, <3>6 DEF drop, uni_hid_device_delete
  <2> HIDE DEF chan, n, stack1
  <2>7. y \in BtStates /\ y.sdp = v.sdp /\ y.stack = stack1 /\ y.seats = n /\ y.rec = [v.rec EXCEPT ![s] = Zeros]
      BY <2>4, <2>5, ZerosTyped DEF BtStates
  <2>8. y.rec[s] = Zeros /\ \A t \in Slots : t # s => y.rec[t] = v.rec[t]
      BY <2>7, <2>2
  <2> HIDE DEF y
  <2>. QED
      BY <2>1, <2>4, <2>5, <2>6, <2>7, <2>8, <1>2 DEF Cleared
<1>. QED
    BY <1>1, <1>2

(* A record that may be given back is given back in order. *)
LEMMA ClearedIsSound ==
    ASSUME NEW v, NEW s \in Slots, Droppable(v, s), NEW z, Cleared(v, z, s)
    PROVE  Sound(z)
<1> DEFINE r == v.rec[s]
           gone == IF r.connected THEN {r.control, r.interrupt} ELSE {}
<1>a. v \in BtStates /\ Addressed(v) /\ Linked(v) /\ SdpKept(v) /\ Counted(v)
    BY DEF Droppable
<1>b. r \in BtRec /\ v.seats \in Int
    BY <1>a DEF BtStates
<1>c. z \in BtStates /\ z.sdp = v.sdp /\ z.stack.link = v.stack.link
      /\ z.rec[s] = Zeros /\ (\A t \in Slots : t # s => z.rec[t] = v.rec[t])
      /\ z.seats = IF r.seat = "taken" THEN v.seats - 1 ELSE v.seats
    BY DEF Cleared
<1>d. \A c \in Cids : z.stack.chan[c] = IF c \in gone THEN NoChannel ELSE v.stack.chan[c]
    BY DEF Cleared
<1>e. Zeros.addr = NoAddress /\ Zeros.control = NULL /\ Zeros.interrupt = NULL /\ Zeros.seat = "zero"
      /\ Zeros.query = "after" /\ ~Zeros.name_timer /\ ~Zeros.connected /\ Zeros.state = "NONE"
    BY DEF Zeros
<1>f. NoChannel.a = NoAddress /\ NoChannel.psm = "none" /\ NoChannel.st = "free"
    BY DEF NoChannel
<1>1. Addressed(z)
  <2>1. \A p, t \in Slots : z.rec[p].addr = z.rec[t].addr /\ z.rec[p].addr # NoAddress => p = t
      BY <1>a, <1>c, <1>e DEF Addressed
  <2>. QED
      BY <1>a, <1>d, <2>1 DEF Addressed
<1>2. Linked(z)
  <2>1. \A c \in Cids : z.stack.chan[c].st # "free" => z.stack.chan[c] = v.stack.chan[c] /\ c \notin gone
      BY <1>d, <1>f
  <2>2. \A c \in Cids : z.stack.chan[c].st \in {"failing", "closing"} => z.stack.link[z.stack.chan[c].a] = "closing"
      BY <2>1, <1>a, <1>c DEF Linked
  <2>3. \A c \in Cids : IsTaken(z.stack.chan[c]) => z.stack.link[z.stack.chan[c].a] # "closing"
      BY <2>1, <1>a, <1>c DEF Linked, IsTaken
  <2>4. \A c, d \in Cids : IsTaken(z.stack.chan[c]) /\ IsTaken(z.stack.chan[d]) /\ z.stack.chan[c].a = z.stack.chan[d].a
                                 /\ z.stack.chan[c].psm = z.stack.chan[d].psm => c = d
      BY <2>1, <1>a DEF Linked, IsTaken
  <2>5. ASSUME NEW c \in Cids, z.stack.chan[c].psm = "interrupt", z.stack.chan[c].st = "open"
        PROVE  \E d \in Cids : z.stack.chan[d].psm = "control" /\ z.stack.chan[d].st = "open" /\ z.stack.chan[d].a = z.stack.chan[c].a
    <3>1. z.stack.chan[c] = v.stack.chan[c] /\ c \notin gone
        BY <2>1, <2>5
    <3>2. PICK d \in Cids : v.stack.chan[d].psm = "control" /\ v.stack.chan[d].st = "open" /\ v.stack.chan[d].a = v.stack.chan[c].a
        BY <3>1, <2>5, <1>a DEF Linked
    <3>3. d \notin gone
      <4>1. SUFFICES ASSUME d \in gone PROVE FALSE
          OBVIOUS
      <4>2. r.connected /\ (d = r.control \/ d = r.interrupt)
          BY <4>1
      <4>3. v.stack.chan[d].a = r.addr
          BY <4>2, <3>2 DEF Droppable
      <4>4. c = r.interrupt
          BY <4>2, <4>3, <3>2, <3>1, <2>5 DEF Droppable
      <4>. QED
          BY <4>2, <4>4, <3>1
    <3>. QED
        BY <3>1, <3>2, <3>3, <1>d
  <2>. QED
      BY <2>2, <2>3, <2>4, <2>5 DEF Linked
<1>3. Counted(z)
  <2> DEFINE old == {t \in Slots : v.rec[t].seat = "taken"}
             new == {t \in Slots : z.rec[t].seat = "taken"}
  <2>1. new = old \ {s}
      BY <1>c, <1>e
  <2>2. IsFiniteSet(old)
      BY BtConstants, FS_Subset
  <2>3. v.seats = Cardinality(old)
      BY <1>a DEF Counted
  <2>4. s \in old <=> r.seat = "taken"
      OBVIOUS
  <2> HIDE DEF old, new
  <2>5. CASE s \in old
    <3>1. Cardinality(old \ {s}) = Cardinality(old) - 1
        BY <2>2, <2>5, FS_RemoveElement
    <3>2. z.seats = Cardinality(new)
        BY <3>1, <2>1, <2>3, <2>4, <2>5, <1>c
    <3>. QED
        BY <3>2 DEF Counted, new
  <2>6. CASE s \notin old
    <3>1. new = old
        BY <2>1, <2>6
    <3>2. z.seats = Cardinality(new)
        BY <3>1, <2>3, <2>4, <2>6, <1>c
    <3>. QED
        BY <3>2 DEF Counted, new
  <2>. QED
      BY <2>5, <2>6
<1>4. ASSUME NEW t \in Slots PROVE Kept(z, t)
  <2>1. CASE t = s
    <3>1. OwnChannels(z, t)
        BY <2>1, <1>c, <1>e DEF OwnChannels, Fields
    <3>. QED
        BY <3>1, <2>1, <1>c, <1>e DEF Kept, Absent, Standing
  <2>2. CASE t # s
    <3>1. Kept(v, t) /\ z.rec[t] = v.rec[t] /\ v.rec[t] \in BtRec
        BY <2>2, <1>c, <1>a DEF Droppable, BtStates
    <3>2. ASSUME NEW x \in {v.rec[t].control, v.rec[t].interrupt}, x # NULL
          PROVE  x \in Cids /\ z.stack.chan[x] = v.stack.chan[x]
      <4>1. x \in Cids
          BY <3>1, <3>2 DEF BtRec
      <4>2. x \notin gone
          BY <2>2, <3>2 DEF Droppable
      <4>. QED
          BY <4>1, <4>2, <1>d
    <3>3. OwnChannels(z, t)
      <4>1. v.rec[t].control # NULL => z.stack.chan[v.rec[t].control].a = v.rec[t].addr /\ z.stack.chan[v.rec[t].control].psm = "control"
          BY <3>1, <3>2 DEF Kept, OwnChannels, Fields
      <4>2. v.rec[t].interrupt # NULL => z.stack.chan[v.rec[t].interrupt].a = v.rec[t].addr /\ z.stack.chan[v.rec[t].interrupt].psm = "interrupt"
          BY <3>1, <3>2 DEF Kept, OwnChannels, Fields
      <4>. QED
          BY <4>1, <4>2, <3>1 DEF OwnChannels, Fields
    <3>4. v.rec[t].seat # "zero" => z.stack.chan[v.rec[t].interrupt].st \in {"open", "closing"}
        BY <3>1, <3>2 DEF Kept, Standing
    <3>. QED
        BY <3>1, <3>3, <3>4 DEF Kept
  <2>. QED
      BY <2>1, <2>2
<1>5. SdpKept(z)
    BY <1>a, <1>c DEF SdpKept
<1>. QED
    BY <1>1, <1>2, <1>3, <1>4, <1>5, <1>c DEF Sound, Orderly

(* Every record may be given back when all is in order. *)
LEMMA SoundIsDroppable ==
    ASSUME NEW v, Sound(v), NEW s \in Slots
    PROVE  Droppable(v, s)
<1> DEFINE r == v.rec[s]
           chan == v.stack.chan
<1>a. v \in BtStates /\ Addressed(v) /\ Linked(v) /\ SdpKept(v) /\ Counted(v) /\ \A t \in Slots : Kept(v, t) /\ v.rec[t] \in BtRec
    BY RecordIsTyped DEF Sound, Orderly
<1>b. \A t \in Slots : /\ v.rec[t].control # NULL => chan[v.rec[t].control].a = v.rec[t].addr /\ chan[v.rec[t].control].psm = "control"
                       /\ v.rec[t].interrupt # NULL => chan[v.rec[t].interrupt].a = v.rec[t].addr /\ chan[v.rec[t].interrupt].psm = "interrupt"
    BY <1>a DEF Kept, OwnChannels, Fields
<1>c. Absent(r) /\ Standing(r)
    BY <1>a DEF Kept
<1>1. ASSUME NEW t \in Slots, NEW x \in {r.control, r.interrupt}, t # s, x # NULL
      PROVE  v.rec[t].control # x /\ v.rec[t].interrupt # x
  <2>1. chan[x].a = r.addr
      BY <1>b, <1>1
  <2>2. r.addr # NoAddress
      BY <1>c, <1>1 DEF Absent
  <2>3. v.rec[t].control = x \/ v.rec[t].interrupt = x => v.rec[t].addr = r.addr
      BY <2>1, <1>b, <1>1
  <2>. QED
      BY <2>2, <2>3, <1>a, <1>1 DEF Addressed
<1>2. \A x \in Cids : x = r.control \/ x = r.interrupt => chan[x].st # "open" \/ chan[x].a = r.addr
    BY <1>b, BtConstants DEF Cids, NULL
<1>3. ASSUME r.connected, NEW d \in Cids, chan[d].psm = "interrupt", chan[d].st = "open", chan[d].a = r.addr
      PROVE  d = r.interrupt
  <2>1. r.interrupt \in Cids /\ chan[r.interrupt].st \in {"open", "closing"} /\ chan[r.interrupt].a = r.addr /\ chan[r.interrupt].psm = "interrupt"
    <3>1. r.seat # "zero" /\ r.interrupt # NULL
        BY <1>c, <1>3 DEF Standing
    <3>2. r.interrupt \in Cids /\ Kept(v, s)
        BY <1>a, <3>1 DEF BtRec
    <3>3. chan[r.interrupt].st \in {"open", "closing"}
        BY <3>1, <3>2 DEF Kept
    <3>. QED
        BY <1>b, <3>1, <3>2, <3>3
  <2>2. chan[r.interrupt].st # "closing"
    <3>1. /\ \A c \in Cids : chan[c].st = "closing" => v.stack.link[chan[c].a] = "closing"
          /\ \A c \in Cids : chan[c].st = "open" => v.stack.link[chan[c].a] # "closing"
        BY <1>a DEF Linked, IsTaken
    <3> HIDE DEF chan, r
    <3>. QED
        BY <2>1, <1>3, <3>1
  <2>3. IsTaken(chan[r.interrupt]) /\ IsTaken(chan[d])
      BY <2>1, <2>2, <1>3 DEF IsTaken
  <2>4. \A p, q \in Cids : IsTaken(chan[p]) /\ IsTaken(chan[q]) /\ chan[p].a = chan[q].a
                             /\ chan[p].psm = chan[q].psm => p = q
      BY <1>a DEF Linked
  <2> HIDE DEF chan, r
  <2>. QED
      BY <2>1, <2>3, <2>4, <1>3
<1>. QED
    BY <1>a, <1>c, <1>1, <1>2, <1>3 DEF Droppable, Standing

(* Disconnecting and deleting a record that may be given back ends in      *)
(* order.                                                                  *)
LEMMA Drops ==
    ASSUME NEW v, NEW s \in Slots, Droppable(v, s), NEW z, z = drop(v, s)
    PROVE  Sound(z)
<1>1. v \in BtStates /\ (v.rec[s].connected <=> v.rec[s].seat # "zero")
    BY DEF Droppable
<1>. QED
    BY <1>1, DropClears, ClearedIsSound

(* Disconnecting and deleting any record keeps the invariant. *)
LEMMA SoundDrop ==
    ASSUME NEW v, Sound(v), NEW s \in Slots, NEW z, z = drop(v, s)
    PROVE  Sound(z)
    BY SoundIsDroppable, Drops

(* The state z is in order and the record s belongs to whom it did in w. *)
Steady(w, z, s) ==
    /\ Sound(z) /\ z.stack = w.stack
    /\ z.rec[s].addr = w.rec[s].addr /\ SameLine(w.rec[s], z.rec[s])

(* Assigning to a record its state (but for READY) keeps the invariant and *)
(* the line.                                                               *)
LEMMA SetState ==
    ASSUME NEW w, Sound(w), NEW s \in Slots, NEW x \in States, x # "READY",
           x = "CONTROL_CONNECTED" => ~w.rec[s].connected, NEW z, z = set(w, s, "state", x)
    PROVE  Steady(w, z, s)
<1> DEFINE q == w.rec[s]
           r == [q EXCEPT !.state = x]
<1>1. w \in BtStates /\ q \in BtRec /\ Standing(q) /\ Absent(q)
    BY RecordIsTyped
<1>2. Wrote(w, z, s, r)
    BY <1>1 DEF set, BtStates, Wrote
<1>6. x = "CONTROL_CONNECTED" => ~q.connected
    OBVIOUS
<1> HIDE DEF q
<1>3. r \in BtRec
    BY <1>1 DEF BtRec
<1>4. SameLine(q, r) /\ Standing(r) /\ Absent(r)
    BY <1>1, <1>6 DEF BtRec, SameLine, Standing, Absent
<1> HIDE DEF r
<1>5. Sound(z) /\ z.rec[s] = r /\ z.stack = w.stack
    BY <1>2, <1>3, <1>4, Rewrite DEF q
<1>. QED
    BY <1>4, <1>5 DEF Steady, SameLine, q

(* Assigning to a record the prompt keeps the invariant and the line. *)
LEMMA SetPrompt ==
    ASSUME NEW w, Sound(w), NEW s \in Slots, NEW x \in BOOLEAN, NEW z, z = set(w, s, "prompt", x)
    PROVE  Steady(w, z, s)
<1> DEFINE q == w.rec[s]
           r == [q EXCEPT !.prompt = x]
<1>1. w \in BtStates /\ q \in BtRec /\ Standing(q) /\ Absent(q)
    BY RecordIsTyped
<1>2. Wrote(w, z, s, r)
    BY <1>1 DEF set, BtStates, Wrote
<1> HIDE DEF q
<1>3. r \in BtRec
    BY <1>1 DEF BtRec
<1>4. SameLine(q, r) /\ Standing(r) /\ Absent(r)
    BY <1>1 DEF BtRec, SameLine, Standing, Absent
<1> HIDE DEF r
<1>5. Sound(z) /\ z.rec[s] = r /\ z.stack = w.stack
    BY <1>2, <1>3, <1>4, Rewrite DEF q
<1>. QED
    BY <1>4, <1>5 DEF Steady, SameLine, q

(* Assigning to a record the parser's being at work keeps the invariant    *)
(* and the line.                                                           *)
LEMMA SetParsing ==
    ASSUME NEW w, Sound(w), NEW s \in Slots, NEW x \in BOOLEAN, NEW z, z = set(w, s, "parsing", x)
    PROVE  Steady(w, z, s)
<1> DEFINE q == w.rec[s]
           r == [q EXCEPT !.parsing = x]
<1>1. w \in BtStates /\ q \in BtRec /\ Standing(q) /\ Absent(q)
    BY RecordIsTyped
<1>2. Wrote(w, z, s, r)
    BY <1>1 DEF set, BtStates, Wrote
<1> HIDE DEF q
<1>3. r \in BtRec
    BY <1>1 DEF BtRec
<1>4. SameLine(q, r) /\ Standing(r) /\ Absent(r)
    BY <1>1 DEF BtRec, SameLine, Standing, Absent
<1> HIDE DEF r
<1>5. Sound(z) /\ z.rec[s] = r /\ z.stack = w.stack
    BY <1>2, <1>3, <1>4, Rewrite DEF q
<1>. QED
    BY <1>4, <1>5 DEF Steady, SameLine, q

(* Assigning to a record who connected keeps the invariant and the line. *)
LEMMA SetIncoming ==
    ASSUME NEW w, Sound(w), NEW s \in Slots, NEW x \in BOOLEAN, NEW z, z = set(w, s, "incoming", x)
    PROVE  Steady(w, z, s)
<1> DEFINE q == w.rec[s]
           r == [q EXCEPT !.incoming = x]
<1>1. w \in BtStates /\ q \in BtRec /\ Standing(q) /\ Absent(q)
    BY RecordIsTyped
<1>2. Wrote(w, z, s, r)
    BY <1>1 DEF set, BtStates, Wrote
<1> HIDE DEF q
<1>3. r \in BtRec
    BY <1>1 DEF BtRec
<1>4. SameLine(q, r) /\ Standing(r) /\ Absent(r)
    BY <1>1 DEF BtRec, SameLine, Standing, Absent
<1> HIDE DEF r
<1>5. Sound(z) /\ z.rec[s] = r /\ z.stack = w.stack
    BY <1>2, <1>3, <1>4, Rewrite DEF q
<1>. QED
    BY <1>4, <1>5 DEF Steady, SameLine, q

(* Assigning to a record the handle of the connection keeps the invariant  *)
(* and the line.                                                           *)
LEMMA SetHandle ==
    ASSUME NEW w, Sound(w), NEW s \in Slots, NEW x \in BOOLEAN, NEW z, z = set(w, s, "handle", x)
    PROVE  Steady(w, z, s)
<1> DEFINE q == w.rec[s]
           r == [q EXCEPT !.handle = x]
<1>1. w \in BtStates /\ q \in BtRec /\ Standing(q) /\ Absent(q)
    BY RecordIsTyped
<1>2. Wrote(w, z, s, r)
    BY <1>1 DEF set, BtStates, Wrote
<1> HIDE DEF q
<1>3. r \in BtRec
    BY <1>1 DEF BtRec
<1>4. SameLine(q, r) /\ Standing(r) /\ Absent(r)
    BY <1>1 DEF BtRec, SameLine, Standing, Absent
<1> HIDE DEF r
<1>5. Sound(z) /\ z.rec[s] = r /\ z.stack = w.stack
    BY <1>2, <1>3, <1>4, Rewrite DEF q
<1>. QED
    BY <1>4, <1>5 DEF Steady, SameLine, q

(* Assigning to a record its name keeps the invariant and the line. *)
LEMMA SetName ==
    ASSUME NEW w, Sound(w), NEW s \in Slots, NEW x \in Names, NEW z, z = set(w, s, "name", x)
    PROVE  Steady(w, z, s)
<1> DEFINE q == w.rec[s]
           r == [q EXCEPT !.name = x]
<1>1. w \in BtStates /\ q \in BtRec /\ Standing(q) /\ Absent(q)
    BY RecordIsTyped
<1>2. Wrote(w, z, s, r)
    BY <1>1 DEF set, BtStates, Wrote
<1> HIDE DEF q
<1>3. r \in BtRec
    BY <1>1 DEF BtRec
<1>4. SameLine(q, r) /\ Standing(r) /\ Absent(r)
    BY <1>1 DEF BtRec, SameLine, Standing, Absent
<1> HIDE DEF r
<1>5. Sound(z) /\ z.rec[s] = r /\ z.stack = w.stack
    BY <1>2, <1>3, <1>4, Rewrite DEF q
<1>. QED
    BY <1>4, <1>5 DEF Steady, SameLine, q

(* Assigning to a record the timer for its name, which is cancelled keeps  *)
(* the invariant and the line.                                             *)
LEMMA SetNameTimer ==
    ASSUME NEW w, Sound(w), NEW s \in Slots, NEW x \in BOOLEAN, ~x, NEW z, z = set(w, s, "name_timer", x)
    PROVE  Steady(w, z, s)
<1> DEFINE q == w.rec[s]
           r == [q EXCEPT !.name_timer = x]
<1>1. w \in BtStates /\ q \in BtRec /\ Standing(q) /\ Absent(q)
    BY RecordIsTyped
<1>2. Wrote(w, z, s, r)
    BY <1>1 DEF set, BtStates, Wrote
<1> HIDE DEF q
<1>3. r \in BtRec
    BY <1>1 DEF BtRec
<1>4. SameLine(q, r) /\ Standing(r) /\ Absent(r)
    BY <1>1 DEF BtRec, SameLine, Standing, Absent
<1> HIDE DEF r
<1>5. Sound(z) /\ z.rec[s] = r /\ z.stack = w.stack
    BY <1>2, <1>3, <1>4, Rewrite DEF q
<1>. QED
    BY <1>4, <1>5 DEF Steady, SameLine, q

(* Assigning to a record whether it is queried before it connects keeps    *)
(* the invariant and the line.                                             *)
LEMMA SetQuery ==
    ASSUME NEW w, Sound(w), NEW s \in Slots, w.rec[s].addr # NoAddress, NEW z, z = set(w, s, "query", "before")
    PROVE  Steady(w, z, s)
<1> DEFINE q == w.rec[s]
           r == [q EXCEPT !.query = "before"]
<1>1. w \in BtStates /\ q \in BtRec /\ Standing(q) /\ Absent(q) /\ q.addr # NoAddress
    BY RecordIsTyped
<1>2. Wrote(w, z, s, r)
    BY <1>1 DEF set, BtStates, Wrote
<1> HIDE DEF q
<1>3. r \in BtRec
    BY <1>1 DEF BtRec
<1>4. SameLine(q, r) /\ Standing(r) /\ Absent(r)
    BY <1>1 DEF BtRec, SameLine, Standing, Absent
<1> HIDE DEF r
<1>5. Sound(z) /\ z.rec[s] = r /\ z.stack = w.stack
    BY <1>2, <1>3, <1>4, Rewrite DEF q
<1>. QED
    BY <1>4, <1>5 DEF Steady, SameLine, q

(* Assigning to a record the type of its controller keeps the invariant    *)
(* and the line.                                                           *)
LEMMA SetType ==
    ASSUME NEW w, Sound(w), NEW s \in Slots, NEW x \in Addresses \cup {NoAddress, Android}, NEW z, z = set(w, s, "type", x)
    PROVE  Steady(w, z, s)
<1> DEFINE q == w.rec[s]
           r == [q EXCEPT !.type = x]
<1>1. w \in BtStates /\ q \in BtRec /\ Standing(q) /\ Absent(q)
    BY RecordIsTyped
<1>2. Wrote(w, z, s, r)
    BY <1>1 DEF set, BtStates, Wrote
<1> HIDE DEF q
<1>3. r \in BtRec
    BY <1>1 DEF BtRec
<1>4. SameLine(q, r) /\ Standing(r) /\ Absent(r)
    BY <1>1 DEF BtRec, SameLine, Standing, Absent
<1> HIDE DEF r
<1>5. Sound(z) /\ z.rec[s] = r /\ z.stack = w.stack
    BY <1>2, <1>3, <1>4, Rewrite DEF q
<1>. QED
    BY <1>4, <1>5 DEF Steady, SameLine, q

(* Restarting the connection timer keeps the invariant. *)
LEMMA LaterSteady ==
    ASSUME NEW w, Sound(w), NEW s \in Slots, NEW z, z = later(w, s)
    PROVE  Steady(w, z, s)
<1>1. Steady(w, w, s)
    BY DEF Steady, SameLine
<1>2. Steady(w, set(w, s, "prompt", FALSE), s)
    BY SetPrompt
<1>. QED
    BY <1>1, <1>2 DEF later

(* Guessing the type of a controller keeps the invariant. *)
LEMMA GuessSteady ==
    ASSUME NEW w, Sound(w), NEW s \in Slots, NEW x \in Addresses \cup {NoAddress, Android},
           NEW z, z = guess_type(w, s, x)
    PROVE  Steady(w, z, s)
<1>1. Steady(w, w, s)
    BY DEF Steady, SameLine
<1>2. Steady(w, set(w, s, "type", x), s)
    BY SetType
<1>. QED
    BY <1>1, <1>2 DEF guess_type

(* A controller that is ready gets a seat, or is dropped when there is     *)
(* none.                                                                   *)
LEMMA ReadyCompleteSound ==
    ASSUME NEW w, Sound(w), NEW s \in Slots, NEW z, z = uni_hid_device_set_ready_complete(w, s)
    PROVE  Sound(z)
<1>a. w \in BtStates /\ w.rec[s] \in BtRec /\ Kept(w, s) /\ Standing(w.rec[s]) /\ Absent(w.rec[s])
      /\ Orderly(w) /\ SdpKept(w) /\ Addressed(w) /\ Linked(w) /\ Counted(w)
    BY RecordIsTyped
<1>1. CASE w.rec[s].state = "READY"
    BY <1>1 DEF uni_hid_device_set_ready_complete
<1>2. CASE w.rec[s].state # "READY" /\ w.rec[s].seat # "none"
  <2>1. z = drop(w, s)
      BY <1>2 DEF uni_hid_device_set_ready_complete
  <2>. QED
      BY <2>1, SoundDrop
<1>3. CASE w.rec[s].state # "READY" /\ w.rec[s].seat = "none"
  <2> DEFINE q == w.rec[s]
             r == [q EXCEPT !.seat = "taken", !.state = "READY", !.connection_timer = FALSE]
             n == w.seats + 1
  <2>1. z = [w EXCEPT !.seats = w.seats + 1, !.rec[s].seat = "taken", !.rec[s].state = "READY",
                      !.rec[s].connection_timer = FALSE]
      BY <1>3 DEF uni_hid_device_set_ready_complete
  <2>b. q \in BtRec /\ q.seat = "none" /\ Absent(q) /\ Standing(q) /\ n \in Int
      BY <1>a, <1>3 DEF BtStates
  <2>c. w \in BtStates
      BY <1>a
  <2>2. z = [w EXCEPT !.seats = n, !.rec[s] = r]
    <3> DEFINE g == [w EXCEPT !.seats = n, !.rec[s].seat = "taken"]
               p == [q EXCEPT !.seat = "taken"]
               h == [w EXCEPT !.seats = n, !.rec[s] = p]
    <3>1. z = [g EXCEPT !.rec[s].state = "READY", !.rec[s].connection_timer = FALSE]
        BY <2>1
    <3>2. g = h
        BY <2>c DEF BtStates
    <3>3. p \in BtRec
        BY <2>b DEF BtRec
    <3>4. r = [p EXCEPT !.state = "READY", !.connection_timer = FALSE]
        OBVIOUS
    <3> HIDE DEF p, n, r, g
    <3>5. h \in BtStates /\ h.rec[s] = p
        BY <2>b, <2>c, <3>3 DEF BtStates
    <3>6. [h EXCEPT !.rec[s] = r] = [w EXCEPT !.seats = n, !.rec[s] = r]
        BY <2>c DEF BtStates
    <3> HIDE DEF h
    <3>7. z = [h EXCEPT !.rec[s] = r]
        BY <3>1, <3>2, <3>4, <3>5 DEF BtStates
    <3>. QED
        BY <3>6, <3>7
  <2> HIDE DEF q
  <2>3. r \in BtRec /\ r.addr = q.addr /\ r.control = q.control /\ r.interrupt = q.interrupt /\ r.seat = "taken" /\ r.addr # NoAddress
      BY <2>b DEF BtRec, States, Absent
  <2>4. Absent(r) /\ Standing(r)
      BY <2>b, <2>3 DEF Absent, Standing, BtRec
  <2> HIDE DEF r, n
  <2>5. z \in BtStates /\ z.seats = n /\ z.stack = w.stack /\ z.sdp = w.sdp /\ z.rec[s] = r
        /\ (\A t \in Slots : t # s => z.rec[t] = w.rec[t])
    <3> DEFINE h == [w EXCEPT !.seats = n, !.rec[s] = r]
    <3>1. h \in BtStates
        BY <2>3, <2>b, <2>c DEF BtStates
    <3>2. h.seats = n /\ h.stack = w.stack /\ h.sdp = w.sdp /\ h.rec = [w.rec EXCEPT ![s] = r]
        BY <2>c DEF BtStates
    <3>3. w.rec \in [Slots -> BtRec]
        BY <2>c DEF BtStates
    <3> HIDE DEF h
    <3>4. z = h
        BY <2>2 DEF h
    <3>. QED
        BY <3>1, <3>2, <3>3, <3>4
  <2>6. Addressed(z)
      BY <2>3, <2>5, <1>a DEF Addressed, q
  <2>7. Linked(z) /\ SdpKept(z)
      BY <2>5, <1>a DEF Linked, SdpKept
  <2>8. Counted(z)
    <3> DEFINE old == {t \in Slots : w.rec[t].seat = "taken"}
               new == {t \in Slots : z.rec[t].seat = "taken"}
    <3>1. new = old \cup {s} /\ s \notin old
        BY <2>3, <2>5, <1>3
    <3>2. IsFiniteSet(old) /\ w.seats = Cardinality(old)
        BY <1>a, BtConstants, FS_Subset DEF Counted
    <3> HIDE DEF old, new
    <3>3. Cardinality(new) = Cardinality(old) + 1
        BY <3>1, <3>2, FS_AddElement
    <3>4. z.seats = Cardinality(new)
        BY <2>5, <3>2, <3>3 DEF n
    <3>. QED
        BY <3>4 DEF Counted, new
  <2>9. ASSUME NEW t \in Slots PROVE Kept(z, t)
    <3>1. Kept(w, t)
        BY <1>a DEF Orderly
    <3>2. CASE t # s
        BY <3>1, <3>2, <2>5 DEF Kept, OwnChannels
    <3>3. CASE t = s
      <4>1. OwnChannels(z, s)
          BY <3>1, <3>3, <2>3, <2>5 DEF Kept, OwnChannels, Fields, q
      <4>2. w.stack.chan[q.interrupt].st \in {"open", "closing"}
          BY <1>a, <1>3 DEF Kept, q
      <4>. QED
          BY <3>3, <4>1, <4>2, <2>3, <2>4, <2>5 DEF Kept
    <3>. QED
        BY <3>2, <3>3
  <2>. QED
      BY <2>5, <2>6, <2>7, <2>8, <2>9 DEF Sound, Orderly
<1>. QED
    BY <1>1, <1>2, <1>3

(* Setting a device ready keeps the invariant. *)
LEMMA SetReadySound ==
    ASSUME NEW w, Sound(w), NEW s \in Slots, NEW z, z = uni_hid_device_set_ready(w, s)
    PROVE  Sound(z)
<1>a. w \in BtStates /\ w.rec[s] \in BtRec /\ Standing(w.rec[s]) /\ Absent(w.rec[s])
    BY RecordIsTyped
<1>1. CASE w.rec[s].state = "PENDING_READY"
    BY <1>1 DEF uni_hid_device_set_ready
<1>2. CASE w.rec[s].state # "PENDING_READY" /\ w.rec[s].type \in Setup
  <2> DEFINE q == w.rec[s]
             r == [q EXCEPT !.state = "PENDING_READY", !.parsing = TRUE]
  <2>1. z = [w EXCEPT !.rec[s].state = "PENDING_READY", !.rec[s].parsing = TRUE]
      BY <1>2 DEF uni_hid_device_set_ready
  <2>2. Wrote(w, z, s, r)
      BY <1>a, <2>1 DEF BtStates, Wrote
  <2>3. q \in BtRec /\ Standing(q) /\ Absent(q)
      BY <1>a
  <2> HIDE DEF q
  <2>4. r \in BtRec
      BY <2>3 DEF BtRec, States
  <2>5. /\ r.state = "PENDING_READY" /\ r.addr = q.addr /\ r.control = q.control /\ r.interrupt = q.interrupt
        /\ r.seat = q.seat /\ r.connected = q.connected /\ r.query = q.query
        /\ r.name_timer = q.name_timer /\ r.connection_timer = q.connection_timer
      BY <2>3 DEF BtRec
  <2> HIDE DEF r
  <2>6. SameLine(q, r) /\ Standing(r) /\ Absent(r)
      BY <2>3, <2>5 DEF SameLine, Standing, Absent
  <2>. QED
      BY <2>2, <2>4, <2>6, Rewrite DEF q
<1>3. CASE w.rec[s].state # "PENDING_READY" /\ ~(w.rec[s].type \in Setup)
  <2>1. z = uni_hid_device_set_ready_complete(set(w, s, "state", "PENDING_READY"), s)
      BY <1>3 DEF uni_hid_device_set_ready
  <2>2. Sound(set(w, s, "state", "PENDING_READY"))
      BY SetState DEF States, Steady
  <2>. QED
      BY <2>1, <2>2, ReadyCompleteSound
<1>. QED
    BY <1>1, <1>2, <1>3

(* A new record for a controller without one keeps the invariant. *)
LEMMA CreateSound ==
    ASSUME NEW w, Sound(w), NEW a \in Addresses, deviceFor(w, a) = NULL, freeSlot(w) # NULL,
           NEW z, z = uni_hid_device_create(w, a)
    PROVE  /\ Sound(z) /\ freeSlot(w) \in Slots /\ z.rec[freeSlot(w)].addr = a /\ z.stack = w.stack
           /\ ~z.rec[freeSlot(w)].connected
           /\ \A t \in Slots : z.rec[t] = w.rec[t] \/ (z.rec[t].control = NULL /\ z.rec[t].interrupt = NULL)
<1> DEFINE f == freeSlot(w)
           r == [Zeros EXCEPT !.addr = a, !.connection_timer = TRUE, !.prompt = TRUE]
<1>1. f \in Slots /\ w.rec[f].addr = NoAddress
    BY DeviceFound DEF freeSlot
<1>a. w \in BtStates /\ w.rec[f] \in BtRec /\ Kept(w, f) /\ Absent(w.rec[f])
      /\ Orderly(w) /\ SdpKept(w) /\ Addressed(w) /\ Linked(w) /\ Counted(w)
    BY <1>1, RecordIsTyped
<1>2. \A t \in Slots : w.rec[t].addr # a
    BY DeviceFound
<1>3. a # NoAddress
    BY BtConstants
<1>4. r \in BtRec /\ r.addr = a /\ r.control = NULL /\ r.interrupt = NULL /\ r.seat = "zero" /\ ~r.connected
      /\ r.connection_timer /\ r.state = "NONE"
  <2> DEFINE e == [Zeros EXCEPT !.connection_timer = TRUE, !.prompt = TRUE]
  <2>1. Zeros.control = NULL /\ Zeros.interrupt = NULL /\ Zeros.seat = "zero" /\ ~Zeros.connected /\ Zeros.state = "NONE"
      BY DEF Zeros
  <2>2. r = [e EXCEPT !.addr = a]
      BY ZerosTyped DEF BtRec
  <2>3. e \in BtRec /\ e.control = NULL /\ e.interrupt = NULL /\ e.seat = "zero" /\ ~e.connected
        /\ e.connection_timer /\ e.state = "NONE"
      BY <2>1, ZerosTyped DEF BtRec
  <2> HIDE DEF e, r
  <2>4. r \in BtRec
      BY <2>2, <2>3 DEF BtRec
  <2>. QED
      BY <2>2, <2>3, <2>4 DEF BtRec
<1> HIDE DEF f, r
<1>5. Wrote(w, z, f, r)
    BY DEF uni_hid_device_create, Wrote, f, r
<1>6. z \in BtStates /\ Alike(w, z, f) /\ z.sdp = w.sdp /\ z.stack = w.stack /\ z.rec[f] = r
    BY <1>1, <1>4, <1>5, <1>a, WroteFields
<1>7. Addressed(z)
    BY <1>a, <1>2, <1>4, <1>6 DEF Addressed, Alike
<1>8. Linked(z) /\ SdpKept(z)
    BY <1>a, <1>6 DEF Linked, SdpKept
<1>9. Counted(z)
  <2>1. \A t \in Slots : z.rec[t].seat = "taken" <=> w.rec[t].seat = "taken"
      BY <1>1, <1>4, <1>6, <1>a DEF Alike, Absent
  <2>2. {t \in Slots : z.rec[t].seat = "taken"} = {t \in Slots : w.rec[t].seat = "taken"}
      BY <2>1
  <2>. QED
      BY <2>2, <1>a, <1>6 DEF Counted, Alike
<1>10. ASSUME NEW t \in Slots PROVE Kept(z, t)
  <2>1. CASE t # f
      BY <2>1, <1>6, <1>a DEF Orderly, Kept, OwnChannels, Alike
  <2>2. CASE t = f
    <3>1. Absent(r) /\ Standing(r)
        BY <1>3, <1>4 DEF Absent, Standing
    <3>2. OwnChannels(z, f)
        BY <1>4, <1>6 DEF OwnChannels, Fields
    <3>. QED
        BY <2>2, <3>1, <3>2, <1>4, <1>6 DEF Kept
  <2>. QED
      BY <2>1, <2>2
<1>. QED
    BY <1>1, <1>4, <1>6, <1>7, <1>8, <1>9, <1>10 DEF Sound, Orderly, Alike, f

(* A channel comes into being and the record takes note of it. *)
Made(w, z, s, r, c, h) == z = [w EXCEPT !.stack.chan[c] = h, !.rec[s] = r]

(* r is q with the channel c noted in its field. *)
Noted(q, r, c, psm) ==
    /\ r.addr = q.addr /\ r.seat = q.seat /\ r.connected = q.connected
    /\ psm = "control" => r.control = c /\ r.interrupt = q.interrupt
    /\ psm = "interrupt" => r.interrupt = c /\ r.control = q.control /\ q.seat = "zero"

(* No channel of this kind to this controller is taken. *)
NoneTaken(w, a, psm) == \A d \in Cids : w.stack.chan[d].a = a /\ w.stack.chan[d].psm = psm => ~IsTaken(w.stack.chan[d])

(* A new channel, noted in the record of its controller, keeps the         *)
(* invariant.                                                              *)
LEMMA MadeSound ==
    ASSUME NEW w, Sound(w), NEW s \in Slots, w.rec[s].addr # NoAddress, NEW c \in Cids, w.stack.chan[c] = NoChannel,
           \A t \in Slots : w.rec[t].interrupt # c /\ w.rec[t].control # c,
           NEW psm \in Fields, NEW st \in {"requested", "accepted"}, NEW h, h = [a |-> w.rec[s].addr, psm |-> psm, st |-> st],
           st = "accepted" => w.stack.link[w.rec[s].addr] # "closing" /\ NoneTaken(w, w.rec[s].addr, psm),
           NEW r \in BtRec, Noted(w.rec[s], r, c, psm), Standing(r),
           NEW z, Made(w, z, s, r, c, h)
    PROVE  Sound(z) /\ z.rec[s] = r
<1> DEFINE q == w.rec[s]
           chan == w.stack.chan
<1>a. w \in BtStates /\ q \in BtRec /\ Kept(w, s) /\ Absent(q) /\ Standing(q) /\ w.stack \in BtStack
      /\ Orderly(w) /\ SdpKept(w) /\ Addressed(w) /\ Linked(w) /\ Counted(w) /\ chan \in [Cids -> BtChannel]
    BY RecordIsTyped
<1>b. q.addr \in Addresses
    BY <1>a DEF BtRec
<1>c. h \in BtChannel /\ h.a = q.addr /\ h.psm = psm /\ h.st = st /\ h.st # "free"
    BY <1>b DEF BtChannel, Fields
<1>d. NoChannel.st = "free"
    BY DEF NoChannel
<1>2. z \in BtStates /\ z.sdp = w.sdp /\ z.seats = w.seats /\ z.rec[s] = r /\ (\A t \in Slots : t # s => z.rec[t] = w.rec[t])
      /\ z.stack.link = w.stack.link /\ z.stack.chan = [chan EXCEPT ![c] = h]
  <2> DEFINE y == [w.stack EXCEPT !.chan[c] = h]
             x == [w EXCEPT !.stack = y, !.rec[s] = r]
  <2>1. z = x
      BY <1>a DEF Made, BtStates
  <2>2. y \in BtStack /\ y.link = w.stack.link /\ y.chan = [chan EXCEPT ![c] = h]
      BY <1>a, <1>c DEF BtStack
  <2>3. w \in BtStates
      BY <1>a
  <2> HIDE DEF y
  <2>4. x \in BtStates
      BY <2>2, <2>3 DEF BtStates
  <2>5. x.sdp = w.sdp /\ x.seats = w.seats /\ x.rec = [w.rec EXCEPT ![s] = r] /\ x.stack = y
      BY <2>3 DEF BtStates
  <2>6. w.rec \in [Slots -> BtRec]
      BY <2>3 DEF BtStates
  <2> HIDE DEF x
  <2>. QED
      BY <2>1, <2>2, <2>4, <2>5, <2>6
<1>3. z.stack.chan[c] = h /\ \A d \in Cids : d # c => z.stack.chan[d] = chan[d]
    BY <1>2, <1>a
<1> HIDE DEF q
<1>4. Addressed(z)
  <2>1. \A p, t \in Slots : z.rec[p].addr = z.rec[t].addr /\ z.rec[p].addr # NoAddress => p = t
      BY <1>a, <1>2 DEF Addressed, Noted, q
  <2>. QED
      BY <2>1, <1>a, <1>b, <1>c, <1>3 DEF Addressed
<1>5. Linked(z)
  <2> HIDE DEF chan
  <2>1. \A d \in Cids : z.stack.chan[d].st \in {"failing", "closing"} => z.stack.link[z.stack.chan[d].a] = "closing"
      BY <1>a, <1>c, <1>2, <1>3 DEF Linked, chan
  <2>2. \A d \in Cids : IsTaken(z.stack.chan[d]) => z.stack.link[z.stack.chan[d].a] # "closing"
      BY <1>a, <1>c, <1>2, <1>3 DEF Linked, chan, IsTaken, q
  <2>3. ASSUME NEW d \in Cids, NEW e \in Cids, IsTaken(z.stack.chan[d]), IsTaken(z.stack.chan[e]),
               z.stack.chan[d].a = z.stack.chan[e].a, z.stack.chan[d].psm = z.stack.chan[e].psm
        PROVE  d = e
    <3>1. CASE d # c /\ e # c
        BY <3>1, <2>3, <1>3, <1>a DEF Linked, chan
    <3>2. CASE d = c /\ e # c
        BY <3>2, <2>3, <1>3, <1>c DEF NoneTaken, chan, q, IsTaken
    <3>3. CASE d # c /\ e = c
        BY <3>3, <2>3, <1>3, <1>c DEF NoneTaken, chan, q, IsTaken
    <3>. QED
        BY <3>1, <3>2, <3>3
  <2>4. ASSUME NEW d \in Cids, z.stack.chan[d].psm = "interrupt", z.stack.chan[d].st = "open"
        PROVE  \E e \in Cids : z.stack.chan[e].psm = "control" /\ z.stack.chan[e].st = "open" /\ z.stack.chan[e].a = z.stack.chan[d].a
    <3>1. d # c
        BY <2>4, <1>3, <1>c
    <3>2. PICK e \in Cids : chan[e].psm = "control" /\ chan[e].st = "open" /\ chan[e].a = chan[d].a
        BY <3>1, <2>4, <1>3, <1>a DEF Linked, chan
    <3>3. e # c
        BY <3>2, <1>d DEF chan
    <3>. QED
        BY <3>1, <3>2, <3>3, <1>3
  <2>. QED
      BY <2>1, <2>2, <2>3, <2>4 DEF Linked
<1>6. Counted(z)
  <2>1. \A t \in Slots : z.rec[t].seat = w.rec[t].seat
      BY <1>2 DEF Noted, q
  <2>2. {t \in Slots : z.rec[t].seat = "taken"} = {t \in Slots : w.rec[t].seat = "taken"}
      BY <2>1
  <2>. QED
      BY <2>2, <1>2, <1>a DEF Counted
<1>7. ASSUME NEW t \in Slots PROVE Kept(z, t)
  <2>a. Kept(w, t) /\ w.rec[t] \in BtRec
      BY <1>a DEF Orderly, BtStates
  <2>b. w.rec[t].control # c /\ w.rec[t].interrupt # c
      OBVIOUS
  <2>c. /\ w.rec[t].control # NULL => z.stack.chan[w.rec[t].control] = chan[w.rec[t].control]
        /\ w.rec[t].interrupt # NULL => z.stack.chan[w.rec[t].interrupt] = chan[w.rec[t].interrupt]
      BY <2>a, <2>b, <1>3 DEF BtRec
  <2>d. /\ w.rec[t].control # NULL => chan[w.rec[t].control].a = w.rec[t].addr /\ chan[w.rec[t].control].psm = "control"
        /\ w.rec[t].interrupt # NULL => chan[w.rec[t].interrupt].a = w.rec[t].addr /\ chan[w.rec[t].interrupt].psm = "interrupt"
      BY <2>a DEF Kept, OwnChannels, Fields
  <2>e. w.rec[t].seat # "zero" => w.rec[t].interrupt # NULL /\ chan[w.rec[t].interrupt].st \in {"open", "closing"}
      BY <2>a DEF Kept, Standing
  <2> HIDE DEF chan
  <2>1. CASE t # s
    <3>1. OwnChannels(z, t)
        BY <2>1, <2>c, <2>d, <1>2 DEF OwnChannels, Fields
    <3>. QED
        BY <2>1, <3>1, <2>a, <2>c, <2>e, <1>2 DEF Kept
  <2>2. CASE t = s
    <3>1. OwnChannels(z, s)
      <4>1. CASE psm = "control"
          BY <4>1, <2>2, <2>c, <2>d, <1>2, <1>3, <1>c DEF OwnChannels, Fields, Noted, q
      <4>2. CASE psm = "interrupt"
          BY <4>2, <2>2, <2>c, <2>d, <1>2, <1>3, <1>c DEF OwnChannels, Fields, Noted, q
      <4>. QED
          BY <4>1, <4>2 DEF Fields
    <3>2. r.seat # "zero" => z.stack.chan[r.interrupt].st \in {"open", "closing"}
      <4>1. CASE psm = "control"
          BY <4>1, <2>2, <2>c, <2>e DEF Noted, q
      <4>2. CASE psm = "interrupt"
          BY <4>2 DEF Noted, q
      <4>. QED
          BY <4>1, <4>2 DEF Fields
    <3>3. Absent(r)
        BY DEF Absent, Noted
    <3>. QED
        BY <2>2, <3>1, <3>2, <3>3, <1>2 DEF Kept
  <2>. QED
      BY <2>1, <2>2
<1>8. SdpKept(z)
    BY <1>2, <1>a DEF SdpKept
<1>. QED
    BY <1>2, <1>4, <1>5, <1>6, <1>7, <1>8 DEF Sound, Orderly

(* Opening a channel keeps the invariant. *)
LEMMA CreateChannelSound ==
    ASSUME NEW w, Sound(w), NEW s \in Slots, w.rec[s].addr # NoAddress, NEW psm \in Fields,
           psm = "interrupt" => ~w.rec[s].connected,
           NEW z, z = l2cap_create(w, s, psm)
    PROVE  Sound(z)
<1>1. CASE freshCids(w) = {}
    BY <1>1 DEF l2cap_create
<1>2. CASE freshCids(w) # {}
  <2> DEFINE c == Min(freshCids(w))
             q == w.rec[s]
             h == [a |-> q.addr, psm |-> psm, st |-> "requested"]
             x == IF psm = "control" THEN "CONTROL_REQUESTED" ELSE "INTERRUPT_REQUESTED"
             r == [q EXCEPT ![psm] = c, !.state = x]
  <2>1. c \in Cids /\ c # NULL /\ w.stack.chan[c] = NoChannel
        /\ \A t \in Slots : w.rec[t].interrupt # c /\ w.rec[t].control # c
      BY <1>2, FreshCid
  <2>2. w \in BtStates /\ q \in BtRec /\ Absent(q) /\ Standing(q)
      BY RecordIsTyped
  <2>3. z = [w EXCEPT !.stack.chan[c] = h, !.rec[s][psm] = c, !.rec[s].state = x]
      BY <1>2 DEF l2cap_create
  <2> HIDE DEF c, h, x
  <2>4. Made(w, z, s, r, c, h)
    <3> DEFINE e == [w EXCEPT !.stack.chan[c] = h]
    <3>1. e.rec = w.rec /\ DOMAIN e = DOMAIN w
        BY <2>2 DEF BtStates
    <3>2. z = [e EXCEPT !.rec[s][psm] = c, !.rec[s].state = x]
        BY <2>3
    <3>3. [e EXCEPT !.rec[s] = r] = [w EXCEPT !.stack.chan[c] = h, !.rec[s] = r]
        OBVIOUS
    <3>4. "rec" \in DOMAIN e /\ e.rec \in [Slots -> BtRec] /\ e = [k \in DOMAIN e |-> e[k]]
        BY <2>2, <3>1 DEF BtStates
    <3> HIDE DEF e
    <3>5. z = [e EXCEPT !.rec[s] = r]
        BY <3>1, <3>2, <3>4
    <3>. QED
        BY <3>3, <3>5 DEF Made
  <2>5. r \in BtRec /\ r.addr = q.addr /\ r.seat = q.seat /\ r.connected = q.connected /\ r.state = x
        /\ r.connection_timer = q.connection_timer
        /\ (psm = "control" => r.control = c /\ r.interrupt = q.interrupt)
        /\ (psm = "interrupt" => r.interrupt = c /\ r.control = q.control)
    <3> HIDE DEF q
    <3>1. x \in States /\ c \in Cids \cup {NULL}
        BY <2>1 DEF x, States
    <3>2. CASE psm = "control"
      <4> DEFINE p == [q EXCEPT !.control = c, !.state = x]
      <4>1. p \in BtRec
          BY <2>2, <3>1 DEF BtRec
      <4>2. r = p
          BY <3>2
      <4>3. p.addr = q.addr /\ p.seat = q.seat /\ p.connected = q.connected /\ p.state = x
            /\ p.connection_timer = q.connection_timer /\ p.control = c /\ p.interrupt = q.interrupt
          BY <2>2 DEF BtRec
      <4> HIDE DEF p
      <4>. QED
          BY <3>2, <4>1, <4>2, <4>3
    <3>3. CASE psm = "interrupt"
      <4> DEFINE p == [q EXCEPT !.interrupt = c, !.state = x]
      <4>1. p \in BtRec
          BY <2>2, <3>1 DEF BtRec
      <4>2. r = p
          BY <3>3
      <4>3. p.addr = q.addr /\ p.seat = q.seat /\ p.connected = q.connected /\ p.state = x
            /\ p.connection_timer = q.connection_timer /\ p.interrupt = c /\ p.control = q.control
          BY <2>2 DEF BtRec
      <4> HIDE DEF p
      <4>. QED
          BY <3>3, <4>1, <4>2, <4>3
    <3>. QED
        BY <3>2, <3>3 DEF Fields
  <2>6. x # "READY" /\ x # "CONTROL_CONNECTED"
      BY DEF x
  <2> HIDE DEF r
  <2>7. Standing(r)
    <3>1. r.seat # "zero" => r.interrupt # NULL
        BY <2>1, <2>2, <2>5 DEF Standing, Fields
    <3>. QED
        BY <3>1, <2>2, <2>5, <2>6 DEF Standing
  <2>8. Noted(q, r, c, psm)
      BY <2>2, <2>5 DEF Noted, Standing
  <2>. QED
      BY <2>1, <2>4, <2>5, <2>7, <2>8, MadeSound DEF h
<1>. QED
    BY <1>1, <1>2

(* Asking the SDP client keeps the invariant. *)
LEMMA AskSound ==
    ASSUME NEW w, Sound(w), NEW s \in Slots, NEW kind \in {"vendor", "descriptor"}, NEW z, z = ask(w, s, kind)
    PROVE  Sound(z)
<1>1. w \in BtStates /\ w.rec[s] \in BtRec /\ w.sdp \in BtSdp /\ SdpKept(w)
    BY RecordIsTyped
<1> DEFINE k == [a |-> w.rec[s].addr, for |-> kind, lost |-> FALSE]
           d == [w.sdp EXCEPT !.client = k]
<1>2. k \in [a : Addresses \cup {NoAddress}, for : {"none", "vendor", "descriptor"}, lost : BOOLEAN]
    BY <1>1 DEF BtRec
<1>3. z = [w EXCEPT !.sdp.client = k]
    BY DEF ask
<1> HIDE DEF k
<1>4. z = [w EXCEPT !.sdp = d]
    BY <1>3
<1>5. d \in BtSdp /\ d.device = w.sdp.device /\ d.timer = w.sdp.timer
    BY <1>1, <1>2 DEF BtSdp
<1> HIDE DEF d
<1>6. z \in BtStates /\ z.rec = w.rec /\ z.seats = w.seats /\ z.stack = w.stack /\ z.sdp = d
    BY <1>1, <1>4, <1>5 DEF BtStates
<1>. QED
    BY <1>1, <1>5, <1>6, Besides DEF SdpKept

(* The query starts for s, or is over. *)
LEMMA DeviceSound ==
    ASSUME NEW w, Sound(w), NEW s \in Slots \cup {NULL}, NEW z, z = [w EXCEPT !.sdp.device = s, !.sdp.timer = s]
    PROVE  Sound(z) /\ z.rec = w.rec
<1>1. w \in BtStates /\ w.sdp \in BtSdp
    BY DEF Sound, BtStates
<1> DEFINE d == [w.sdp EXCEPT !.device = s, !.timer = s]
<1>2. z = [w EXCEPT !.sdp = d]
    BY <1>1 DEF BtStates
<1>3. d \in BtSdp /\ d.device = s /\ d.timer = s
    BY <1>1 DEF BtSdp
<1> HIDE DEF d
<1>4. z \in BtStates /\ z.rec = w.rec /\ z.seats = w.seats /\ z.stack = w.stack /\ z.sdp = d
    BY <1>1, <1>2, <1>3 DEF BtStates
<1>. QED
    BY <1>3, <1>4, Besides DEF SdpKept

(* Starting the query keeps the invariant. *)
LEMMA QueryStartSound ==
    ASSUME NEW w, Sound(w), NEW s \in Slots, NEW z, z = uni_bt_sdp_query_start(w, s)
    PROVE  Sound(z)
<1>1. CASE w.sdp.device # NULL
    BY <1>1, SoundDrop DEF uni_bt_sdp_query_start
<1>2. CASE w.sdp.device = NULL
  <2> DEFINE v == set(w, s, "state", "SDP_VENDOR_REQUESTED")
             started == [v EXCEPT !.sdp.device = s, !.sdp.timer = s]
  <2>1. z = IF sdp_client_ready(w) THEN ask(started, s, "vendor") ELSE drop(started, s)
      BY <1>2 DEF uni_bt_sdp_query_start
  <2>2. Sound(v)
      BY SetState DEF States, Steady
  <2> HIDE DEF v
  <2>3. Sound(started)
      BY <2>2, DeviceSound
  <2> HIDE DEF started
  <2>. QED
      BY <2>1, <2>3, AskSound, SoundDrop
<1>. QED
    BY <1>1, <1>2

(* What follows the query keeps the invariant. *)
LEMMA AfterDescriptorSound ==
    ASSUME NEW w, Sound(w), NEW s \in Slots, NEW z, z = afterDescriptor(w, s)
    PROVE  Sound(z)
<1>1. CASE ~w.rec[s].incoming /\ w.rec[s].query = "before"
  <2>1. z = l2cap_create(w, s, "control")
      BY <1>1 DEF afterDescriptor
  <2>2. w.rec[s].addr # NoAddress
      BY <1>1, RecordIsTyped DEF Absent
  <2>. QED
      BY <2>1, <2>2, CreateChannelSound DEF Fields
<1>2. CASE ~(~w.rec[s].incoming /\ w.rec[s].query = "before")
    BY <1>2, SetReadySound DEF afterDescriptor
<1>. QED
    BY <1>1, <1>2

(* Ending the query keeps the invariant. *)
LEMMA QueryEndSound ==
    ASSUME NEW w, Sound(w), NEW s \in Slots, NEW z, z = uni_bt_sdp_query_end(w, s)
    PROVE  Sound(z)
<1> DEFINE v == set(w, s, "state", "SDP_DESCRIPTOR_FETCHED")
           u == [v EXCEPT !.sdp.device = NULL, !.sdp.timer = NULL]
<1>1. z = afterDescriptor(u, s)
    BY DEF uni_bt_sdp_query_end
<1>2. Sound(v)
    BY SetState DEF States, Steady
<1> HIDE DEF v
<1>3. Sound(u)
    BY <1>2, DeviceSound
<1> HIDE DEF u
<1>. QED
    BY <1>1, <1>3, AfterDescriptorSound

(* Asking for the descriptor keeps the invariant. *)
LEMMA StartDescriptorSound ==
    ASSUME NEW w, Sound(w), NEW s \in Slots, NEW z, z = uni_bt_sdp_query_start_hid_descriptor(w, s)
    PROVE  Sound(z)
<1>1. CASE needsDescriptor(w, s)
  <2>1. Sound(set(w, s, "state", "SDP_DESCRIPTOR_REQUESTED"))
      BY SetState DEF States, Steady
  <2>. QED
      BY <1>1, <2>1, AskSound DEF uni_bt_sdp_query_start_hid_descriptor
<1>2. CASE ~needsDescriptor(w, s)
    BY <1>2, QueryEndSound DEF uni_bt_sdp_query_start_hid_descriptor
<1>. QED
    BY <1>1, <1>2

(* Asking for the name of a controller keeps the invariant. *)
LEMMA RequestNameSound ==
    ASSUME NEW w, Sound(w), NEW s \in Slots, w.rec[s].addr # NoAddress, NEW z, z = requestName(w, s)
    PROVE  Sound(z)
<1> DEFINE q == w.rec[s]
           n == IF w.stack.naming = NoAddress THEN q.addr ELSE w.stack.naming
           e == IF q.name_timer THEN "twice" ELSE w.damaged
           r == [q EXCEPT !.state = "NAME_INQUIRED", !.name_timer = TRUE]
           u == [w EXCEPT !.stack.naming = n]
           v == [u EXCEPT !.rec[s] = r]
<1>1. w \in BtStates /\ q \in BtRec /\ Standing(q) /\ Absent(q) /\ w.stack \in BtStack /\ SdpKept(w) /\ q.addr # NoAddress
    BY RecordIsTyped
<1>2. n \in Addresses \cup {NoAddress} /\ e \in {"no", "cleared", "twice"}
    BY <1>1 DEF BtRec, BtStack, BtStates
<1>3. z = [w EXCEPT !.stack.naming = n, !.rec[s].state = "NAME_INQUIRED", !.rec[s].name_timer = TRUE, !.damaged = e]
  <2>1. z = [w EXCEPT !.stack.naming = n, !.rec[s].state = "NAME_INQUIRED", !.rec[s].name_timer = TRUE,
                      !.damaged = IF q.name_timer THEN "twice" ELSE @]
      BY DEF requestName
  <2> DEFINE g == [w EXCEPT !.stack.naming = n, !.rec[s].state = "NAME_INQUIRED", !.rec[s].name_timer = TRUE]
  <2>2. z = [g EXCEPT !.damaged = IF q.name_timer THEN "twice" ELSE @]
      BY <2>1
  <2>3. g.damaged = w.damaged
      BY <1>1 DEF BtStates
  <2>. QED
      BY <2>2, <2>3
<1>4. z = [[u EXCEPT !.rec[s].state = "NAME_INQUIRED", !.rec[s].name_timer = TRUE] EXCEPT !.damaged = e]
    BY <1>3
<1>5. Sound(u) /\ u.rec[s] = q
  <2> DEFINE y == [w.stack EXCEPT !.naming = n]
  <2>1. u = [w EXCEPT !.stack = y]
      OBVIOUS
  <2>2. y \in BtStack /\ y.chan = w.stack.chan /\ y.link = w.stack.link
      BY <1>1, <1>2 DEF BtStack
  <2> HIDE DEF y, u
  <2>3. u \in BtStates /\ u.rec = w.rec /\ u.seats = w.seats /\ u.stack = y /\ u.sdp = w.sdp
      BY <1>1, <2>1, <2>2 DEF BtStates
  <2>4. SdpKept(u)
      BY <2>3, <1>1 DEF SdpKept
  <2>. QED
      BY <2>2, <2>3, <2>4, Besides
<1>6. u \in BtStates
    BY <1>5 DEF Sound
<1> HIDE DEF u, n, e
<1>7. [u EXCEPT !.rec[s].state = "NAME_INQUIRED", !.rec[s].name_timer = TRUE] = v
    BY <1>5, <1>6 DEF BtStates
<1> HIDE DEF q
<1>8. r \in BtRec
    BY <1>1 DEF BtRec, States
<1>9. SameLine(q, r) /\ Standing(r) /\ Absent(r)
    BY <1>1 DEF BtRec, SameLine, Standing, Absent
<1> HIDE DEF r
<1>10. Wrote(u, v, s, r)
    BY DEF Wrote
<1> HIDE DEF v
<1>11. Sound(v)
    BY <1>5, <1>8, <1>9, <1>10, Rewrite
<1>12. z = [v EXCEPT !.damaged = e]
    BY <1>4, <1>7
<1>13. v \in BtStates /\ SdpKept(v)
    BY <1>11 DEF Sound, Orderly
<1>14. z \in BtStates /\ z.rec = v.rec /\ z.seats = v.seats /\ z.stack = v.stack /\ z.sdp = v.sdp
    BY <1>2, <1>12, <1>13 DEF BtStates
<1>. QED
    BY <1>11, <1>13, <1>14, Besides DEF SdpKept

(* The type and the query that a name makes unnecessary. *)
Known(w, z, s) == z = [w EXCEPT !.rec[s].query = "not_needed", !.rec[s].state = "SDP_DESCRIPTOR_FETCHED"]

(* A query that is not needed keeps the invariant. *)
LEMMA KnownSteady ==
    ASSUME NEW w, Sound(w), NEW s \in Slots, w.rec[s].addr # NoAddress,
           NEW z, Known(w, z, s)
    PROVE  Steady(w, z, s)
<1> DEFINE q == w.rec[s]
           r == [q EXCEPT !.query = "not_needed", !.state = "SDP_DESCRIPTOR_FETCHED"]
<1>1. w \in BtStates /\ q \in BtRec /\ Standing(q) /\ Absent(q) /\ q.addr # NoAddress
    BY RecordIsTyped
<1>2. Wrote(w, z, s, r)
    BY <1>1 DEF BtStates, Wrote, Known
<1> HIDE DEF q
<1>3. r \in BtRec
    BY <1>1 DEF BtRec, States
<1>4. SameLine(q, r) /\ Standing(r) /\ Absent(r)
    BY <1>1 DEF BtRec, SameLine, Standing, Absent
<1> HIDE DEF r
<1>5. Sound(z) /\ z.rec[s] = r /\ z.stack = w.stack
    BY <1>2, <1>3, <1>4, Rewrite DEF q
<1>. QED
    BY <1>4, <1>5 DEF Steady, SameLine, q

(* A record whose control channel alone is open is not connected. *)
LEMMA NotConnectedYet ==
    ASSUME NEW w, Sound(w), NEW s \in Slots, w.rec[s].state = "CONTROL_CONNECTED"
    PROVE  ~w.rec[s].connected
    BY RecordIsTyped DEF Standing

(* What follows the name keeps the invariant. *)
LEMMA AfterNameSound ==
    ASSUME NEW w, Sound(w), NEW s \in Slots, w.rec[s].addr # NoAddress, NEW z, z = afterName(w, s)
    PROVE  Sound(z)
<1> DEFINE known == w.rec[s].name = "known"
           g == guess_type(w, s, w.rec[s].addr)
           v == IF ~known THEN w
                ELSE [g EXCEPT !.rec[s].query = "not_needed", !.rec[s].state = "SDP_DESCRIPTOR_FETCHED"]
<1>1. z = CASE w.rec[s].name = "ds4" -> uni_bt_sdp_query_start(set(w, s, "query", "before"), s)
            [] w.rec[s].name # "ds4" /\ v.rec[s].incoming ->
                 IF v.rec[s].query = "not_needed" THEN uni_hid_device_set_ready(v, s)
                 ELSE uni_bt_sdp_query_start(v, s)
            [] OTHER -> l2cap_create(v, s, "control")
    BY DEF afterName
<1>2. Sound(set(w, s, "query", "before"))
    BY SetQuery DEF Steady
<1>3. Steady(w, v, s)
  <2>1. CASE ~known
      BY <2>1 DEF Steady, SameLine
  <2>2. CASE known
    <3>1. w.rec[s].addr \in Addresses \cup {NoAddress, Android}
        BY RecordIsTyped DEF BtRec
    <3>2. Steady(w, g, s)
        BY <3>1, GuessSteady
    <3> HIDE DEF g
    <3>3. Steady(g, [g EXCEPT !.rec[s].query = "not_needed", !.rec[s].state = "SDP_DESCRIPTOR_FETCHED"], s)
        BY <3>2, KnownSteady DEF Steady, Known
    <3>. QED
        BY <2>2, <3>2, <3>3 DEF Steady, SameLine
  <2>. QED
      BY <2>1, <2>2
<1> HIDE DEF v
<1>4. Sound(v) /\ v.rec[s].addr # NoAddress
    BY <1>3 DEF Steady
<1>5. CASE w.rec[s].name = "ds4"
    BY <1>1, <1>2, <1>5, QueryStartSound
<1>6. CASE w.rec[s].name # "ds4" /\ v.rec[s].incoming
  <2>1. z = IF v.rec[s].query = "not_needed" THEN uni_hid_device_set_ready(v, s)
            ELSE uni_bt_sdp_query_start(v, s)
      BY <1>1, <1>6
  <2>. QED
      BY <2>1, <1>4, QueryStartSound, SetReadySound
<1>7. CASE w.rec[s].name # "ds4" /\ ~v.rec[s].incoming
  <2>1. z = l2cap_create(v, s, "control")
      BY <1>1, <1>7
  <2>. QED
      BY <2>1, <1>4, CreateChannelSound DEF Fields
<1>. QED
    BY <1>5, <1>6, <1>7

(* Every step of the state machine of a connection keeps the invariant. *)
LEMMA FsmSound ==
    ASSUME NEW w, Sound(w), NEW s \in Slots, w.rec[s].addr # NoAddress, NEW z, z = uni_bluetooth_process_fsm(w, s)
    PROVE  Sound(z)
<1> DEFINE d == w.rec[s]
<1>1. CASE d.name = "none" /\ d.state \in {"DISCOVERED", "INTERRUPT_CONNECTED"}
    BY <1>1, RequestNameSound DEF uni_bluetooth_process_fsm
<1>2. CASE d.state = "NAME_FETCHED"
  <2>1. z = afterName(w, s)
      BY <1>2 DEF uni_bluetooth_process_fsm
  <2>. QED
      BY <2>1, AfterNameSound
<1>3. CASE d.state = "SDP_DESCRIPTOR_FETCHED"
  <2>1. z = afterDescriptor(w, s)
      BY <1>3 DEF uni_bluetooth_process_fsm
  <2>. QED
      BY <2>1, AfterDescriptorSound
<1>4. CASE d.state = "CONTROL_CONNECTED" /\ ~d.incoming
  <2>1. z = l2cap_create(w, s, "interrupt")
      BY <1>4 DEF uni_bluetooth_process_fsm
  <2>. QED
      BY <2>1, <1>4, NotConnectedYet, CreateChannelSound DEF Fields
<1>5. CASE d.state = "INTERRUPT_CONNECTED" /\ d.name # "none" /\ ~d.incoming
  <2>1. z = afterInterrupt(w, s)
      BY <1>5 DEF uni_bluetooth_process_fsm
  <2>. QED
      BY <2>1, QueryStartSound, SetReadySound DEF afterInterrupt
<1>6. CASE ~(d.name = "none" /\ d.state \in {"DISCOVERED", "INTERRUPT_CONNECTED"}) /\ d.state # "NAME_FETCHED"
           /\ d.state # "SDP_DESCRIPTOR_FETCHED" /\ ~(d.state = "CONTROL_CONNECTED" /\ ~d.incoming)
           /\ ~(d.state = "INTERRUPT_CONNECTED" /\ d.name # "none" /\ ~d.incoming)
    BY <1>6 DEF uni_bluetooth_process_fsm
<1>. QED
    BY <1>1, <1>2, <1>3, <1>4, <1>5, <1>6

(* A name that was read keeps the invariant. *)
LEMMA NameFetchedSound ==
    ASSUME NEW w, Sound(w), NEW s \in Slots, w.rec[s].addr # NoAddress, NEW name \in Names,
           NEW z, z = nameFetched(w, s, name)
    PROVE  Sound(z)
<1> DEFINE q == w.rec[s]
           r == [q EXCEPT !.name = name, !.state = "NAME_FETCHED"]
           v == [w EXCEPT !.rec[s].name = name, !.rec[s].state = "NAME_FETCHED"]
<1>1. w \in BtStates /\ q \in BtRec /\ Standing(q) /\ Absent(q) /\ q.addr # NoAddress
    BY RecordIsTyped
<1>2. Wrote(w, v, s, r)
    BY <1>1 DEF BtStates, Wrote
<1> HIDE DEF q
<1>3. r \in BtRec
    BY <1>1 DEF BtRec, States
<1>4. SameLine(q, r) /\ Standing(r) /\ Absent(r)
    BY <1>1 DEF BtRec, SameLine, Standing, Absent
<1>6. z = uni_bluetooth_process_fsm(v, s)
    BY DEF nameFetched
<1> HIDE DEF r, v
<1>5. Sound(v) /\ v.rec[s] = r
    BY <1>2, <1>3, <1>4, Rewrite DEF q
<1>7. v.rec[s].addr # NoAddress
    BY <1>1, <1>4, <1>5 DEF SameLine
<1>. QED
    BY <1>5, <1>6, <1>7, FsmSound

(* A link that is lost once its channels are closed keeps the invariant. *)
LEMMA LinkSound ==
    ASSUME NEW w, Sound(w), NEW a \in Addresses, NEW x \in {"down", "requested", "up"},
           \A c \in Cids : w.stack.chan[c].st \in {"failing", "closing"} => w.stack.chan[c].a # a,
           NEW z, z = [w EXCEPT !.stack.link[a] = x]
    PROVE  Sound(z) /\ z.rec = w.rec /\ z.stack.chan = w.stack.chan /\ z.seats = w.seats
<1> DEFINE y == [w.stack EXCEPT !.link[a] = x]
<1>1. w \in BtStates /\ Addressed(w) /\ Linked(w) /\ SdpKept(w) /\ Counted(w) /\ w.stack \in BtStack
      /\ \A s \in Slots : Kept(w, s)
    BY DEF Sound, Orderly, BtStates
<1>2. z = [w EXCEPT !.stack = y]
    BY <1>1 DEF BtStates
<1>3. y \in BtStack /\ y.chan = w.stack.chan /\ y.link = [w.stack.link EXCEPT ![a] = x] /\ w.stack.link \in [Addresses -> {"down", "requested", "up", "closing"}]
    BY <1>1 DEF BtStack
<1> HIDE DEF y
<1>4. z \in BtStates /\ z.rec = w.rec /\ z.seats = w.seats /\ z.sdp = w.sdp /\ z.stack = y
    BY <1>1, <1>2, <1>3 DEF BtStates
<1>5. \A b \in Addresses : z.stack.link[b] = IF b = a THEN x ELSE w.stack.link[b]
    BY <1>3, <1>4
<1>6. \A c \in Cids : w.stack.chan[c].st \in {"failing", "closing"} \/ IsTaken(w.stack.chan[c]) => w.stack.chan[c].a \in Addresses
  <2>1. NoChannel.st = "free"
      BY DEF NoChannel
  <2>. QED
      BY <1>1, <2>1 DEF Addressed, IsTaken
<1>7. Linked(z)
  <2> DEFINE chan == w.stack.chan
             link == w.stack.link
  <2>0. z.stack.chan = chan
      BY <1>3, <1>4
  <2>1. \A c \in Cids : chan[c].st \in {"failing", "closing"} => z.stack.link[chan[c].a] = "closing"
    <3>1. \A c \in Cids : chan[c].st \in {"failing", "closing"} => link[chan[c].a] = "closing"
        BY <1>1 DEF Linked
    <3> HIDE DEF chan, link
    <3>. QED
        BY <3>1, <1>5, <1>6 DEF chan, link
  <2>2. \A c \in Cids : IsTaken(chan[c]) => z.stack.link[chan[c].a] # "closing"
    <3>1. \A c \in Cids : IsTaken(chan[c]) => link[chan[c].a] # "closing"
        BY <1>1 DEF Linked
    <3>2. x # "closing"
        OBVIOUS
    <3>. QED
        BY <3>1, <3>2, <1>5, <1>6
  <2>3. /\ \A c, d \in Cids : IsTaken(chan[c]) /\ IsTaken(chan[d]) /\ chan[c].a = chan[d].a
                               /\ chan[c].psm = chan[d].psm => c = d
        /\ \A c \in Cids : chan[c].psm = "interrupt" /\ chan[c].st = "open" =>
              \E d \in Cids : chan[d].psm = "control" /\ chan[d].st = "open" /\ chan[d].a = chan[c].a
      BY <1>1 DEF Linked
  <2> HIDE DEF chan
  <2>. QED
      BY <2>0, <2>1, <2>2, <2>3 DEF Linked
<1>8. Addressed(z) /\ SdpKept(z) /\ Counted(z) /\ \A s \in Slots : Kept(z, s)
  <2>1. Addressed(z)
      BY <1>1, <1>3, <1>4 DEF Addressed
  <2>2. SdpKept(z) /\ Counted(z)
      BY <1>1, <1>4 DEF SdpKept, Counted
  <2>3. ASSUME NEW s \in Slots PROVE Kept(z, s)
    <3>1. Kept(w, s) /\ z.rec = w.rec /\ z.stack.chan = w.stack.chan
        BY <1>1, <1>3, <1>4
    <3>2. OwnChannels(z, s)
        BY <3>1 DEF Kept, OwnChannels
    <3>. QED
        BY <3>1, <3>2 DEF Kept
  <2>. QED
      BY <2>1, <2>2, <2>3
<1>. QED
    BY <1>3, <1>4, <1>7, <1>8 DEF Sound, Orderly

(* A channel is freed. *)
Freed(w, v, c) == v = [w EXCEPT !.stack.chan[c] = NoChannel]

(* What holds when a channel is free again, before its record is given     *)
(* back.                                                                   *)
LEMMA FreedFacts ==
    ASSUME NEW w, Sound(w), NEW c \in Cids,
           w.stack.chan[c].psm = "control" /\ w.stack.chan[c].st = "open" => NoneTaken(w, w.stack.chan[c].a, "interrupt"),
           NEW v, Freed(w, v, c)
    PROVE  /\ v \in BtStates /\ v.rec = w.rec /\ v.seats = w.seats /\ v.sdp = w.sdp
           /\ v.stack.chan[c] = NoChannel /\ \A d \in Cids : d # c => v.stack.chan[d] = w.stack.chan[d]
           /\ Addressed(v) /\ Linked(v) /\ SdpKept(v) /\ Counted(v)
           /\ \A t \in Slots : w.rec[t].control # c /\ w.rec[t].interrupt # c => Kept(v, t)
<1> DEFINE chan == w.stack.chan
           y == [w.stack EXCEPT !.chan[c] = NoChannel]
<1>1. w \in BtStates /\ Addressed(w) /\ Linked(w) /\ SdpKept(w) /\ Counted(w) /\ w.stack \in BtStack
      /\ \A s \in Slots : Kept(w, s) /\ w.rec[s] \in BtRec
    BY DEF Sound, Orderly, BtStates
<1>2. v = [w EXCEPT !.stack = y]
    BY <1>1 DEF BtStates, Freed
<1>3. y \in BtStack /\ y.chan = [chan EXCEPT ![c] = NoChannel] /\ y.link = w.stack.link /\ chan \in [Cids -> BtChannel]
    BY <1>1, ZerosTyped DEF BtStack
<1> HIDE DEF y
<1>4. v \in BtStates /\ v.rec = w.rec /\ v.seats = w.seats /\ v.sdp = w.sdp /\ v.stack = y
    BY <1>1, <1>2, <1>3 DEF BtStates
<1>5. v.stack.chan[c] = NoChannel /\ \A d \in Cids : d # c => v.stack.chan[d] = chan[d]
    BY <1>3, <1>4
<1>f. NoChannel.st = "free"
    BY DEF NoChannel
<1>6. Addressed(v)
    BY <1>1, <1>4, <1>5 DEF Addressed
<1>7. Linked(v)
  <2>1. \A d \in Cids : v.stack.chan[d].st # "free" => d # c /\ v.stack.chan[d] = chan[d]
      BY <1>5, <1>f
  <2>2. \A d \in Cids : v.stack.chan[d].st \in {"failing", "closing"} => v.stack.link[v.stack.chan[d].a] = "closing"
      BY <2>1, <1>1, <1>3, <1>4 DEF Linked
  <2>3. \A d \in Cids : IsTaken(v.stack.chan[d]) => v.stack.link[v.stack.chan[d].a] # "closing"
      BY <2>1, <1>1, <1>3, <1>4 DEF Linked, IsTaken
  <2>4. \A e, d \in Cids : IsTaken(v.stack.chan[e]) /\ IsTaken(v.stack.chan[d]) /\ v.stack.chan[e].a = v.stack.chan[d].a
                                 /\ v.stack.chan[e].psm = v.stack.chan[d].psm => e = d
      BY <2>1, <1>1 DEF Linked, IsTaken
  <2>5. ASSUME NEW e \in Cids, v.stack.chan[e].psm = "interrupt", v.stack.chan[e].st = "open"
        PROVE  \E d \in Cids : v.stack.chan[d].psm = "control" /\ v.stack.chan[d].st = "open" /\ v.stack.chan[d].a = v.stack.chan[e].a
    <3>1. e # c /\ v.stack.chan[e] = chan[e]
        BY <2>1, <2>5
    <3>2. PICK d \in Cids : chan[d].psm = "control" /\ chan[d].st = "open" /\ chan[d].a = chan[e].a
        BY <3>1, <2>5, <1>1 DEF Linked
    <3>3. d # c
        BY <3>1, <3>2, <2>5 DEF NoneTaken, IsTaken
    <3>. QED
        BY <3>1, <3>2, <3>3, <1>5
  <2>. QED
      BY <2>2, <2>3, <2>4, <2>5 DEF Linked
<1>8. SdpKept(v) /\ Counted(v)
    BY <1>1, <1>4 DEF SdpKept, Counted
<1>9. ASSUME NEW t \in Slots, w.rec[t].control # c, w.rec[t].interrupt # c PROVE Kept(v, t)
  <2>c. /\ w.rec[t].control # NULL => v.stack.chan[w.rec[t].control] = chan[w.rec[t].control]
        /\ w.rec[t].interrupt # NULL => v.stack.chan[w.rec[t].interrupt] = chan[w.rec[t].interrupt]
      BY <1>1, <1>5, <1>9 DEF BtRec
  <2>d. /\ w.rec[t].control # NULL => chan[w.rec[t].control].a = w.rec[t].addr /\ chan[w.rec[t].control].psm = "control"
        /\ w.rec[t].interrupt # NULL => chan[w.rec[t].interrupt].a = w.rec[t].addr /\ chan[w.rec[t].interrupt].psm = "interrupt"
      BY <1>1 DEF Kept, OwnChannels, Fields
  <2>e. w.rec[t].seat # "zero" => w.rec[t].interrupt # NULL /\ chan[w.rec[t].interrupt].st \in {"open", "closing"}
      BY <1>1 DEF Kept, Standing
  <2>1. OwnChannels(v, t)
      BY <2>c, <2>d, <1>4 DEF OwnChannels, Fields
  <2>2. Kept(w, t) /\ v.rec[t] = w.rec[t]
      BY <1>1, <1>4
  <2> HIDE DEF chan
  <2>. QED
      BY <2>1, <2>2, <2>c, <2>e DEF Kept
<1>. QED
    BY <1>4, <1>5, <1>6, <1>7, <1>8, <1>9

(* The record that held the channel may then be given back. *)
LEMMA FreedDroppable ==
    ASSUME NEW w, Sound(w), NEW c \in Cids,
           w.stack.chan[c].psm = "control" /\ w.stack.chan[c].st = "open" => NoneTaken(w, w.stack.chan[c].a, "interrupt"),
           NEW v, Freed(w, v, c), NEW s \in Slots,
           \A t \in Slots : t # s => w.rec[t].control # c /\ w.rec[t].interrupt # c
    PROVE  Droppable(v, s)
<1>1. Droppable(w, s)
    BY SoundIsDroppable
<1>2. /\ v \in BtStates /\ v.rec = w.rec /\ v.seats = w.seats /\ v.sdp = w.sdp
      /\ v.stack.chan[c] = NoChannel /\ \A d \in Cids : d # c => v.stack.chan[d] = w.stack.chan[d]
      /\ Addressed(v) /\ Linked(v) /\ SdpKept(v) /\ Counted(v)
      /\ \A t \in Slots : w.rec[t].control # c /\ w.rec[t].interrupt # c => Kept(v, t)
    BY FreedFacts
<1>3. NoChannel.st = "free"
    BY DEF NoChannel
<1>. QED
    BY <1>1, <1>2, <1>3 DEF Droppable

(* If none held it, all is in order. *)
LEMMA FreedSound ==
    ASSUME NEW w, Sound(w), NEW c \in Cids,
           w.stack.chan[c].psm = "control" /\ w.stack.chan[c].st = "open" => NoneTaken(w, w.stack.chan[c].a, "interrupt"),
           NEW v, Freed(w, v, c),
           \A t \in Slots : w.rec[t].control # c /\ w.rec[t].interrupt # c
    PROVE  Sound(v)
    BY FreedFacts DEF Sound, Orderly

(* A record that has a channel bears the channel's address. *)
LEMMA Owner ==
    ASSUME NEW w, Sound(w), NEW c \in Cids, NEW s \in Slots, w.rec[s].control = c \/ w.rec[s].interrupt = c
    PROVE  /\ w.rec[s].addr = w.stack.chan[c].a /\ w.rec[s].addr # NoAddress
           /\ \A t \in Slots : w.rec[t].control = c \/ w.rec[t].interrupt = c => t = s
<1>1. c # NULL
    BY BtConstants DEF Cids, NULL
<1>2. \A t \in Slots : w.rec[t].control = c \/ w.rec[t].interrupt = c => w.rec[t].addr = w.stack.chan[c].a /\ w.rec[t].addr # NoAddress
    BY <1>1, RecordIsTyped DEF Kept, OwnChannels, Absent, Fields
<1>3. Addressed(w)
    BY DEF Sound, Orderly
<1>. QED
    BY <1>2, <1>3 DEF Addressed

(* A channel that could not be opened keeps the invariant. *)
LEMMA OpenFailedSound ==
    ASSUME NEW w, Sound(w), NEW c \in Cids, w.stack.chan[c].st \in {"requested", "failing"},
           NEW z, z = openFailed(w, c)
    PROVE  Sound(z)
<1> DEFINE v == [w EXCEPT !.stack.chan[c] = NoChannel]
           a == w.stack.chan[c].a
           s == deviceFor(w, a)
<1>1. z = IF s = NULL THEN v ELSE drop(v, s)
    BY DEF openFailed
<1>2. Freed(w, v, c)
    BY DEF Freed
<1> HIDE DEF v
<1>3. CASE s = NULL
  <2>1. \A t \in Slots : w.rec[t].control # c /\ w.rec[t].interrupt # c
      BY <1>3, DeviceFound, Owner
  <2>. QED
      BY <1>1, <1>2, <1>3, <2>1, FreedSound
<1>4. CASE s # NULL
  <2>1. s \in Slots /\ w.rec[s].addr = a
      BY <1>4, DeviceFound
  <2>2. ASSUME NEW t \in Slots, t # s PROVE w.rec[t].control # c /\ w.rec[t].interrupt # c
    <3>1. Addressed(w)
        BY DEF Sound, Orderly
    <3>2. w.rec[t].control = c \/ w.rec[t].interrupt = c => w.rec[t].addr = a /\ w.rec[t].addr # NoAddress
        BY Owner
    <3>. QED
        BY <2>1, <2>2, <3>1, <3>2 DEF Addressed
  <2>3. Droppable(v, s)
      BY <1>2, <2>1, <2>2, FreedDroppable
  <2>. QED
      BY <1>1, <1>4, <2>1, <2>3, Drops
<1>. QED
    BY <1>3, <1>4

(* A channel that is closed keeps the invariant. *)
LEMMA ClosedSound ==
    ASSUME NEW w, Sound(w), NEW c \in Cids,
           w.stack.chan[c].psm = "control" /\ w.stack.chan[c].st = "open" => NoneTaken(w, w.stack.chan[c].a, "interrupt"),
           NEW z, z = closed(w, c)
    PROVE  Sound(z)
<1> DEFINE v == [w EXCEPT !.stack.chan[c] = NoChannel]
           s == deviceForCid(w, c)
<1>1. z = IF s = NULL THEN v ELSE drop(v, s)
    BY DEF closed
<1>2. Freed(w, v, c)
    BY DEF Freed
<1> HIDE DEF v
<1>3. CASE s = NULL
  <2>1. \A t \in Slots : w.rec[t].control # c /\ w.rec[t].interrupt # c
      BY <1>3, DeviceOfChannel
  <2>. QED
      BY <1>1, <1>2, <1>3, <2>1, FreedSound
<1>4. CASE s # NULL
  <2>1. s \in Slots /\ (w.rec[s].interrupt = c \/ w.rec[s].control = c)
      BY <1>4, DeviceOfChannel
  <2>2. \A t \in Slots : t # s => w.rec[t].control # c /\ w.rec[t].interrupt # c
      BY <2>1, Owner
  <2>3. Droppable(v, s)
      BY <1>2, <2>1, <2>2, FreedDroppable
  <2>. QED
      BY <1>1, <1>4, <2>1, <2>3, Drops
<1>. QED
    BY <1>3, <1>4

(* A record with a seat, or about to have one, whose link is not going     *)
(* down, has both its channels open.                                       *)
LEMMA ConnectedHasChannels ==
    ASSUME NEW w, Sound(w), NEW s \in Slots, w.rec[s].seat # "zero" \/ w.rec[s].connected,
           w.stack.link[w.rec[s].addr] # "closing"
    PROVE  \A psm \in Fields : \E d \in Cids : w.stack.chan[d].a = w.rec[s].addr /\ w.stack.chan[d].psm = psm
                                               /\ w.stack.chan[d].st = "open"
<1> DEFINE i == w.rec[s].interrupt
           chan == w.stack.chan
<1>1. w.rec[s] \in BtRec /\ Kept(w, s) /\ Standing(w.rec[s]) /\ Linked(w)
    BY RecordIsTyped
<1>2. i \in Cids /\ i # NULL /\ w.rec[s].seat # "zero"
    BY <1>1 DEF BtRec, Standing
<1>3. chan[i].a = w.rec[s].addr /\ chan[i].psm = "interrupt" /\ chan[i].st \in {"open", "closing"}
    BY <1>1, <1>2 DEF Kept, OwnChannels, Fields
<1>4. chan[i].st = "open"
    BY <1>1, <1>2, <1>3 DEF Linked
<1> HIDE DEF i
<1>5. \E d \in Cids : chan[d].psm = "control" /\ chan[d].st = "open" /\ chan[d].a = chan[i].a
    BY <1>1, <1>2, <1>3, <1>4 DEF Linked
<1>. QED
    BY <1>2, <1>3, <1>4, <1>5 DEF Fields

(* A record takes note of a channel that exists.                           *)
Notes(w, r) ==
    /\ r.control # NULL => w.stack.chan[r.control].a = r.addr /\ w.stack.chan[r.control].psm = "control"
    /\ r.interrupt # NULL => w.stack.chan[r.interrupt].a = r.addr /\ w.stack.chan[r.interrupt].psm = "interrupt"
    /\ r.seat # "zero" => w.stack.chan[r.interrupt].st \in {"open", "closing"}

(* Replacing a record by one with other channels of its own keeps the      *)
(* invariant.                                                              *)
LEMMA NotesSound ==
    ASSUME NEW w, Sound(w), NEW s \in Slots, NEW r \in BtRec, r.addr = w.rec[s].addr,
           r.seat = "taken" <=> w.rec[s].seat = "taken", Standing(r), Absent(r), Notes(w, r),
           NEW z, Wrote(w, z, s, r)
    PROVE  Sound(z) /\ z.rec[s] = r /\ z.stack = w.stack
<1>1. w \in BtStates /\ Addressed(w) /\ Linked(w) /\ SdpKept(w) /\ Counted(w) /\ \A t \in Slots : Kept(w, t)
    BY DEF Sound, Orderly
<1>2. z \in BtStates /\ Alike(w, z, s) /\ z.sdp = w.sdp /\ z.stack = w.stack /\ z.rec[s] = r
    BY <1>1, WroteFields
<1>3. Addressed(z)
    BY <1>1, <1>2 DEF Addressed, Alike
<1>4. Linked(z) /\ SdpKept(z)
    BY <1>1, <1>2 DEF Linked, SdpKept
<1>5. Counted(z)
  <2>1. \A t \in Slots : z.rec[t].seat = "taken" <=> w.rec[t].seat = "taken"
      BY <1>2 DEF Alike
  <2>2. {t \in Slots : z.rec[t].seat = "taken"} = {t \in Slots : w.rec[t].seat = "taken"}
      BY <2>1
  <2>. QED
      BY <2>2, <1>1, <1>2 DEF Counted, Alike
<1>6. ASSUME NEW t \in Slots PROVE Kept(z, t)
  <2>1. CASE t # s
      BY <2>1, <1>1, <1>2 DEF Kept, OwnChannels, Alike
  <2>2. CASE t = s
    <3>1. OwnChannels(z, s)
        BY <1>2 DEF OwnChannels, Notes, Fields
    <3>. QED
        BY <2>2, <3>1, <1>2 DEF Kept, Notes
  <2>. QED
      BY <2>1, <2>2
<1>. QED
    BY <1>2, <1>3, <1>4, <1>5, <1>6 DEF Sound, Orderly

(* z is w with the channel c open. *)
Opens(w, z, c) == z = [w EXCEPT !.stack.chan[c].st = "open"]

(* Channel c, described by h, may be opened. *)
MayOpen(w, c, h) ==
    /\ h = w.stack.chan[c]
    /\ h.st \in {"requested", "accepted"} /\ w.stack.link[h.a] # "closing"
    /\ h.st = "requested" => NoneTaken(w, h.a, h.psm)
    /\ h.psm = "interrupt" =>
          \E d \in Cids : w.stack.chan[d].a = h.a /\ w.stack.chan[d].psm = "control" /\ w.stack.chan[d].st = "open"

(* A channel that may be opened is opened in order. *)
LEMMA OpenedSound ==
    ASSUME NEW w, Sound(w), NEW c \in Cids, NEW h0, MayOpen(w, c, h0), NEW z, Opens(w, z, c)
    PROVE  /\ Sound(z) /\ z.rec = w.rec /\ z.stack.link = w.stack.link /\ z.stack.chan[c].a = h0.a
           /\ z.stack.chan[c].psm = h0.psm /\ z.stack.chan[c].st = "open"
<1>0. /\ w.stack.chan[c].st \in {"requested", "accepted"} /\ w.stack.link[w.stack.chan[c].a] # "closing"
      /\ w.stack.chan[c].st = "requested" => NoneTaken(w, w.stack.chan[c].a, w.stack.chan[c].psm)
      /\ w.stack.chan[c].psm = "interrupt" =>
            \E d \in Cids : w.stack.chan[d].a = w.stack.chan[c].a /\ w.stack.chan[d].psm = "control"
                            /\ w.stack.chan[d].st = "open"
      /\ w.stack.chan[c] = h0
    BY DEF MayOpen
<1> DEFINE chan == w.stack.chan
           h == [chan[c] EXCEPT !.st = "open"]
           y == [w.stack EXCEPT !.chan[c] = h]
<1>1. w \in BtStates /\ Addressed(w) /\ Linked(w) /\ SdpKept(w) /\ Counted(w) /\ w.stack \in BtStack
      /\ \A s \in Slots : Kept(w, s) /\ w.rec[s] \in BtRec
    BY DEF Sound, Orderly, BtStates
<1>2. chan \in [Cids -> BtChannel] /\ chan[c] \in BtChannel
    BY <1>1 DEF BtStack
<1>3. z = [w EXCEPT !.stack = y]
    BY <1>1, <1>2 DEF BtStates, BtStack, Opens
<1>4. h \in BtChannel /\ h.a = chan[c].a /\ h.psm = chan[c].psm /\ h.st = "open"
    BY <1>2 DEF BtChannel
<1> HIDE DEF h
<1>5. y \in BtStack /\ y.chan = [chan EXCEPT ![c] = h] /\ y.link = w.stack.link
    BY <1>1, <1>2, <1>4 DEF BtStack
<1> HIDE DEF y
<1>6. z \in BtStates /\ z.rec = w.rec /\ z.seats = w.seats /\ z.sdp = w.sdp /\ z.stack = y
    BY <1>1, <1>3, <1>5 DEF BtStates
<1>7. z.stack.chan[c] = h /\ \A d \in Cids : d # c => z.stack.chan[d] = chan[d]
    BY <1>2, <1>5, <1>6
<1>8. \A d \in Cids : /\ z.stack.chan[d].a = chan[d].a /\ z.stack.chan[d].psm = chan[d].psm
                      /\ chan[d].st = "open" \/ chan[d].st = "closing" => z.stack.chan[d].st = chan[d].st
                      /\ z.stack.chan[d].st # "open" => z.stack.chan[d].st = chan[d].st
    BY <1>0, <1>4, <1>7
<1>9. Addressed(z)
  <2>1. NoChannel.st = "free"
      BY DEF NoChannel
  <2>2. \A d \in Cids : z.stack.chan[d] # NoChannel => chan[d] # NoChannel
      BY <1>0, <1>7, <2>1
  <2>3. \A d \in Cids : z.stack.chan[d] # NoChannel => z.stack.chan[d].a \in Addresses /\ z.stack.chan[d].psm \in Fields /\ z.stack.chan[d].st # "free"
      BY <2>2, <1>0, <1>1, <1>4, <1>7 DEF Addressed
  <2>. QED
      BY <2>3, <1>1, <1>6 DEF Addressed
<1>10. Linked(z)
  <2>a. z.stack.link = w.stack.link
      BY <1>5, <1>6
  <2> HIDE DEF chan
  <2>1. \A d \in Cids : z.stack.chan[d].st \in {"failing", "closing"} => z.stack.link[z.stack.chan[d].a] = "closing"
      BY <1>0, <1>1, <1>4, <1>7, <2>a DEF Linked, chan
  <2>2. \A d \in Cids : IsTaken(z.stack.chan[d]) => z.stack.link[z.stack.chan[d].a] # "closing"
      BY <1>0, <1>1, <1>4, <1>7, <2>a DEF Linked, IsTaken, chan
  <2>3. ASSUME NEW d \in Cids, NEW e \in Cids, IsTaken(z.stack.chan[d]), IsTaken(z.stack.chan[e]),
               z.stack.chan[d].a = z.stack.chan[e].a, z.stack.chan[d].psm = z.stack.chan[e].psm
        PROVE  d = e
    <3>0. \A p, q \in Cids : IsTaken(chan[p]) /\ IsTaken(chan[q]) /\ chan[p].a = chan[q].a /\ chan[p].psm = chan[q].psm => p = q
        BY <1>1 DEF Linked, chan
    <3>1. CASE d # c /\ e # c
        BY <3>0, <3>1, <2>3, <1>7
    <3>2. CASE d = c /\ e # c
      <4>1. IsTaken(chan[e]) /\ chan[e].a = chan[c].a /\ chan[e].psm = chan[c].psm
          BY <3>2, <2>3, <1>4, <1>7
      <4>. QED
          BY <4>1, <3>0, <3>2, <1>0 DEF NoneTaken, chan, IsTaken
    <3>3. CASE d # c /\ e = c
      <4>1. IsTaken(chan[d]) /\ chan[d].a = chan[c].a /\ chan[d].psm = chan[c].psm
          BY <3>3, <2>3, <1>4, <1>7
      <4>. QED
          BY <4>1, <3>0, <3>3, <1>0 DEF NoneTaken, chan, IsTaken
    <3>. QED
        BY <3>1, <3>2, <3>3
  <2>4. ASSUME NEW d \in Cids, z.stack.chan[d].psm = "interrupt", z.stack.chan[d].st = "open"
        PROVE  \E e \in Cids : z.stack.chan[e].psm = "control" /\ z.stack.chan[e].st = "open" /\ z.stack.chan[e].a = z.stack.chan[d].a
    <3>1. PICK e \in Cids : chan[e].psm = "control" /\ chan[e].st = "open" /\ chan[e].a = chan[d].a
      <4>1. CASE d = c
          BY <4>1, <2>4, <1>8, <1>0 DEF chan
      <4>2. CASE d # c
          BY <4>2, <2>4, <1>1, <1>7 DEF Linked, chan
      <4>. QED
          BY <4>1, <4>2
    <3>. QED
        BY <3>1, <1>8
  <2>. QED
      BY <2>1, <2>2, <2>3, <2>4 DEF Linked
<1>11. ASSUME NEW t \in Slots PROVE Kept(z, t)
  <2>1. Kept(w, t) /\ w.rec[t] \in BtRec
      BY <1>1
  <2>2. OwnChannels(z, t)
    <3>1. /\ w.rec[t].control # NULL => w.rec[t].control \in Cids /\ chan[w.rec[t].control].a = w.rec[t].addr /\ chan[w.rec[t].control].psm = "control"
          /\ w.rec[t].interrupt # NULL => w.rec[t].interrupt \in Cids /\ chan[w.rec[t].interrupt].a = w.rec[t].addr /\ chan[w.rec[t].interrupt].psm = "interrupt"
        BY <2>1 DEF Kept, OwnChannels, Fields, BtRec
    <3> HIDE DEF chan
    <3>. QED
        BY <3>1, <1>6, <1>8 DEF OwnChannels, Fields
  <2>3. w.rec[t].seat # "zero" => w.rec[t].interrupt \in Cids /\ chan[w.rec[t].interrupt].st \in {"open", "closing"}
      BY <2>1 DEF Kept, Standing, BtRec
  <2> HIDE DEF chan
  <2>. QED
      BY <2>1, <2>2, <2>3, <1>0, <1>6, <1>8 DEF Kept
<1>12. SdpKept(z) /\ Counted(z)
    BY <1>1, <1>6 DEF SdpKept, Counted
<1>. QED
    BY <1>0, <1>4, <1>5, <1>6, <1>7, <1>9, <1>10, <1>11, <1>12 DEF Sound, Orderly

(* Finding or creating the record for an address keeps the invariant. *)
LEMMA WithRecordSound ==
    ASSUME NEW w, Sound(w), NEW a \in Addresses, NEW z, z = withRecord(w, a)
    PROVE  /\ Sound(z) /\ z.stack = w.stack
           /\ \A t \in Slots : z.rec[t] = w.rec[t] \/ (z.rec[t].control = NULL /\ z.rec[t].interrupt = NULL)
<1>1. CASE deviceFor(w, a) = NULL /\ freeSlot(w) # NULL
  <2>1. z = uni_hid_device_create(w, a)
      BY <1>1 DEF withRecord
  <2>. QED
      BY <1>1, <2>1, CreateSound
<1>2. CASE ~(deviceFor(w, a) = NULL /\ freeSlot(w) # NULL)
    BY <1>2 DEF withRecord
<1>. QED
    BY <1>1, <1>2

(* So does marking that record as incoming. *)
LEMMA SetIncomingSound ==
    ASSUME NEW w, Sound(w), NEW a, NEW z, z = setIncoming(w, a)
    PROVE  Sound(z) /\ z.stack = w.stack
<1>1. CASE deviceFor(w, a) = NULL
    BY <1>1 DEF setIncoming
<1>2. CASE deviceFor(w, a) # NULL
  <2>1. deviceFor(w, a) \in Slots
      BY <1>2, DeviceFound
  <2> DEFINE t == TRUE
             s == deviceFor(w, a)
             v == set(w, s, "incoming", TRUE)
  <2>2. z = v
      BY <1>2 DEF setIncoming
  <2>3. Steady(w, v, s)
      BY <2>1, SetIncoming
  <2> HIDE DEF v, s
  <2>. QED
      BY <2>2, <2>3 DEF Steady
<1>. QED
    BY <1>1, <1>2

(* A step that becomes a state in order ends in order. *)
LEMMA BecomeSound ==
    ASSUME NEW z, Sound(z), Become(z)
    PROVE  Sound(Now')
<1>1. z \in BtStates
    BY DEF Sound
<1>2. Now' = z
    BY <1>1 DEF Become, Now, BtStates
<1>. QED
    BY <1>2

(* The parts of the state that the operators of the connection work on. *)
LEMMA NowFields ==
    Now.rec = rec /\ Now.sdp = sdp /\ Now.stack = stack /\ Now.seats = seats /\ Now.damaged = damaged
    BY DEF Now

(* While the stack is calm no link is closing and no channel closes or     *)
(* fails.                                                                  *)
LEMMA CalmFacts ==
    ASSUME Sound(Now), Calm
    PROVE  /\ \A a \in Addresses : Now.stack.link[a] # "closing"
           /\ \A c \in Cids : stack.chan[c].st # "free" => stack.chan[c].a \in Addresses /\ stack.chan[c].psm \in Fields
           /\ \A c \in Cids : stack.chan[c].st \notin {"failing", "closing"}
<1>1. Addressed(Now) /\ Linked(Now)
    BY DEF Sound, Orderly
<1>2. NoChannel.st = "free"
    BY DEF NoChannel
<1>3. \A c \in Cids : stack.chan[c].st # "free" => stack.chan[c].a \in Addresses /\ stack.chan[c].psm \in Fields
    BY <1>1, <1>2, NowFields DEF Addressed
<1>. QED
    BY <1>1, <1>3, NowFields DEF Calm, Linked

(* An inquiry result keeps the invariant. *)
LEMMA InquirySound ==
    ASSUME Sound(Now), NEW a \in Addresses, NEW named \in BOOLEAN, on_gap_inquiry_result(a, named)
    PROVE  Sound(Now')
<1>n. NameOf[a] \in Names
    BY BtConstants
<1>1. CASE Device(a) # NULL
  <2> DEFINE s == Device(a)
             v == later(Now, s)
             z == uni_bluetooth_process_fsm(v, s)
  <2>1. s \in Slots /\ Now.rec[s].addr = a
      BY <1>1, DeviceFound DEF Device
  <2>2. Become(z)
      BY <1>1 DEF on_gap_inquiry_result
  <2>3. Steady(Now, v, s)
      BY <2>1, LaterSteady
  <2>4. Sound(v) /\ v.rec[s].addr # NoAddress
      BY <2>1, <2>3, BtConstants DEF Steady
  <2> HIDE DEF s, v
  <2>5. Sound(z)
      BY <2>1, <2>4, FsmSound
  <2> HIDE DEF z
  <2>. QED
      BY <2>2, <2>5, BecomeSound
<1>2. CASE Device(a) = NULL
  <2> DEFINE f == freeSlot(Now)
             u == uni_hid_device_create(Now, a)
             w == set(u, f, "state", "DISCOVERED")
             z == IF named THEN nameFetched(w, f, NameOf[a]) ELSE uni_bluetooth_process_fsm(w, f)
  <2>1. f # NULL /\ Become(z)
      BY <1>2 DEF on_gap_inquiry_result
  <2>2. Sound(u) /\ f \in Slots /\ u.rec[f].addr = a
      BY <1>2, <2>1, CreateSound DEF Device
  <2> HIDE DEF u, f
  <2>3. Steady(u, w, f)
      BY <2>2, SetState DEF States
  <2> HIDE DEF w
  <2>4. Sound(w) /\ w.rec[f].addr # NoAddress
      BY <2>2, <2>3, BtConstants DEF Steady
  <2>5. Sound(nameFetched(w, f, NameOf[a]))
      BY <2>2, <2>4, <1>n, NameFetchedSound
  <2>6. Sound(uni_bluetooth_process_fsm(w, f))
      BY <2>2, <2>4, FsmSound
  <2>7. Sound(z)
      BY <2>5, <2>6
  <2> HIDE DEF z
  <2>. QED
      BY <2>1, <2>7, BecomeSound
<1>. QED
    BY <1>1, <1>2

(* A connection request keeps the invariant. *)
LEMMA RequestSound ==
    ASSUME Sound(Now), NEW a \in Addresses, on_hci_connection_request(a)
    PROVE  Sound(Now')
<1> DEFINE u == withRecord(Now, a)
           v == setIncoming(u, a)
           z == [v EXCEPT !.stack.link[a] = "requested"]
<1>1. Become(z) /\ Calm
    BY DEF on_hci_connection_request
<1>2. Sound(u) /\ u.stack = Now.stack
    BY WithRecordSound
<1> HIDE DEF u
<1>3. Sound(v) /\ v.stack = Now.stack
    BY <1>2, SetIncomingSound
<1> HIDE DEF v
<1>4. \A c \in Cids : v.stack.chan[c].st \notin {"failing", "closing"}
    BY <1>1, <1>3, CalmFacts, NowFields
<1>5. Sound(z)
    BY <1>3, <1>4, LinkSound
<1> HIDE DEF z
<1>. QED
    BY <1>1, <1>5, BecomeSound

(* A connection that is complete keeps the invariant. *)
LEMMA CompleteSound ==
    ASSUME Sound(Now), NEW a \in Addresses, on_hci_connection_complete(a)
    PROVE  Sound(Now')
<1> DEFINE w == [Now EXCEPT !.stack.link[a] = "up"]
           s == Device(a)
           z == IF s = NULL THEN w ELSE set(w, s, "handle", TRUE)
<1>1. Become(z) /\ Calm
    BY DEF on_hci_connection_complete
<1>2. \A c \in Cids : Now.stack.chan[c].st \notin {"failing", "closing"}
    BY <1>1, CalmFacts, NowFields
<1>3. Sound(w)
    BY <1>2, LinkSound
<1>4. s # NULL => s \in Slots
    BY DeviceFound DEF Device
<1> HIDE DEF w, s
<1>5. s # NULL => Steady(w, set(w, s, "handle", TRUE), s)
    BY <1>3, <1>4, SetHandle
<1>6. Sound(z)
    BY <1>3, <1>5 DEF Steady
<1> HIDE DEF z
<1>. QED
    BY <1>1, <1>6, BecomeSound

(* A connection that failed keeps the invariant. *)
LEMMA ConnectionFailedSound ==
    ASSUME Sound(Now), NEW a \in Addresses, connectionFailed(a)
    PROVE  Sound(Now')
<1> DEFINE z == [Now EXCEPT !.stack.link[a] = "down"]
<1>1. Become(z) /\ Calm
    BY DEF connectionFailed
<1>2. \A c \in Cids : Now.stack.chan[c].st \notin {"failing", "closing"}
    BY <1>1, CalmFacts, NowFields
<1>3. Sound(z)
    BY <1>2, LinkSound
<1> HIDE DEF z
<1>. QED
    BY <1>1, <1>3, BecomeSound

(* The answer to a name request keeps the invariant. *)
LEMMA NameCompleteSound ==
    ASSUME Sound(Now), NEW name \in Names, remote_name_request_complete(name)
    PROVE  Sound(Now')
<1> DEFINE w == [Now EXCEPT !.stack.naming = NoAddress]
           s == Device(stack.naming)
<1>1. Sound(w) /\ w.rec = Now.rec
  <2> DEFINE y == [Now.stack EXCEPT !.naming = NoAddress]
  <2>1. Now \in BtStates /\ Now.stack \in BtStack /\ SdpKept(Now)
      BY DEF Sound, Orderly, BtStates
  <2>2. w = [Now EXCEPT !.stack = y]
      OBVIOUS
  <2>3. y \in BtStack /\ y.chan = Now.stack.chan /\ y.link = Now.stack.link
      BY <2>1 DEF BtStack
  <2> HIDE DEF y, w
  <2>4. w \in BtStates /\ w.rec = Now.rec /\ w.seats = Now.seats /\ w.stack = y /\ w.sdp = Now.sdp
      BY <2>1, <2>2, <2>3 DEF BtStates
  <2>. QED
      BY <2>1, <2>3, <2>4, Besides DEF SdpKept
<1>2. CASE s = NULL
  <2>1. Become(w)
      BY <1>2 DEF remote_name_request_complete
  <2> HIDE DEF w
  <2>. QED
      BY <1>1, <2>1, BecomeSound
<1>3. CASE s # NULL
  <2> DEFINE v == IF rec[s].name_timer THEN w ELSE later(w, s)
             u == IF rec[s].state \in {"PENDING_READY", "READY"} THEN set(v, s, "name", name)
                  ELSE nameFetched(v, s, name)
             z == set(u, s, "name_timer", FALSE)
  <2>1. Become(z) /\ stack.naming # NoAddress
      BY <1>3 DEF remote_name_request_complete
  <2>2. s \in Slots /\ w.rec[s].addr # NoAddress
      BY <1>1, <1>3, <2>1, DeviceFound, NowFields DEF Device
  <2> HIDE DEF w, s
  <2>3. Steady(w, w, s) /\ Steady(w, later(w, s), s)
      BY <1>1, <2>2, LaterSteady DEF Steady, SameLine
  <2>4. Steady(w, v, s)
      BY <2>3
  <2>5. Sound(v) /\ v.rec[s].addr # NoAddress
      BY <2>2, <2>4 DEF Steady
  <2> HIDE DEF v
  <2>6. Steady(v, set(v, s, "name", name), s) /\ Sound(nameFetched(v, s, name))
      BY <2>2, <2>5, SetName, NameFetchedSound
  <2>7. Sound(u)
      BY <2>6 DEF Steady
  <2> HIDE DEF u
  <2>8. Steady(u, z, s)
      BY <2>2, <2>7, SetNameTimer
  <2> HIDE DEF z
  <2>. QED
      BY <2>1, <2>8, BecomeSound DEF Steady
<1>. QED
    BY <1>2, <1>3

(* The end of an SDP query keeps the invariant. *)
LEMMA QueryCompleteSound ==
    ASSUME Sound(Now), NEW answered \in BOOLEAN, Become(queryComplete(answered))
    PROVE  Sound(Now')
<1> DEFINE w == [Now EXCEPT !.sdp.client = NoQuery]
           s == sdp.device
           x == IF answered THEN sdp.client.a ELSE Android
           g == guess_type(w, s, x)
           z == queryComplete(answered)
<1>1. Now \in BtStates /\ Now.sdp \in BtSdp /\ SdpKept(Now)
    BY DEF Sound, Orderly, BtStates
<1>2. Sound(w)
  <2> DEFINE d == [Now.sdp EXCEPT !.client = NoQuery]
  <2>1. w = [Now EXCEPT !.sdp = d]
      OBVIOUS
  <2>2. d \in BtSdp /\ d.device = Now.sdp.device /\ d.timer = Now.sdp.timer
      BY <1>1, ZerosTyped DEF BtSdp
  <2> HIDE DEF d, w
  <2>3. w \in BtStates /\ w.rec = Now.rec /\ w.seats = Now.seats /\ w.stack = Now.stack /\ w.sdp = d
      BY <1>1, <2>1, <2>2 DEF BtStates
  <2>. QED
      BY <1>1, <2>2, <2>3, Besides DEF SdpKept
<1>3. s \in Slots \cup {NULL} /\ x \in Addresses \cup {NoAddress, Android}
  <2>1. sdp \in BtSdp
      BY <1>1, NowFields
  <2>. QED
      BY <2>1 DEF BtSdp
<1>4. Sound(z)
  <2>1. CASE s = NULL
    <3>1. z = w
        BY <2>1 DEF queryComplete
    <3> HIDE DEF w, z
    <3>. QED
        BY <3>1, <1>2
  <2>2. CASE s # NULL /\ sdp.client.for = "vendor"
    <3>1. z = uni_bt_sdp_query_start_hid_descriptor(g, s)
        BY <2>2 DEF queryComplete
    <3>2. s \in Slots
        BY <2>2, <1>3
    <3> HIDE DEF w, x, s, z
    <3>3. Steady(w, g, s)
        BY <1>2, <1>3, <3>2, GuessSteady
    <3> HIDE DEF g
    <3>. QED
        BY <3>1, <3>2, <3>3, StartDescriptorSound DEF Steady
  <2>3. CASE s # NULL /\ sdp.client.for # "vendor"
    <3>1. z = uni_bt_sdp_query_end(w, s)
        BY <2>3 DEF queryComplete
    <3>2. s \in Slots
        BY <2>3, <1>3
    <3> HIDE DEF w, s, z
    <3>. QED
        BY <1>2, <3>1, <3>2, QueryEndSound
  <2>. QED
      BY <2>1, <2>2, <2>3
<1> HIDE DEF z
<1>5. Become(z)
    BY DEF z
<1>. QED
    BY <1>4, <1>5, BecomeSound

(* What the guards say of the channels of a controller.                    *)
LEMMA TakenFacts ==
    ASSUME Sound(Now), NEW a, NEW psm
    PROVE  /\ ~Taken(a, psm) => NoneTaken(Now, a, psm)
           /\ Open(a, psm) => \E d \in Cids : Now.stack.chan[d].a = a /\ Now.stack.chan[d].psm = psm
                                              /\ Now.stack.chan[d].st = "open"
<1>1. \A d \in Cids : stack.chan[d] \in BtChannel
    BY NowFields DEF Sound, BtStates, BtStack
<1>2. ASSUME NEW d \in Cids, stack.chan[d].a = a, stack.chan[d].psm = psm, IsTaken(stack.chan[d])
      PROVE  Taken(a, psm)
  <2>1. stack.chan[d] \in [a : {a}, psm : {psm}, st : {"accepted", "open"}]
      BY <1>1, <1>2 DEF BtChannel, IsTaken
  <2>. QED
      BY <2>1 DEF Taken
<1>3. ~Taken(a, psm) => NoneTaken(Now, a, psm)
    BY <1>2, NowFields DEF NoneTaken
<1>4. Open(a, psm) => \E d \in Cids : Now.stack.chan[d].a = a /\ Now.stack.chan[d].psm = psm
                                              /\ Now.stack.chan[d].st = "open"
    BY NowFields DEF Open
<1>. QED
    BY <1>3, <1>4

(* A link that begins to close keeps the invariant. *)
LEMMA LinkLostSound ==
    ASSUME Sound(Now), NEW a \in Addresses, linkLost(a)
    PROVE  Sound(Now')
<1> DEFINE chan == [c \in Cids |-> IF stack.chan[c].a = a THEN broken(stack.chan[c]) ELSE stack.chan[c]]
           b == sdp.client.a = a
           y == [stack EXCEPT !.link[a] = "closing", !.chan = chan]
           d == [sdp EXCEPT !.client.lost = b]
           z == [Now EXCEPT !.stack.link[a] = "closing", !.stack.chan = chan, !.sdp.client.lost = b]
           x == [Now EXCEPT !.stack = y, !.sdp = d]
<1>1. Now \in BtStates /\ Addressed(Now) /\ Linked(Now) /\ SdpKept(Now) /\ Counted(Now) /\ stack \in BtStack
      /\ sdp \in BtSdp /\ \A s \in Slots : Kept(Now, s) /\ Now.rec[s] \in BtRec
    BY NowFields DEF Sound, Orderly, BtStates
<1>c. Calm
    BY DEF linkLost
<1>2. Become(z)
  <2>1. Become([Now EXCEPT
          !.stack.link[a] = "closing",
          !.stack.chan = [c \in Cids |-> IF @[c].a = a THEN broken(@[c]) ELSE @[c]],
          !.sdp.client.lost = sdp.client.a = a])
      BY DEF linkLost
  <2> DEFINE e == [Now EXCEPT !.stack.link[a] = "closing"]
  <2>2. e.stack.chan = stack.chan
      BY <1>1, NowFields DEF BtStates, BtStack
  <2>3. Become([e EXCEPT
          !.stack.chan = [c \in Cids |-> IF e.stack.chan[c].a = a THEN broken(e.stack.chan[c]) ELSE e.stack.chan[c]],
          !.sdp.client.lost = sdp.client.a = a])
      BY <2>1
  <2>4. z = [e EXCEPT !.stack.chan = chan, !.sdp.client.lost = sdp.client.a = a]
      OBVIOUS
  <2> HIDE DEF e, z
  <2>. QED
      BY <2>2, <2>3, <2>4
<1>3. \A c \in Cids : /\ chan[c] \in BtChannel /\ chan[c].a = stack.chan[c].a /\ chan[c].psm = stack.chan[c].psm
                      /\ stack.chan[c].a # a => chan[c].st = stack.chan[c].st
                      /\ stack.chan[c].a = a => chan[c].st = IF stack.chan[c].st = "requested" THEN "failing" ELSE "closing"
  <2>1. \A c \in Cids : stack.chan[c] \in BtChannel
      BY <1>1 DEF BtStack
  <2>. QED
      BY <2>1 DEF BtChannel, broken
<1>4. chan = [c \in Cids |-> chan[c]] /\ b \in BOOLEAN
    OBVIOUS
<1> HIDE DEF chan, b
<1>5. y \in BtStack /\ y.chan = chan /\ y.link = [stack.link EXCEPT ![a] = "closing"]
      /\ stack.link \in [Addresses -> {"down", "requested", "up", "closing"}]
    BY <1>1, <1>3, <1>4 DEF BtStack
<1>6. d \in BtSdp /\ d.device = sdp.device /\ d.timer = sdp.timer
    BY <1>1, <1>4 DEF BtSdp
<1>7. z = x
    BY <1>1, NowFields DEF BtStates, BtStack, BtSdp
<1> HIDE DEF y, d, z
<1>8. x \in BtStates /\ x.rec = Now.rec /\ x.seats = Now.seats /\ x.stack = y /\ x.sdp = d
    BY <1>1, <1>5, <1>6 DEF BtStates
<1> HIDE DEF x
<1>9. \A e \in Addresses : x.stack.link[e] = IF e = a THEN "closing" ELSE stack.link[e]
    BY <1>5, <1>8
<1>10. \A c \in Cids : stack.chan[c].st # "free" => stack.chan[c].a \in Addresses /\ stack.chan[c].psm \in Fields
    BY <1>c, CalmFacts
<1>11. Addressed(x)
  <2>1. \A c \in Cids : chan[c] # NoChannel => chan[c].a \in Addresses /\ chan[c].psm \in Fields /\ chan[c].st # "free"
    <3> SUFFICES ASSUME NEW c \in Cids, chan[c] # NoChannel
                 PROVE  chan[c].a \in Addresses /\ chan[c].psm \in Fields /\ chan[c].st # "free"
        OBVIOUS
    <3>1. stack.chan[c] # NoChannel
      <4>1. NoChannel.a = NoAddress /\ NoChannel.psm = "none" /\ NoChannel.st = "free" /\ NoAddress # a
          BY BtConstants DEF NoChannel
      <4>2. stack.chan[c] = NoChannel => chan[c] = NoChannel
          BY <4>1 DEF chan
      <4>. QED
          BY <4>2
    <3>2. stack.chan[c].a \in Addresses /\ stack.chan[c].psm \in Fields /\ stack.chan[c].st # "free"
        BY <3>1, <1>1, NowFields DEF Addressed
    <3>. QED
        BY <3>2, <1>3
  <2>. QED
      BY <2>1, <1>1, <1>5, <1>8 DEF Addressed
<1>12. Linked(x)
  <2>a. \A c \in Cids : stack.chan[c].st \notin {"failing", "closing"}
      BY <1>c, CalmFacts
  <2>b. \A c \in Cids : x.stack.chan[c] = chan[c]
      BY <1>5, <1>8
  <2>c. \A c \in Cids : IsTaken(chan[c]) => stack.chan[c].a # a /\ IsTaken(stack.chan[c]) /\ chan[c].st = stack.chan[c].st
      BY <1>3 DEF IsTaken
  <2>1. \A c \in Cids : x.stack.chan[c].st \in {"failing", "closing"} => x.stack.link[x.stack.chan[c].a] = "closing"
      BY <2>a, <2>b, <1>3, <1>9, <1>10
  <2>2. \A c \in Cids : IsTaken(x.stack.chan[c]) => x.stack.link[x.stack.chan[c].a] # "closing"
    <3>1. \A c \in Cids : IsTaken(stack.chan[c]) => stack.chan[c].a \in Addresses /\ stack.link[stack.chan[c].a] # "closing"
        BY <1>1, <1>10, NowFields DEF Linked, IsTaken
    <3>. QED
        BY <3>1, <2>b, <2>c, <1>3, <1>9
  <2>3. \A c, e \in Cids : IsTaken(x.stack.chan[c]) /\ IsTaken(x.stack.chan[e]) /\ x.stack.chan[c].a = x.stack.chan[e].a
                              /\ x.stack.chan[c].psm = x.stack.chan[e].psm => c = e
    <3>1. \A c, e \in Cids : IsTaken(stack.chan[c]) /\ IsTaken(stack.chan[e]) /\ stack.chan[c].a = stack.chan[e].a
                              /\ stack.chan[c].psm = stack.chan[e].psm => c = e
        BY <1>1, NowFields DEF Linked
    <3>. QED
        BY <3>1, <2>b, <2>c, <1>3
  <2>4. ASSUME NEW c \in Cids, x.stack.chan[c].psm = "interrupt", x.stack.chan[c].st = "open"
        PROVE  \E e \in Cids : x.stack.chan[e].psm = "control" /\ x.stack.chan[e].st = "open" /\ x.stack.chan[e].a = x.stack.chan[c].a
    <3>1. stack.chan[c].psm = "interrupt" /\ stack.chan[c].st = "open" /\ stack.chan[c].a # a
        BY <2>4, <2>b, <2>c, <1>3 DEF IsTaken
    <3>2. PICK e \in Cids : stack.chan[e].psm = "control" /\ stack.chan[e].st = "open" /\ stack.chan[e].a = stack.chan[c].a
        BY <3>1, <1>1, NowFields DEF Linked
    <3>. QED
        BY <3>1, <3>2, <2>b, <1>3
  <2>. QED
      BY <2>1, <2>2, <2>3, <2>4 DEF Linked
<1>13. ASSUME NEW t \in Slots PROVE Kept(x, t)
  <2>1. Kept(Now, t) /\ Now.rec[t] \in BtRec
      BY <1>1
  <2>b. \A c \in Cids : x.stack.chan[c] = chan[c]
      BY <1>5, <1>8
  <2>2. OwnChannels(x, t)
    <3>1. /\ rec[t].control # NULL => rec[t].control \in Cids /\ stack.chan[rec[t].control].a = rec[t].addr /\ stack.chan[rec[t].control].psm = "control"
          /\ rec[t].interrupt # NULL => rec[t].interrupt \in Cids /\ stack.chan[rec[t].interrupt].a = rec[t].addr /\ stack.chan[rec[t].interrupt].psm = "interrupt"
        BY <2>1, NowFields DEF Kept, OwnChannels, Fields, BtRec
    <3>. QED
        BY <3>1, <2>b, <1>3, <1>8, NowFields DEF OwnChannels, Fields
  <2>3. rec[t].seat # "zero" => rec[t].interrupt \in Cids /\ stack.chan[rec[t].interrupt].st \in {"open", "closing"}
      BY <2>1, NowFields DEF Kept, Standing, BtRec
  <2>4. rec[t].seat # "zero" => chan[rec[t].interrupt].st \in {"open", "closing"}
      BY <2>3, <1>3
  <2>. QED
      BY <2>1, <2>2, <2>3, <2>4, <2>b, <1>8, NowFields DEF Kept
<1>14. SdpKept(x) /\ Counted(x)
    BY <1>1, <1>6, <1>8, NowFields DEF SdpKept, Counted
<1>15. Sound(x)
    BY <1>8, <1>11, <1>12, <1>13, <1>14 DEF Sound, Orderly
<1>. QED
    BY <1>2, <1>7, <1>15, BecomeSound

(* A link that is closed keeps the invariant. *)
LEMMA DisconnectedSound ==
    ASSUME Sound(Now), NEW a \in Addresses, disconnection_complete(a)
    PROVE  Sound(Now')
<1> DEFINE w == [Now EXCEPT !.stack.link[a] = "down"]
           s == Device(a)
           u == uni_hid_device_delete(w, s)
           z == IF s # NULL /\ rec[s].handle THEN u ELSE w
<1>1. Become(z) /\ stack.link[a] = "closing" /\ \A c \in Cids : stack.chan[c].st \notin {"failing", "closing"}
    BY DEF disconnection_complete
<1>2. Sound(w) /\ w.rec = Now.rec
    BY <1>1, LinkSound, NowFields
<1>3. CASE s = NULL
  <2>1. Become(w)
      BY <1>1, <1>3
  <2> HIDE DEF w
  <2>. QED
      BY <1>2, <2>1, BecomeSound
<1>4. CASE s # NULL
  <2>1. s \in Slots /\ rec[s].addr = a
      BY <1>4, DeviceFound, NowFields DEF Device
  <2>2. rec[s].seat = "zero" /\ ~rec[s].connected
    <3>1. Now.rec[s] \in BtRec /\ Kept(Now, s) /\ Standing(Now.rec[s]) /\ Linked(Now)
        BY <2>1, RecordIsTyped
    <3>2. rec[s].seat # "zero" => rec[s].interrupt \in Cids /\ rec[s].interrupt # NULL /\ stack.chan[rec[s].interrupt].st = "open"
        BY <1>1, <3>1, NowFields DEF Kept, Standing, BtRec
    <3>3. rec[s].seat # "zero" => stack.chan[rec[s].interrupt].a = a
        BY <2>1, <3>1, <3>2, NowFields DEF Kept, OwnChannels, Fields
    <3>4. rec[s].seat = "zero"
        BY <1>1, <3>1, <3>2, <3>3, NowFields DEF Linked, IsTaken
    <3>. QED
        BY <3>1, <3>4, NowFields DEF Standing
  <2>3. w.rec[s].seat = "zero" /\ ~w.rec[s].connected
      BY <1>2, <2>2, NowFields
  <2>5. w \in BtStates
      BY <1>2 DEF Sound
  <2> HIDE DEF w, s
  <2>4. Cleared(w, u, s)
      BY <2>1, <2>3, <2>5, DeleteClears
  <2> HIDE DEF u
  <2>6. Sound(u)
      BY <1>2, <2>1, <2>4, SoundIsDroppable, ClearedIsSound
  <2>7. Sound(z)
      BY <1>2, <2>6
  <2> HIDE DEF z
  <2>. QED
      BY <1>1, <2>7, BecomeSound
<1>. QED
    BY <1>3, <1>4

(* The timeout of a name request keeps the invariant. *)
LEMMA NameTimeoutSound ==
    ASSUME Sound(Now), NEW s \in Slots, inquiry_remote_name_timeout_callback(s)
    PROVE  Sound(Now')
<1> DEFINE u == set(Now, s, "name_timer", FALSE)
           v == later(u, s)
           z == nameFetched(v, s, "plain")
<1>1. Become(z) /\ rec[s].name_timer
    BY DEF inquiry_remote_name_timeout_callback
<1>2. Now.rec[s].addr # NoAddress
    BY <1>1, RecordIsTyped, NowFields DEF Absent
<1>3. Steady(Now, u, s)
    BY SetNameTimer
<1> HIDE DEF u
<1>4. Steady(u, v, s)
    BY <1>3, LaterSteady DEF Steady
<1> HIDE DEF v
<1>5. Sound(v) /\ v.rec[s].addr # NoAddress
    BY <1>2, <1>3, <1>4 DEF Steady
<1>6. Sound(z)
    BY <1>5, NameFetchedSound DEF Names
<1> HIDE DEF z
<1>. QED
    BY <1>1, <1>6, BecomeSound

(* The timeout of a connection keeps the invariant. *)
LEMMA ConnectionTimeoutSound ==
    ASSUME Sound(Now), NEW s \in Slots, device_connection_timeout(s)
    PROVE  Sound(Now')
<1> DEFINE q == Now.rec[s]
           r == [q EXCEPT !.connection_timer = FALSE]
           w == set(Now, s, "connection_timer", FALSE)
           z == IF rec[s].state = "READY" THEN w ELSE drop(w, s)
<1>1. Become(z)
    BY DEF device_connection_timeout
<1>2. Now \in BtStates /\ q \in BtRec /\ Standing(q) /\ Absent(q) /\ Addressed(Now) /\ Linked(Now) /\ SdpKept(Now) /\ Counted(Now)
    BY RecordIsTyped
<1>3. Wrote(Now, w, s, r)
    BY <1>2 DEF set, BtStates, Wrote
<1>q. rec[s].state = q.state
    BY NowFields
<1> HIDE DEF q, w
<1>4. r \in BtRec
    BY <1>2 DEF BtRec
<1>5. SameLine(q, r) /\ Absent(r) /\ (q.state = "READY" => Standing(r))
    BY <1>2 DEF BtRec, SameLine, Standing, Absent
<1> HIDE DEF r
<1>6. CASE q.state = "READY"
  <2>1. Sound(w)
      BY <1>3, <1>4, <1>5, <1>6, Rewrite DEF q
  <2>2. z = w
      BY <1>6, <1>q
  <2> HIDE DEF z
  <2>. QED
      BY <1>1, <2>1, <2>2, BecomeSound
<1>7. CASE q.state # "READY"
  <2>1. w \in BtStates /\ Alike(Now, w, s) /\ w.sdp = Now.sdp /\ w.stack = Now.stack /\ w.rec[s] = r
      BY <1>2, <1>3, <1>4, WroteFields
  <2>2. Droppable(Now, s)
      BY SoundIsDroppable
  <2>3. Addressed(w)
      BY <1>2, <1>5, <2>1 DEF Addressed, Alike, SameLine, q
  <2>4. Linked(w) /\ SdpKept(w)
      BY <1>2, <2>1 DEF Linked, SdpKept
  <2>5. Counted(w)
    <3>1. \A t \in Slots : w.rec[t].seat = Now.rec[t].seat
        BY <2>1, <1>5 DEF Alike, SameLine, q
    <3>2. {t \in Slots : w.rec[t].seat = "taken"} = {t \in Slots : Now.rec[t].seat = "taken"}
        BY <3>1
    <3>. QED
        BY <3>2, <1>2, <2>1 DEF Counted, Alike
  <2>6. \A t \in Slots : t # s => Kept(w, t)
      BY <2>1, <2>2 DEF Droppable, Kept, OwnChannels, Alike
  <2>7. Droppable(w, s)
    <3>1. \A t \in Slots : t # s => w.rec[t] = Now.rec[t]
        BY <2>1 DEF Alike
    <3>. QED
        BY <2>1, <2>2, <2>3, <2>4, <2>5, <2>6, <3>1, <1>5 DEF Droppable, SameLine, q
  <2>8. Sound(drop(w, s))
      BY <2>7, Drops
  <2>9. Become(drop(w, s))
      BY <1>1, <1>7, <1>q
  <2>. QED
      BY <2>8, <2>9, BecomeSound
<1>. QED
    BY <1>6, <1>7

(* The timeout of the query keeps the invariant. *)
LEMMA QueryTimeoutSound ==
    ASSUME Sound(Now), sdp_query_timeout
    PROVE  Sound(Now')
<1> DEFINE d == [sdp EXCEPT !.timer = NULL, !.device = NULL]
           z == [Now EXCEPT !.sdp = d]
<1>1. Now \in BtStates /\ sdp \in BtSdp /\ sdp.device = sdp.timer
    BY NowFields DEF Sound, Orderly, BtStates, SdpKept
<1>2. Become([Now EXCEPT !.sdp.timer = NULL, !.sdp.device = IF @ = sdp.timer THEN NULL ELSE @])
    BY DEF sdp_query_timeout
<1>3. [Now EXCEPT !.sdp.timer = NULL, !.sdp.device = IF @ = sdp.timer THEN NULL ELSE @] = z
  <2> DEFINE e == [Now EXCEPT !.sdp.timer = NULL]
  <2>1. e.sdp.device = sdp.timer
      BY <1>1, NowFields DEF BtStates, BtSdp
  <2>2. [Now EXCEPT !.sdp.timer = NULL, !.sdp.device = IF @ = sdp.timer THEN NULL ELSE @]
          = [e EXCEPT !.sdp.device = NULL]
      BY <2>1
  <2>3. [e EXCEPT !.sdp.device = NULL] = z
      BY <1>1, NowFields DEF BtStates, BtSdp
  <2>. QED
      BY <2>2, <2>3
<1>4. d \in BtSdp /\ d.device = NULL /\ d.timer = NULL
    BY <1>1 DEF BtSdp
<1> HIDE DEF d
<1>5. z \in BtStates /\ z.rec = Now.rec /\ z.seats = Now.seats /\ z.stack = Now.stack /\ z.sdp = d
    BY <1>1, <1>4 DEF BtStates
<1>6. Sound(z)
    BY <1>4, <1>5, Besides DEF SdpKept
<1> HIDE DEF z
<1>. QED
    BY <1>2, <1>3, <1>6, BecomeSound

(* The end of the parser's set-up keeps the invariant. *)
LEMMA ParserDoneSound ==
    ASSUME Sound(Now), NEW s \in Slots, parserDone(s)
    PROVE  Sound(Now')
<1> DEFINE u == set(Now, s, "parsing", FALSE)
           z == uni_hid_device_set_ready_complete(u, s)
<1>1. Become(z)
    BY DEF parserDone
<1>2. Steady(Now, u, s)
    BY SetParsing
<1> HIDE DEF u
<1>3. Sound(z)
    BY <1>2, ReadyCompleteSound DEF Steady
<1> HIDE DEF z
<1>. QED
    BY <1>1, <1>3, BecomeSound

(* A channel that opens keeps the invariant. *)
LEMMA ChannelOpenedSound ==
    ASSUME Sound(Now), NEW c \in Cids, channelOpened(c)
    PROVE  Sound(Now')
<1> DEFINE h == stack.chan[c]
           s == Device(h.a)
           w == [Now EXCEPT !.stack.chan[c].st = "open"]
<1>1. Calm /\ h.st \in {"requested", "accepted"} /\ (h.psm = "interrupt" => Open(h.a, "control"))
      /\ (h.st = "requested" => ~Taken(h.a, h.psm))
    BY DEF channelOpened
<1>2. h.a \in Addresses /\ h.psm \in Fields
    BY <1>1, CalmFacts
<1>3. Now.stack.link[h.a] # "closing"
    BY <1>1, <1>2, CalmFacts
<1>4. /\ h.st = "requested" => NoneTaken(Now, h.a, h.psm)
      /\ h.psm = "interrupt" => \E d \in Cids : Now.stack.chan[d].a = h.a /\ Now.stack.chan[d].psm = "control"
                                                /\ Now.stack.chan[d].st = "open"
    BY <1>1, TakenFacts
<1>5. Sound(w) /\ w.rec = Now.rec /\ w.stack.link = Now.stack.link /\ w.stack.chan[c].a = h.a
      /\ w.stack.chan[c].psm = h.psm /\ w.stack.chan[c].st = "open"
  <2>1. Now.stack.chan[c] = h /\ Opens(Now, w, c)
      BY NowFields DEF Opens
  <2> HIDE DEF h, w
  <2>2. MayOpen(Now, c, h)
      BY <2>1, <1>1, <1>3, <1>4 DEF MayOpen
  <2>. QED
      BY <2>1, <2>2, OpenedSound
<1>6. CASE s = NULL
  <2>1. Become(w)
      BY <1>6 DEF channelOpened
  <2> HIDE DEF w
  <2>. QED
      BY <1>5, <2>1, BecomeSound
<1>7. CASE s # NULL
  <2>1. s \in Slots /\ Now.rec[s].addr = h.a
      BY <1>7, DeviceFound DEF Device
  <2>2. Now.rec[s].seat = "zero" /\ ~Now.rec[s].connected
    <3>1. SUFFICES ASSUME Now.rec[s].seat # "zero" \/ Now.rec[s].connected PROVE FALSE
        OBVIOUS
    <3>2. PICK d \in Cids : Now.stack.chan[d].a = h.a /\ Now.stack.chan[d].psm = h.psm /\ Now.stack.chan[d].st = "open"
        BY <3>1, <2>1, <1>2, <1>3, ConnectedHasChannels
    <3>3. CASE h.st = "requested"
        BY <3>2, <3>3, <1>4 DEF NoneTaken, IsTaken
    <3>4. CASE h.st = "accepted"
      <4>1. Linked(Now)
          BY DEF Sound, Orderly
      <4>2. IsTaken(Now.stack.chan[d]) /\ IsTaken(Now.stack.chan[c])
          BY <3>2, <3>4, NowFields DEF IsTaken
      <4>3. d = c
          BY <3>2, <4>1, <4>2, NowFields DEF Linked
      <4>. QED
          BY <3>2, <3>4, <4>3, NowFields
    <3>. QED
        BY <3>3, <3>4, <1>1
  <2> DEFINE u == set(w, s, h.psm, c)
             open == later(u, s)
             q == w.rec[s]
  <2>3. q \in BtRec /\ Standing(q) /\ Absent(q) /\ Kept(w, s) /\ w \in BtStates
      BY <1>5, <2>1, RecordIsTyped
  <2>4. q.seat = "zero" /\ ~q.connected /\ q.addr = h.a /\ h.a # NoAddress
      BY <1>5, <1>2, <2>1, <2>2, BtConstants
  <2>5. OwnChannels(w, s)
      BY <2>3 DEF Kept
  <2>6. CASE h.psm = "control"
    <3> DEFINE r == [q EXCEPT !.control = c]
               v == set(open, s, "state", "CONTROL_CONNECTED")
               z == uni_bluetooth_process_fsm(v, s)
    <3>1. Become(z)
        BY <1>7, <2>6 DEF channelOpened
    <3>2. Wrote(w, u, s, r)
        BY <2>3, <2>6 DEF set, BtStates, Wrote
    <3>3. w.stack.chan[c].a = q.addr /\ w.stack.chan[c].psm = "control"
        BY <1>5, <2>4, <2>6
    <3>4. q.interrupt # NULL => w.stack.chan[q.interrupt].a = q.addr /\ w.stack.chan[q.interrupt].psm = "interrupt"
        BY <2>5 DEF OwnChannels, Fields
    <3> HIDE DEF q, w, u, open, s, h, v
    <3>5. r \in BtRec
        BY <2>3 DEF BtRec
    <3>6. r.addr = q.addr /\ r.seat = "zero" /\ ~r.connected /\ r.control = c /\ r.interrupt = q.interrupt
        BY <2>3, <2>4 DEF BtRec
    <3>7. Standing(r)
        BY <2>3, <2>4, <3>6 DEF Standing, BtRec
    <3> HIDE DEF r
    <3>8. Absent(r) /\ Notes(w, r)
        BY <2>4, <3>3, <3>4, <3>6 DEF Absent, Notes
    <3>9. Sound(u) /\ u.rec[s] = r
        BY <1>5, <2>1, <2>4, <3>2, <3>5, <3>6, <3>7, <3>8, NotesSound DEF q
    <3>10. Steady(u, open, s)
        BY <2>1, <3>9, LaterSteady DEF open
    <3>11. Sound(open) /\ ~open.rec[s].connected /\ open.rec[s].addr # NoAddress
        BY <2>4, <3>6, <3>9, <3>10 DEF Steady, SameLine
    <3>12. Steady(open, v, s)
        BY <2>1, <3>11, SetState DEF States, v
    <3>13. Sound(z)
        BY <2>1, <3>11, <3>12, FsmSound DEF Steady
    <3> HIDE DEF z
    <3>. QED
        BY <3>1, <3>13, BecomeSound
  <2>7. CASE h.psm = "interrupt"
    <3> DEFINE r == [q EXCEPT !.interrupt = c]
               p == open.rec[s]
               r3 == [p EXCEPT !.state = "INTERRUPT_CONNECTED", !.connected = TRUE, !.seat = "none"]
               v == [open EXCEPT !.rec[s].state = "INTERRUPT_CONNECTED",
                                 !.rec[s].connected = TRUE, !.rec[s].seat = "none"]
               z == uni_bluetooth_process_fsm(v, s)
    <3>1. Become(z)
        BY <1>7, <2>7 DEF channelOpened
    <3>2. Wrote(w, u, s, r)
        BY <2>3, <2>7 DEF set, BtStates, Wrote
    <3>3. w.stack.chan[c].a = q.addr /\ w.stack.chan[c].psm = "interrupt" /\ w.stack.chan[c].st = "open"
        BY <1>5, <2>4, <2>7
    <3>4. q.control # NULL => w.stack.chan[q.control].a = q.addr /\ w.stack.chan[q.control].psm = "control"
        BY <2>5 DEF OwnChannels, Fields
    <3> HIDE DEF q, w, u, open, s, h
    <3>5. r \in BtRec
        BY <2>3 DEF BtRec
    <3>6. r.addr = q.addr /\ r.seat = "zero" /\ ~r.connected /\ r.interrupt = c /\ r.control = q.control
        BY <2>3, <2>4 DEF BtRec
    <3>7. Standing(r)
        BY <2>3, <2>4, <3>6 DEF Standing, BtRec
    <3> HIDE DEF r
    <3>8. Absent(r) /\ Notes(w, r)
        BY <2>4, <3>3, <3>4, <3>6 DEF Absent, Notes
    <3>9. Sound(u) /\ u.rec[s] = r /\ u.stack = w.stack
        BY <1>5, <2>1, <2>4, <3>2, <3>5, <3>6, <3>7, <3>8, NotesSound DEF q
    <3>10. Steady(u, open, s)
        BY <2>1, <3>9, LaterSteady DEF open
    <3>11. Sound(open) /\ open.stack = w.stack /\ p.addr = q.addr /\ p.interrupt = c /\ p.control = q.control /\ p.seat = "zero"
        BY <3>6, <3>9, <3>10 DEF Steady, SameLine
    <3>12. open \in BtStates /\ p \in BtRec /\ Standing(p)
        BY <2>1, <3>11, RecordIsTyped
    <3>13. Wrote(open, v, s, r3)
      <4> DEFINE p1 == [p EXCEPT !.state = "INTERRUPT_CONNECTED"]
                 v1 == [open EXCEPT !.rec[s].state = "INTERRUPT_CONNECTED"]
      <4>1. v1 = [open EXCEPT !.rec[s] = p1]
          BY <3>12 DEF BtStates
      <4>2. p1 \in BtRec
          BY <3>12 DEF BtRec, States
      <4>3. r3 = [p1 EXCEPT !.connected = TRUE, !.seat = "none"]
          OBVIOUS
      <4>4. v = [v1 EXCEPT !.rec[s].connected = TRUE, !.rec[s].seat = "none"]
          OBVIOUS
      <4> HIDE DEF p, p1, r3, v1, v
      <4>5. v1 \in BtStates /\ v1.rec[s] = p1
          BY <2>1, <3>12, <4>1, <4>2 DEF BtStates
      <4>6. v = [v1 EXCEPT !.rec[s] = r3]
          BY <4>3, <4>4, <4>5 DEF BtStates
      <4>7. [v1 EXCEPT !.rec[s] = r3] = [open EXCEPT !.rec[s] = r3]
          BY <3>12, <4>1 DEF BtStates
      <4>. QED
          BY <4>6, <4>7 DEF Wrote
    <3> HIDE DEF p, v
    <3>14. r3 \in BtRec
        BY <3>12 DEF BtRec, States
    <3>15. r3.addr = p.addr /\ r3.seat = "none" /\ r3.connected /\ r3.interrupt = p.interrupt /\ r3.control = p.control
           /\ r3.state = "INTERRUPT_CONNECTED" /\ r3.connection_timer = p.connection_timer
        BY <3>12 DEF BtRec
    <3>n. c # NULL
        BY BtConstants DEF Cids, NULL
    <3> HIDE DEF r3
    <3>16. Standing(r3)
        BY <3>n, <3>11, <3>12, <3>15 DEF Standing
    <3>17. Absent(r3) /\ Notes(open, r3)
        BY <2>4, <3>3, <3>4, <3>11, <3>15 DEF Absent, Notes
    <3>18. Sound(v) /\ v.rec[s] = r3
        BY <2>1, <3>11, <3>13, <3>14, <3>15, <3>16, <3>17, NotesSound DEF p
    <3>19. v.rec[s].addr # NoAddress
        BY <2>4, <3>11, <3>15, <3>18
    <3>20. Sound(z)
        BY <2>1, <3>18, <3>19, FsmSound
    <3> HIDE DEF z
    <3>. QED
        BY <3>1, <3>20, BecomeSound
  <2>. QED
      BY <2>6, <2>7, <1>2 DEF Fields
<1>. QED
    BY <1>6, <1>7

(* An incoming channel keeps the invariant. *)
LEMMA IncomingSound ==
    ASSUME Sound(Now), NEW a \in Addresses, NEW psm \in {"control", "interrupt"}, on_l2cap_incoming_connection(a, psm)
    PROVE  Sound(Now')
<1> DEFINE s == Device(a)
           v == IF s # NULL /\ rec[s].state = "READY" THEN drop(Now, s) ELSE Now
           w == IF psm = "control" THEN withRecord(v, a) ELSE v
           d == deviceFor(w, a)
           c == Min(freshCids(Now))
           h == [a |-> a, psm |-> psm, st |-> "accepted"]
           accepted == [w EXCEPT !.stack.chan[c] = h, !.rec[d][psm] = c]
           z == CASE d = NULL -> w
                  [] d # NULL /\ psm = "control" ->
                       [accepted EXCEPT !.rec[d].handle = TRUE, !.rec[d].incoming = TRUE]
                  [] OTHER -> accepted
<1>1. Become(z) /\ Calm /\ stack.link[a] = "up" /\ ~Taken(a, psm) /\ freshCids(Now) # {}
    BY DEF on_l2cap_incoming_connection
<1>2. c \in Cids /\ c # NULL /\ Now.stack.chan[c] = NoChannel
      /\ \A t \in Slots : Now.rec[t].interrupt # c /\ Now.rec[t].control # c
    BY <1>1, FreshCid
<1>3. NoneTaken(Now, a, psm)
    BY <1>1, TakenFacts
<1>n. NoChannel.st = "free"
    BY DEF NoChannel
<1> HIDE DEF c
<1>4. /\ Sound(v) /\ v.stack.link = Now.stack.link /\ v.stack.chan[c] = NoChannel
      /\ NoneTaken(v, a, psm)
      /\ \A t \in Slots : v.rec[t].interrupt # c /\ v.rec[t].control # c
  <2>1. CASE s # NULL /\ rec[s].state = "READY"
    <3>1. s \in Slots
        BY <2>1, DeviceFound DEF Device
    <3>2. Now \in BtStates /\ Standing(Now.rec[s])
        BY <3>1, RecordIsTyped
    <3>3. v = drop(Now, s)
        BY <2>1
    <3> HIDE DEF v, s
    <3>4. Sound(v)
        BY <3>1, <3>3, SoundDrop
    <3>5. Cleared(Now, v, s)
        BY <3>1, <3>2, <3>3, DropClears DEF Standing
    <3>6. \A e \in Cids : v.stack.chan[e] = Now.stack.chan[e] \/ v.stack.chan[e] = NoChannel
        BY <3>5 DEF Cleared
    <3>7. \A t \in Slots : v.rec[t] = Now.rec[t] \/ v.rec[t] = Zeros
        BY <3>5 DEF Cleared
    <3>8. Zeros.control = NULL /\ Zeros.interrupt = NULL
        BY DEF Zeros
    <3>9. NoneTaken(v, a, psm)
        BY <1>3, <1>n, <3>6 DEF NoneTaken, IsTaken
    <3>10. v.stack.link = Now.stack.link
        BY <3>5 DEF Cleared
    <3>. QED
        BY <1>2, <3>4, <3>6, <3>7, <3>8, <3>9, <3>10
  <2>2. CASE ~(s # NULL /\ rec[s].state = "READY")
    <3>1. v = Now
        BY <2>2
    <3> HIDE DEF v
    <3>. QED
        BY <3>1, <1>2, <1>3
  <2>. QED
      BY <2>1, <2>2
<1> HIDE DEF v
<1>5. /\ Sound(w) /\ w.stack = v.stack
      /\ \A t \in Slots : w.rec[t] = v.rec[t] \/ (w.rec[t].control = NULL /\ w.rec[t].interrupt = NULL)
    BY <1>4, WithRecordSound
<1> HIDE DEF w
<1>6. /\ w.stack.chan[c] = NoChannel /\ NoneTaken(w, a, psm) /\ w.stack.link[a] = "up"
      /\ \A t \in Slots : w.rec[t].interrupt # c /\ w.rec[t].control # c
    BY <1>1, <1>2, <1>4, <1>5, NowFields DEF NoneTaken
<1>7. CASE d = NULL
  <2>1. z = w
      BY <1>7
  <2> HIDE DEF z
  <2>. QED
      BY <1>1, <1>5, <2>1, BecomeSound
<1>8. CASE d # NULL
  <2>1. d \in Slots /\ w.rec[d].addr = a
      BY <1>8, DeviceFound
  <2> DEFINE q == w.rec[d]
             r == [q EXCEPT ![psm] = c]
  <2>2. q \in BtRec /\ Standing(q) /\ Absent(q) /\ w \in BtStates
      BY <1>5, <2>1, RecordIsTyped
  <2>3. q.addr = a /\ a # NoAddress
      BY <2>1, BtConstants
  <2>4. psm = "interrupt" => q.seat = "zero"
    <3>1. SUFFICES ASSUME psm = "interrupt", q.seat # "zero" PROVE FALSE
        OBVIOUS
    <3>2. PICK e \in Cids : w.stack.chan[e].a = a /\ w.stack.chan[e].psm = "interrupt" /\ w.stack.chan[e].st = "open"
        BY <3>1, <1>5, <1>6, <2>1, ConnectedHasChannels DEF Fields
    <3>. QED
        BY <3>1, <3>2, <1>6 DEF NoneTaken, IsTaken
  <2>5. Made(w, accepted, d, r, c, h)
    <3> HIDE DEF c, d, h
    <3> DEFINE e == [w EXCEPT !.stack.chan[c] = h]
    <3>1. e.rec = w.rec /\ DOMAIN e = DOMAIN w
        BY <2>2 DEF BtStates
    <3>2. accepted = [e EXCEPT !.rec[d][psm] = c]
        OBVIOUS
    <3>3. [e EXCEPT !.rec[d] = r] = [w EXCEPT !.stack.chan[c] = h, !.rec[d] = r]
        OBVIOUS
    <3>4. "rec" \in DOMAIN e /\ e.rec \in [Slots -> BtRec] /\ e = [k \in DOMAIN e |-> e[k]]
        BY <2>2, <3>1 DEF BtStates
    <3> HIDE DEF e, accepted
    <3>5. accepted = [e EXCEPT !.rec[d] = r]
        BY <3>1, <3>2, <3>4
    <3>. QED
        BY <3>3, <3>5 DEF Made
  <2> HIDE DEF accepted, q, d
  <2>6. /\ r \in BtRec /\ r.addr = q.addr /\ r.seat = q.seat /\ r.connected = q.connected /\ r.state = q.state
        /\ r.connection_timer = q.connection_timer
        /\ psm = "control" => r.control = c /\ r.interrupt = q.interrupt
        /\ psm = "interrupt" => r.interrupt = c /\ r.control = q.control
    <3>1. CASE psm = "control"
      <4> DEFINE p == [q EXCEPT !.control = c]
      <4>1. p \in BtRec
          BY <1>2, <2>2 DEF BtRec
      <4>2. p.addr = q.addr /\ p.seat = q.seat /\ p.connected = q.connected /\ p.state = q.state
            /\ p.connection_timer = q.connection_timer /\ p.control = c /\ p.interrupt = q.interrupt
          BY <2>2 DEF BtRec
      <4>3. r = p
          BY <3>1
      <4> HIDE DEF p
      <4>. QED
          BY <3>1, <4>1, <4>2, <4>3
    <3>2. CASE psm = "interrupt"
      <4> DEFINE p == [q EXCEPT !.interrupt = c]
      <4>1. p \in BtRec
          BY <1>2, <2>2 DEF BtRec
      <4>2. p.addr = q.addr /\ p.seat = q.seat /\ p.connected = q.connected /\ p.state = q.state
            /\ p.connection_timer = q.connection_timer /\ p.interrupt = c /\ p.control = q.control
          BY <2>2 DEF BtRec
      <4>3. r = p
          BY <3>2
      <4> HIDE DEF p
      <4>. QED
          BY <3>2, <4>1, <4>2, <4>3
    <3>. QED
        BY <3>1, <3>2
  <2> HIDE DEF r
  <2>7. Standing(r)
    <3>1. r.seat # "zero" => r.interrupt # NULL
        BY <2>2, <2>4, <2>6 DEF Standing
    <3>. QED
        BY <3>1, <2>2, <2>6 DEF Standing
  <2>8. Noted(q, r, c, psm)
      BY <2>4, <2>6 DEF Noted
  <2>9. Sound(accepted) /\ accepted.rec[d] = r
    <3>1. psm \in Fields /\ h = [a |-> q.addr, psm |-> psm, st |-> "accepted"]
        BY <2>3 DEF Fields
    <3>. QED
        BY <3>1, <1>2, <1>5, <1>6, <2>1, <2>3, <2>5, <2>6, <2>7, <2>8, MadeSound DEF q
  <2>10. CASE psm = "control"
    <3> DEFINE g == set(accepted, d, "handle", TRUE)
               k == set(g, d, "incoming", TRUE)
    <3>1. z = k
        BY <1>8, <2>10 DEF set
    <3>2. Steady(accepted, g, d)
        BY <2>1, <2>9, SetHandle
    <3> HIDE DEF g
    <3>3. Steady(g, k, d)
        BY <2>1, <3>2, SetIncoming DEF Steady
    <3> HIDE DEF k, z
    <3>. QED
        BY <1>1, <3>1, <3>3, BecomeSound DEF Steady
  <2>11. CASE psm = "interrupt"
    <3>1. z = accepted
        BY <1>8, <2>11
    <3> HIDE DEF z
    <3>. QED
        BY <1>1, <2>9, <3>1, BecomeSound
  <2>. QED
      BY <2>10, <2>11
<1>. QED
    BY <1>7, <1>8

(* A channel that fails to open, as a step. *)
LEMMA OpenFailedNow ==
    ASSUME Sound(Now), NEW c \in Cids, stack.chan[c].st \in {"requested", "failing"}, Become(openFailed(Now, c))
    PROVE  Sound(Now')
<1> DEFINE z == openFailed(Now, c)
<1>1. Sound(z)
    BY OpenFailedSound, NowFields
<1>2. Become(z)
    OBVIOUS
<1> HIDE DEF z
<1>. QED
    BY <1>1, <1>2, BecomeSound

(* A channel that closes, as a step. *)
LEMMA ClosedNow ==
    ASSUME Sound(Now), NEW c \in Cids, Become(closed(Now, c)),
           stack.chan[c].st = "closing" \/ (stack.chan[c].psm = "control" => ~Taken(stack.chan[c].a, "interrupt"))
    PROVE  Sound(Now')
<1> DEFINE z == closed(Now, c)
<1>1. stack.chan[c].psm = "control" /\ stack.chan[c].st = "open" => NoneTaken(Now, stack.chan[c].a, "interrupt")
    BY TakenFacts
<1>2. Sound(z)
    BY <1>1, ClosedSound, NowFields
<1>3. Become(z)
    OBVIOUS
<1> HIDE DEF z
<1>. QED
    BY <1>2, <1>3, BecomeSound

(* Every step of this stage keeps the invariant. *)
LEMMA ConnectionStep ==
    ASSUME Sound(Now), Next
    PROVE  Sound(Now')
<1>n. \A a \in Addresses : NameOf[a] \in Names
    BY BtConstants
<1>1. ASSUME NEW a \in Addresses, NEW named \in BOOLEAN, on_gap_inquiry_result(a, named) PROVE Sound(Now')
    BY <1>1, InquirySound
<1>2. ASSUME NEW a \in Addresses, on_hci_connection_request(a) PROVE Sound(Now')
    BY <1>2, RequestSound
<1>3. ASSUME NEW a \in Addresses, on_hci_connection_complete(a) PROVE Sound(Now')
    BY <1>3, CompleteSound
<1>4. ASSUME NEW a \in Addresses, connectionFailed(a) PROVE Sound(Now')
    BY <1>4, ConnectionFailedSound
<1>5. ASSUME NEW a \in Addresses, linkLost(a) PROVE Sound(Now')
    BY <1>5, LinkLostSound
<1>6. ASSUME NEW a \in Addresses, NEW psm \in {"control", "interrupt"}, on_l2cap_incoming_connection(a, psm) PROVE Sound(Now')
    BY <1>6, IncomingSound
<1>7. ASSUME NEW c \in Cids, on_l2cap_channel_opened(c) PROVE Sound(Now')
  <2>1. CASE channelOpened(c)
      BY <2>1, ChannelOpenedSound
  <2>2. CASE stack.chan[c].st = "requested" /\ Become(openFailed(Now, c))
      BY <2>2, OpenFailedNow
  <2>. QED
      BY <1>7, <2>1, <2>2 DEF on_l2cap_channel_opened
<1>8. ASSUME NEW c \in Cids, on_l2cap_channel_closed(c) PROVE Sound(Now')
    BY <1>8, ClosedNow DEF on_l2cap_channel_closed
<1>9. ASSUME NEW answered \in BOOLEAN, handle_sdp_query_result(answered) PROVE Sound(Now')
    BY <1>9, QueryCompleteSound DEF handle_sdp_query_result
<1>10. ASSUME NEW s \in Slots, parserDone(s) PROVE Sound(Now')
    BY <1>10, ParserDoneSound
<1>11. ASSUME Naming PROVE Sound(Now')
  <2>1. stack.naming \in Addresses \cup {NoAddress}
      BY NowFields DEF Sound, BtStates, BtStack
  <2>2. CASE stack.naming # NoAddress /\ remote_name_request_complete(NameOf[stack.naming])
      BY <1>n, <2>1, <2>2, NameCompleteSound
  <2>3. CASE remote_name_request_complete("plain")
      BY <2>3, NameCompleteSound DEF Names
  <2>. QED
      BY <1>11, <2>2, <2>3 DEF Naming
<1>12. ASSUME Closing PROVE Sound(Now')
  <2>1. ASSUME NEW c \in Cids, stack.chan[c].st = "failing", Become(openFailed(Now, c)) PROVE Sound(Now')
      BY <2>1, OpenFailedNow
  <2>2. ASSUME NEW c \in Cids, stack.chan[c].st = "closing", Become(closed(Now, c)) PROVE Sound(Now')
      BY <2>2, ClosedNow
  <2>3. CASE Become(queryComplete(FALSE))
      BY <2>3, QueryCompleteSound
  <2>4. ASSUME NEW a \in Addresses, disconnection_complete(a) PROVE Sound(Now')
      BY <2>4, DisconnectedSound
  <2>. QED
      BY <1>12, <2>1, <2>2, <2>3, <2>4 DEF Closing, l2cap_handle_disconnection_complete
<1>13. ASSUME NEW s \in Slots, Timers(s) PROVE Sound(Now')
    BY <1>13, NameTimeoutSound, ConnectionTimeoutSound DEF Timers
<1>14. CASE sdp_query_timeout
    BY <1>14, QueryTimeoutSound
<1>15. CASE Environment
    BY <1>1, <1>2, <1>3, <1>4, <1>5, <1>6, <1>7, <1>8, <1>9, <1>10, <1>15 DEF Environment
<1>. QED
    BY <1>11, <1>12, <1>13, <1>14, <1>15 DEF Next

(* The invariant holds initially. *)
LEMMA ConnectionInit == Init => Sound(Now)
<1> SUFFICES ASSUME Init PROVE Sound(Now)
    OBVIOUS
<1>1. rec = [s \in Slots |-> Zeros] /\ seats = 0 /\ damaged = "no"
      /\ sdp = [device |-> NULL, timer |-> NULL, client |-> NoQuery]
      /\ stack = [link |-> [a \in Addresses |-> "down"], chan |-> [c \in Cids |-> NoChannel], naming |-> NoAddress]
    BY DEF Init
<1>2. NoChannel.st = "free" /\ NoChannel.psm = "none" /\ NoChannel.a = NoAddress
    BY DEF NoChannel
<1>3. \A s \in Slots : Now.rec[s] = Zeros
    BY <1>1, NowFields
<1>4. \A c \in Cids : Now.stack.chan[c] = NoChannel
    BY <1>1, NowFields
<1>5. Zeros.addr = NoAddress /\ Zeros.control = NULL /\ Zeros.interrupt = NULL /\ Zeros.seat = "zero"
      /\ Zeros.query = "after" /\ ~Zeros.name_timer /\ ~Zeros.connected /\ Zeros.state = "NONE"
    BY DEF Zeros
<1>6. Now \in BtStates
  <2>1. rec \in [Slots -> BtRec]
      BY <1>1, ZerosTyped
  <2>2. sdp \in BtSdp
      BY <1>1, ZerosTyped DEF BtSdp
  <2>3. stack \in BtStack
      BY <1>1, ZerosTyped DEF BtStack
  <2>. QED
      BY <1>1, <2>1, <2>2, <2>3 DEF Now, BtStates
<1>7. Addressed(Now)
    BY <1>3, <1>4, <1>5 DEF Addressed
<1>8. Linked(Now)
    BY <1>2, <1>4 DEF Linked, IsTaken
<1>9. SdpKept(Now)
    BY <1>1, NowFields DEF SdpKept
<1>10. Counted(Now)
  <2>1. {s \in Slots : Now.rec[s].seat = "taken"} = {}
      BY <1>3, <1>5
  <2>. QED
      BY <2>1, <1>1, NowFields, FS_EmptySet DEF Counted
<1>11. \A s \in Slots : Kept(Now, s)
    BY <1>3, <1>5 DEF Kept, OwnChannels, Absent, Standing, Fields
<1>. QED
    BY <1>6, <1>7, <1>8, <1>9, <1>10, <1>11 DEF Sound, Orderly

(* The invariant of the connection holds throughout. *)
THEOREM ConnectionInvariant == SetupSpec => []Sound(Now)
<1>1. SetupInit => Sound(Now)
    BY ConnectionInit DEF SetupInit
<1>2. Sound(Now) /\ [SetupNext]_allVars => Sound(Now)'
  <2>1. Next /\ Sound(Now) => Sound(Now)'
      BY ConnectionStep
  <2>2. UNCHANGED vars /\ Sound(Now) => Sound(Now)'
      BY DEF vars, Now
  <2>3. [SetupNext]_allVars => Next \/ UNCHANGED vars
      BY DEF SetupNext, allVars
  <2>. QED
      BY <2>1, <2>2, <2>3
<1>. QED
    BY <1>1, <1>2, PTL DEF SetupSpec

(* The invariant implies the properties of the connection. *)
LEMMA ConnectionHolds == Sound(Now) => TimerMatchesQuery /\ SeatsCounted /\ SeatHasChannel /\ NeverForgotten
<1> SUFFICES ASSUME Sound(Now) PROVE TimerMatchesQuery /\ SeatsCounted /\ SeatHasChannel /\ NeverForgotten
    OBVIOUS
<1>1. TimerMatchesQuery
    BY NowFields DEF Sound, Orderly, SdpKept, TimerMatchesQuery
<1>2. SeatsCounted
    BY NowFields DEF Sound, Orderly, Counted, SeatsCounted, Seated
<1>3. SeatHasChannel
  <2> SUFFICES ASSUME NEW s \in Slots, rec[s].seat = "taken"
               PROVE  /\ rec[s].addr # NoAddress /\ rec[s].connected /\ rec[s].interrupt # NULL
                      /\ stack.chan[rec[s].interrupt] \in
                             [a : {rec[s].addr}, psm : {"interrupt"}, st : {"open", "closing"}]
      BY DEF SeatHasChannel, Seated, Present
  <2>1. rec[s] \in BtRec /\ stack.chan \in [Cids -> BtChannel] /\ Kept(Now, s) /\ Standing(rec[s]) /\ Absent(rec[s])
      BY RecordIsTyped, NowFields
  <2>2. rec[s].addr # NoAddress /\ rec[s].connected /\ rec[s].interrupt # NULL
      BY <2>1 DEF Absent, Standing
  <2>3. stack.chan[rec[s].interrupt] \in BtChannel
      BY <2>1, <2>2 DEF BtRec
  <2>4. stack.chan[rec[s].interrupt].a = rec[s].addr /\ stack.chan[rec[s].interrupt].psm = "interrupt"
        /\ stack.chan[rec[s].interrupt].st \in {"open", "closing"}
      BY <2>1, <2>2, NowFields DEF Kept, OwnChannels, Fields
  <2>5. stack.chan[rec[s].interrupt] \in [a : {rec[s].addr}, psm : {"interrupt"}, st : {"open", "closing"}]
      BY <2>3, <2>4 DEF BtChannel
  <2>. QED
      BY <2>2, <2>5
<1>4. NeverForgotten
    BY RecordIsTyped, NowFields DEF NeverForgotten, Present, Seated, Standing
<1>. QED
    BY <1>1, <1>2, <1>3, <1>4

(* The platform counts the seats that are taken, and each is held over an  *)
(* open channel to its controller (get_gamepad seats, uni_hid_device_t).   *)
THEOREM SeatsAreHonest == SetupSpec => []SeatsHonest
    BY ConnectionInvariant, ConnectionHolds, PTL DEF SeatsHonest

-----------------------------------------------------------------------------
(* A controller that is ready was told what it had to be told, and a Wii   *)
(* controller is taken for what it is (the last states of the parsers for  *)
(* Switch and Wii controllers).                                            *)
THEOREM ReadyMeansConfigured == SetupSpec => []Configured
<1>1. SwitchInv /\ WiiInv => Configured
    BY SwitchHolds, WiiHolds DEF Configured
<1>. QED
    BY <1>1, SwitchInvariant, WiiInvariant, PTL

(* No stage is without the timer that ends it: the SDP query, an attempt   *)
(* to connect, the set-up of a Switch controller.                          *)
THEOREM NoStageIsUntimed == SetupSpec => []TimersKept
<1>1. SwitchInv /\ Sound(Now) => TimersKept
    BY SwitchHolds, ConnectionHolds DEF TimersKept
<1>. QED
    BY <1>1, SwitchInvariant, ConnectionInvariant, PTL
=============================================================================
