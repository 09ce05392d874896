------------------------- MODULE MCControllerSetup -------------------------
(***************************************************************************)
(* Instances of the stages of a controller's set-up: its connection, and   *)
(* what the parser for Switch or for Wii controllers does then.  Each      *)
(* stage starts in any state that the one before can leave; a behaviour is *)
(* one of a single stage, while the variables of the others rest in an     *)
(* initial state.                                                          *)
(***************************************************************************)
EXTENDS BtConnection, TLC

CONSTANTS
  Stages,                       \* which of "connection", "switch", "wii" to explore
  Seats, LateQueries, MaxAnswers, Pads, MaxPlugs,
  wii, pad                      \* controllers

VARIABLES
  stage,
  switchIns, switchConn, setup_timer, switchDamaged, requests, answers, switchPad, queries, seated,
  wiiIns, wiiConn, toPad, toHost, wiiPad, plugs

S == INSTANCE SwitchSetup
       WITH ins <- switchIns, conn <- switchConn, damaged <- switchDamaged, pad <- switchPad
W == INSTANCE WiiSetup WITH ins <- wiiIns, conn <- wiiConn, pad <- wiiPad

ASSUME ParserConstants == S!SwitchConstants /\ W!WiiConstants

switchVars == <<switchIns, switchConn, setup_timer, switchDamaged, requests, answers, switchPad,
                queries, seated>>
wiiVars == <<wiiIns, wiiConn, toPad, toHost, wiiPad, plugs>>
allVars == <<stage, vars, switchVars, wiiVars>>

SetupInit ==
    /\ stage \in Stages
    /\ Init /\ S!Init /\ W!Init
    /\ stage # "wii" => wiiPad.is = CHOOSE p \in Pads : TRUE

SetupNext ==
    /\ UNCHANGED stage
    /\ \/ stage = "connection" /\ Next /\ UNCHANGED <<switchVars, wiiVars>>
       \/ stage = "switch" /\ S!Next /\ UNCHANGED <<vars, wiiVars>>
       \/ stage = "wii" /\ W!Next /\ UNCHANGED <<vars, switchVars>>

SetupSpec == SetupInit /\ [][SetupNext]_allVars

(* The fairness of each stage, in that stage. *)
SetupFairSpec ==
    /\ SetupSpec
    /\ WF_vars(stage = "connection" /\ Closing)
    /\ WF_vars(stage = "connection" /\ Naming)
    /\ SF_vars(stage = "connection" /\ sdp_query_timeout)
    /\ \A s \in Slots :
         /\ SF_vars(stage = "connection" /\ inquiry_remote_name_timeout_callback(s))
         /\ SF_vars(stage = "connection" /\ device_connection_timeout(s))
    /\ WF_switchVars(stage = "switch" /\ S!setReady)
    /\ WF_switchVars(stage = "switch" /\ \E seat \in Seats \cup {"none"} : S!switch_setup_timeout_callback(seat))
    /\ WF_wiiVars(stage = "wii" /\ W!uni_hid_parser_wii_setup)
    /\ WF_wiiVars(stage = "wii" /\ \E seat \in Seats \cup {"none"} : W!uni_hid_parser_wii_parse_input_report(seat))
    /\ WF_wiiVars(stage = "wii" /\ W!controller)

-----------------------------------------------------------------------------
(* Seats: the platform counts those that are taken, and each is held over  *)
(* an open channel to its controller.                                      *)
SeatsHonest == SeatsCounted /\ SeatHasChannel

(* No stage is without the timer that ends it: the SDP query, an attempt   *)
(* to connect, the set-up of a Switch controller.                          *)
TimersKept == TimerMatchesQuery /\ NeverForgotten /\ S!SetupTimed

(* A controller that is ready was told what it had to be told: report      *)
(* mode, sensors and its own LEDs on a Switch controller; a Wii controller *)
(* is taken for what it is, and shows its seat.                            *)
Configured == S!Configured /\ W!Recognised /\ W!LedsShowSeat

(* What a Wii controller answers is taken for the answer that it is. *)
AnswersFit == W!AnswersFit

(* Attempts to connect end, the SDP query becomes free for others, and the *)
(* set-up of a Switch controller ends, although controllers owe nothing.   *)
SetupsEnd == AttemptsEnd /\ SdpFreed /\ (stage = "switch" => S!SetupEnds)

(* A Wii controller that answers becomes ready. *)
BecomesReady == stage = "wii" => W!BecomesReady

-----------------------------------------------------------------------------
(* A controller whose parser takes time and whose name, if it is read,     *)
(* makes a query unnecessary, and one that is queried before it is         *)
(* connected.                                                              *)
MCNameOf == (wii :> "known") @@ (pad :> "ds4")

(* A single controller, with the name that leads through most states. *)
MCOneName == [a \in Addresses |-> "ds4"]

(* Every Wii controller there may be; the registers of a Wii U Pro work. *)
MCPads ==
    [product : {"0306", "0330"}, ext : {"none", "nunchuk", "classic", "board", "other"},
     banks : SUBSET {"a4", "a6"}]
      \cup [product : {"0330"}, ext : {"pro"}, banks : {{"a4"}}]
=============================================================================
