----------------------------- MODULE DriveGate -----------------------------
(***************************************************************************)
(* What the rest of the firmware expects of StateManager where driving is  *)
(* concerned: a gate that is open, closed for the length of a party, or    *)
(* closed for good by a successful update, and through which the loop goes *)
(* to drive.  It says nothing of messages, tasks and mutexes.              *)
(***************************************************************************)
VARIABLES
  mode,     \* "open", "party" or "locked"
  driving   \* whether the loop is driving

vars == <<mode, driving>>

Init == mode = "open" /\ driving = FALSE

StartDriving == mode = "open" /\ driving = FALSE /\ driving' = TRUE /\ UNCHANGED mode
StopDriving == driving = TRUE /\ driving' = FALSE /\ UNCHANGED mode

(* The gate only closes when nobody is driving. *)
Close(m) == mode = "open" /\ driving = FALSE /\ mode' = m /\ UNCHANGED driving
EndParty == mode = "party" /\ mode' = "open" /\ UNCHANGED driving

Next == StartDriving \/ StopDriving \/ Close("party") \/ Close("locked") \/ EndParty

Spec == Init /\ [][Next]_vars

(* Parties and drives end, and unless it is locked the gate lets the loop  *)
(* through again and again.                                                *)
Liveness ==
    /\ []<>(mode # "party")
    /\ []<>(driving = FALSE)
    /\ []<>(driving = TRUE) \/ <>[](mode = "locked")
=============================================================================
