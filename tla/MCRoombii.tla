----------------------------- MODULE MCRoombii -----------------------------
(* Instances of Roombii for TLC. *)
EXTENDS Roombii

(* A stick released and one pushed a little ahead. *)
MCSticks == {<<0, 0, FALSE>>, <<0, -10, FALSE>>}

MCGarbage == {0}

(* Updates that succeed (OTA_STATE_SUCCESS is 4), and controllers that come *)
(* and go (BLUETOOTH_STATE_CONNECTED is 0, DISCONNECTED is 1).              *)
MCReports == [WIFI |-> {}, OTA |-> {4}, OTA_PROGRESS |-> {}, BLUETOOTH |-> {0, 1}]
=============================================================================
