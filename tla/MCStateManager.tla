--------------------------- MODULE MCStateManager ---------------------------
(* Instances of StateManager for TLC. *)
EXTENDS StateManager

(* What the lock and the LEDs tell apart. *)
MCReports ==
    [WIFI         |-> {WIFI_STATE_CONNECTED},
     OTA          |-> {OTA_STATE_ERROR, OTA_STATE_SUCCESS},
     OTA_PROGRESS |-> {},
     BLUETOOTH    |-> {BLUETOOTH_STATE_CONNECTED, BLUETOOTH_STATE_DISCONNECTED}]
=============================================================================
