---------------------------- MODULE MCWifiManager ----------------------------
(***************************************************************************)
(* Instances of WifiManager: two images, of a round size and of one whose  *)
(* last bytes do not fill a hundredth, each reported on a few times.       *)
(***************************************************************************)
EXTENDS WifiManager

MCTotals == {10000, 12399}
MCReceived == {50, 5000, 10000, 12399}
==============================================================================
