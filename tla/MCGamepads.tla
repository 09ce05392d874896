----------------------------- MODULE MCGamepads -----------------------------
(***************************************************************************)
(* Instances of Gamepads: one more controller than there are seats, so     *)
(* that records and seats run out and a seat passes from one controller to *)
(* another.                                                                *)
(***************************************************************************)
EXTENDS Gamepads, TLC

AddressSymmetry == Permutations(Addresses)
=============================================================================
