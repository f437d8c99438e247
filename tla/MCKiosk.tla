------------------------------- MODULE MCKiosk -------------------------------
(* Small instances of Kiosk for TLC. *)
EXTENDS Kiosk, TLC

Interchangeable == Permutations(Ids) \cup Permutations(Lockers)
=============================================================================
