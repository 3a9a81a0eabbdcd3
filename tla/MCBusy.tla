------------------------------- MODULE MCBusy -------------------------------
(* Small instances of Busy for TLC. *)
EXTENDS Busy, TLC

Interchangeable == Permutations(Requests)
=============================================================================
