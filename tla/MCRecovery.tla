----------------------------- MODULE MCRecovery -----------------------------
(* Constants of module Recovery for TLC. *)
EXTENDS Recovery, Integers

MCNoStatus == -1

=============================================================================
