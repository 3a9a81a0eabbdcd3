------------------------------- MODULE MCGate -------------------------------
(* Small instances of Gate for TLC. *)
EXTENDS Gate, TLC

CONSTANTS h1, h2, h3, h4

\* h1 and h3 have both callbacks, h2 only OnClosed, h4 none; h3 and h4 are
\* registered by a call of Register.
MCCallbacks ==
  [h \in Hooks |-> IF h = h4 THEN {} ELSE IF h = h2 THEN {"closed"} ELSE States]

\* Config.Hooks.
MCConfigOne == <<h1>>
MCConfigTwo == <<h1, h2>>

Interchangeable == Permutations(Procs)
=============================================================================
