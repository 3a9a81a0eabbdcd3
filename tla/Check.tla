-------------------------------- MODULE Check --------------------------------
(***************************************************************************)
(* retry.DefaultCheck with erraux.IsTemporary.  An error is the sequence   *)
(* of the errors that unwrapping it yields, each "plain", "temporary" or   *)
(* "permanent" by what its Temporary method says, if it has one, or        *)
(* "deadline", which is context.DeadlineExceeded.  No error is <<>>, and   *)
(* no response is the status 0.                                            *)
(***************************************************************************)
EXTENDS Naturals, Sequences

Kinds == {"plain", "temporary", "permanent", "deadline"}

RetryableStatus == {408, 429, 504}

SaysTemporary(e) == e \in {"temporary", "deadline"}

\* errors.As stops at the first error that has the method.
IsTemporary(errors) ==
  \E k \in DOMAIN errors :
    SaysTemporary(errors[k]) /\ \A j \in 1..(k - 1) : errors[j] = "plain"

IsDeadline(errors) == \E k \in DOMAIN errors : errors[k] = "deadline"

\* Mutant: context.DeadlineExceeded is as temporary as it says.
DefaultCheckNoDeadline(status, errors) ==
  status \in RetryableStatus \/ IsTemporary(errors)

DefaultCheck(status, errors) ==
  status \in RetryableStatus \/ (~IsDeadline(errors) /\ IsTemporary(errors))
=============================================================================
