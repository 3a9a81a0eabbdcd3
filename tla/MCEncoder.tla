------------------------------ MODULE MCEncoder ------------------------------
(***************************************************************************)
(* A small instance of Encoder: a plain error, one with a status and a     *)
(* field that wraps the plain one, and one that reports a bad status; a    *)
(* rule for the plain error and a rule for the type of the others.         *)
(***************************************************************************)
EXTENDS Encoder

MCErrorCode    == [plain |-> 0, coded |-> 404, odd |-> 42]
MCErrorHeaders == [plain |-> {}, coded |-> {"retry-after"}, odd |-> {}]
MCErrorFields  == [plain |-> NoFields, coded |-> Field("detail", "coded"), odd |-> Field("hint", "odd")]

MCFound == [is |-> [plain |-> "plain", coded |-> "plain", odd |-> NoError],
            as |-> [plain |-> NoError, coded |-> "coded", odd |-> "odd"]]
MCTarget == [r \in {"is"} |-> "plain"]

MCRuleFields  == {Field("cause", "rule"), Field("code", 418)}
MCRuleLists   == {<<"is">>, <<"as">>, <<"is", "is", "is">>}
MCRuleHeaders == {{"x-rule"}}
=============================================================================
