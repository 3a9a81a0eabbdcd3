------------------------------- MODULE Encoder -------------------------------
(***************************************************************************)
(* Package erraux: the rules made by Is and As, Encoder values derived     *)
(* from one another by Body and Add, and Encode.                           *)
(*                                                                         *)
(* An Encoder is copied by value, but its rules are a slice: encoders      *)
(* derived from one another share backing arrays.  A rule is a pointer     *)
(* that the encoders keep, so its methods may still be called after it was *)
(* added, and an As rule builds a body out of its own fields in each       *)
(* Encode.                                                                 *)
(*                                                                         *)
(* Errors are abstracted to what errors.Is and errors.As find in their     *)
(* chains.                                                                 *)
(***************************************************************************)
EXTENDS Integers, Sequences, FiniteSets, SequencesExt

CONSTANTS
  Errors,        \* error values
  NoError,       \* errors.As finds nothing
  ErrorCode,     \* ErrorCode[err]: StatusCode() of the chain, 0 for none
  ErrorHeaders,  \* ErrorHeaders[err]: names that Headers() of the chain has
  ErrorFields,   \* ErrorFields[err]: a function, ErrorFields() of the chain
  IsRules,       \* rules made by Is
  AsRules,       \* rules made by As
  Found,         \* Found[r][err]: what errors.Is or errors.As finds, or NoError
  Target,        \* Target[r]: the target of an Is rule
  RuleCodes,     \* statuses a rule is given
  RuleFields,    \* functions, the fields a rule is given
  RuleHeaders,   \* header names a rule is given
  RuleLists,     \* the rules of a call of Add
  MaxEncoders,   \* bound: Encoder values
  MaxChanges     \* bound: calls of the methods of rules

Rules == IsRules \cup AsRules

ASSUME EncoderConstants ==
  /\ NoError \notin Errors
  /\ ErrorCode \in [Errors -> Int]
  /\ IsRules \cap AsRules = {} /\ {"none", "fallback"} \cap Rules = {}
  /\ Found \in [Rules -> [Errors -> Errors \cup {NoError}]]
  /\ Target \in [IsRules -> Errors]
  /\ RuleCodes \subseteq Int
  /\ RuleLists \subseteq Seq(Rules)
  /\ MaxEncoders \in Nat /\ MaxChanges \in Nat

VARIABLES
  rules,      \* the fields of each isEncoder and asEncoder
  arrays,     \* backing arrays, each a sequence as long as its capacity
  encoders,   \* the Encoder values made so far
  pending,    \* the rules that the current call of Add has yet to append
  response,   \* what the last Encode wrote
  changes,    \* bound: calls of the methods of rules
  added,      \* history: what was added to each encoder, call by call
  late,       \* history: rules changed after they were added
  given       \* history: names of the fields each rule was given

slices == <<arrays, encoders, pending, added>>
facts  == <<rules, changes, late, given>>
vars   == <<slices, facts, response>>

-----------------------------------------------------------------------------
(* Fields and what the package finds in the chain of an error *)

\* Fields.Add and Merge: later fields replace earlier ones.
With(fields, more) ==
  [name \in DOMAIN fields \cup DOMAIN more |->
     IF name \in DOMAIN more THEN more[name] ELSE fields[name]]

Field(name, value) == [n \in {name} |-> value]

NoFields == [n \in {} |-> 0]

StatusCodeFor(err) == IF ErrorCode[err] < 100 THEN 500 ELSE ErrorCode[err]

-----------------------------------------------------------------------------
(* Rules *)

NewIs(r) ==
  LET target == Target[r]
  IN  [code   |-> StatusCodeFor(target),
       header |-> ErrorHeaders[target],
       fields |-> With(With(Field("code", StatusCodeFor(target)), Field("cause", target)),
                       ErrorFields[target])]

NewAs == [code |-> 0, header |-> {}, fields |-> NoFields]

Init ==
  /\ rules = [r \in Rules |-> IF r \in IsRules THEN NewIs(r) ELSE NewAs]
  /\ arrays = <<>>
  /\ encoders = << [array |-> 0, len |-> 0, disableBody |-> FALSE] >>
  /\ pending = <<>>
  /\ response = [by |-> "none"]
  /\ changes = 0
  /\ added = << <<>> >>
  /\ late = {}
  /\ given = [r \in Rules |-> {}]

\* No call of Add is under way.
Idle == pending = <<>>

AddedRules == UNION {{added[e][i].rule : i \in DOMAIN added[e]} : e \in DOMAIN added}

Change(r, rule, names) ==
  /\ Idle /\ changes < MaxChanges
  /\ changes' = changes + 1
  /\ rules' = [rules EXCEPT ![r] = rule]
  /\ given' = [given EXCEPT ![r] = @ \cup names]
  /\ late' = IF r \in AddedRules THEN late \cup {r} ELSE late
  /\ UNCHANGED <<slices, response>>

\* Mutant: an Is rule whose body keeps the code of the target.
SetStatusOnly(r, c) == [rules[r] EXCEPT !.code = c]

\* An As rule learns the code of its body in Encode.
SetStatus(r, c) ==
  [rules[r] EXCEPT !.code = c,
                   !.fields = IF r \in IsRules THEN With(@, Field("code", c)) ELSE @]

StatusCode(r, c) == Change(r, SetStatus(r, c), {})

\* Cause and Fields set fields of the rule.
Fields(r, more) ==
  Change(r, [rules[r] EXCEPT !.fields = With(@, more)], DOMAIN more)

Headers(r, names) ==
  Change(r, [rules[r] EXCEPT !.header = @ \cup names], {})

-----------------------------------------------------------------------------
(* Encoder values and their slices *)

Slice(e) == IF encoders[e].array = 0 THEN <<>> ELSE arrays[encoders[e].array]
View(e)  == SubSeq(Slice(e), 1, encoders[e].len)

\* newErrorEncoder: an Is rule has its body marshaled now.
Compile(r, disableBody) ==
  [rule |-> r, disableBody |-> disableBody,
   body |-> IF r \in IsRules /\ ~disableBody THEN rules[r].fields ELSE NoFields]

Unused == [rule |-> NoError, disableBody |-> FALSE, body |-> NoFields]

\* append: in place while the capacity lasts, else in an array of twice the
\* capacity.  A slice is an array, if any, and a length.
AppendTo(heap, compiled) ==
  LET old == IF heap.array = 0 THEN <<>> ELSE heap.arrays[heap.array]
  IN  IF heap.len < Len(old)
      THEN [heap EXCEPT !.arrays[heap.array][heap.len + 1] = compiled, !.len = @ + 1]
      ELSE [arrays |-> Append(heap.arrays,
                         Append(old, compiled) \o [i \in 1..(Len(old) - 1) |-> Unused]),
            array  |-> Len(heap.arrays) + 1,
            len    |-> heap.len + 1]

Derive(encoder, ruleList) ==
  /\ Idle /\ Len(encoders) < MaxEncoders
  /\ encoders' = Append(encoders, encoder)
  /\ pending' = ruleList
  /\ UNCHANGED <<arrays, facts, response>>

Body(e, v) ==
  /\ Derive([encoders[e] EXCEPT !.disableBody = ~v], <<>>)
  /\ added' = Append(added, added[e])

\* Mutant: Add fills the slice of its receiver anew.
AddAfresh(e, ruleList) ==
  /\ Derive([encoders[e] EXCEPT !.len = 0], ruleList)
  /\ added' = Append(added, added[e])

\* The receiver of Add is a copy, which the loop extends and Add returns.
Add(e, ruleList) ==
  /\ Derive(encoders[e], ruleList)
  /\ added' = Append(added, added[e])

Newest == Len(encoders)

\* A pass of the loop of Add.  In the history each call of Add has a number.
AppendRule ==
  LET e    == encoders[Newest]
      heap == AppendTo([arrays |-> arrays, array |-> e.array, len |-> e.len],
                       Compile(Head(pending), e.disableBody))
  IN  /\ ~Idle
      /\ pending' = Tail(pending)
      /\ arrays' = heap.arrays
      /\ encoders' = [encoders EXCEPT ![Newest].array = heap.array, ![Newest].len = heap.len]
      /\ added' = [added EXCEPT ![Newest] =
                     Append(@, [call |-> Newest, rule |-> Head(pending),
                                disableBody |-> e.disableBody])]
      /\ UNCHANGED <<facts, response>>

-----------------------------------------------------------------------------
(* Encode *)

\* net/http panics for a status of less or more than three digits, before
\* anything is sent.
Respond(e, by, err, status, body, header) ==
  LET panicked == status \notin 100..999
  IN  [encoder |-> e, by |-> by, err |-> err, status |-> status, panicked |-> panicked,
       body |-> IF panicked THEN NoFields ELSE body, header |-> header]

\* SetTo and the loops over the headers of an error replace what a name had.
IsResponse(e, compiled, err) ==
  LET rule == rules[compiled.rule]
  IN  Respond(e, compiled.rule, err, rule.code, compiled.body, rule.header)

\* Mutant: the status of the error as it is.
AsStatusUnchecked(rule, target) == IF rule.code < 100 THEN ErrorCode[target] ELSE rule.code

AsStatus(rule, target) == IF rule.code < 100 THEN StatusCodeFor(target) ELSE rule.code

AsBody(rule, target) ==
  LET coded  == With(rule.fields, Field("code", AsStatus(rule, target)))
      caused == IF "cause" \in DOMAIN coded THEN coded ELSE With(coded, Field("cause", target))
  IN  With(caused, ErrorFields[target])

AsResponse(e, compiled, err) ==
  LET rule   == rules[compiled.rule]
      target == Found[compiled.rule][err]
  IN  Respond(e, compiled.rule, err, AsStatus(rule, target),
              IF compiled.disableBody THEN NoFields ELSE AsBody(rule, target),
              rule.header \cup ErrorHeaders[target])

Fallback(e, err) ==
  LET fields == With(Field("code", StatusCodeFor(err)), Field("cause", err))
  IN  Respond(e, "fallback", err, StatusCodeFor(err),
              IF encoders[e].disableBody THEN NoFields ELSE With(fields, ErrorFields[err]),
              ErrorHeaders[err])

Matches(sequence, err) == {i \in DOMAIN sequence : Found[sequence[i].rule][err] # NoError}

\* Mutant: the last rule that handles the error.
LastMatch(sequence, err) == CHOOSE i \in Matches(sequence, err) :
                               \A j \in Matches(sequence, err) : i >= j

\* The loop over the rules ends with the first that handles the error.
FirstMatch(sequence, err) == CHOOSE i \in Matches(sequence, err) :
                               \A j \in Matches(sequence, err) : i <= j

Handled(e, err) ==
  IF Matches(View(e), err) = {} THEN Fallback(e, err)
  ELSE LET compiled == View(e)[FirstMatch(View(e), err)]
       IN  IF compiled.rule \in IsRules THEN IsResponse(e, compiled, err)
                                        ELSE AsResponse(e, compiled, err)

\* Mutant: without Clone, an As rule keeps what it found for one error.
EncodeUncloned(e, err) ==
  /\ Idle /\ response' = Handled(e, err)
  /\ rules' = IF response'.by \in AsRules
              THEN [rules EXCEPT ![response'.by].fields = With(@, response'.body)] ELSE rules
  /\ UNCHANGED <<slices, changes, late, given>>

Encode(e, err) ==
  /\ Idle /\ response' = Handled(e, err)
  /\ UNCHANGED <<slices, facts>>

Next ==
  \/ AppendRule
  \/ \E r \in Rules :
       \/ \E c \in RuleCodes : StatusCode(r, c)
       \/ \E more \in RuleFields : Fields(r, more)
       \/ \E names \in RuleHeaders : Headers(r, names)
  \/ \E e \in DOMAIN encoders :
       \/ \E v \in BOOLEAN : Body(e, v)
       \/ \E ruleList \in RuleLists : Add(e, ruleList)
       \/ \E err \in Errors : Encode(e, err)

Spec == Init /\ [][Next]_vars

-----------------------------------------------------------------------------
(* Properties *)

Encoded == response.by # "none"
ByRule  == Encoded /\ response.by \in Rules

\* Nothing was added to an encoder that e comes from but what e comes from too.
Unbranched(e) ==
  \A d \in DOMAIN encoders : IsPrefix(added[d], added[e]) \/ IsPrefix(added[e], added[d])

\* The first rule that was added and finds the error answers, as Body had it
\* when the rule was added, and without one the fallback does (Encode over the
\* slices that Add built).
FirstAddedAnswers(e) ==
  LET hits == {i \in DOMAIN added[e] : Found[added[e][i].rule][response.err] # NoError}
  IN  IF hits = {} THEN response.by = "fallback"
      ELSE \E i \in hits :
             /\ \A j \in hits : i <= j
             /\ response.by = added[e][i].rule
             /\ (response.body = NoFields) = (added[e][i].disableBody \/ response.panicked)

\* Encoders that are built in one line answer with the first rule added.
FirstMatchAnswers ==
  Encoded /\ Unbranched(response.encoder) => FirstAddedAnswers(response.encoder)

\* What the documentation of Encode says of every encoder; false when two
\* encoders were derived from one.
AddedOrderDecides == Encoded => FirstAddedAnswers(response.encoder)

\* The error an answer is about: what the rule found, or its target.
Subject ==
  IF response.by = "fallback" THEN response.err
  ELSE IF response.by \in IsRules THEN Target[response.by] ELSE Found[response.by][response.err]

\* The code in the body is the status of the response, unless somebody
\* supplied a field of that name or changed an Is rule that was added already.
CodeIsStatus ==
  Encoded /\ response.body # NoFields =>
    \/ response.body["code"] = response.status
    \/ "code" \in DOMAIN ErrorFields[Subject]
    \/ /\ response.by \in IsRules
       /\ response.by \in late \/ "code" \in given[response.by]

\* The documentation of Is: status, headers and fields are an immutable part of
\* the rule once it is added, so that status and body go on agreeing.
ImmutableOnceAdded ==
  ByRule /\ response.by \in IsRules /\ response.body # NoFields =>
    \/ response.body["code"] = response.status
    \/ "code" \in DOMAIN ErrorFields[Subject] \cup given[response.by]

\* No answer carries anything of the error of another one: what is not the
\* error's own was given to the rule.
NothingLeaks ==
  Encoded /\ response.body # NoFields =>
    LET own == {"code", "cause"} \cup DOMAIN ErrorFields[Subject]
    IN  /\ DOMAIN response.body \subseteq
             own \cup (IF response.by \in Rules THEN given[response.by] ELSE {})
        /\ \/ response.body["cause"] = Subject
           \/ "cause" \in DOMAIN ErrorFields[Subject]
           \/ response.by \in Rules /\ "cause" \in given[response.by]
        /\ response.header \subseteq
             ErrorHeaders[Subject] \cup (IF response.by \in Rules THEN UNION RuleHeaders ELSE {})

\* An error that reports no status, or a bad one, gets a 500: only a status of
\* more than three digits, or one set on an Is rule, makes net/http panic.
ErrorsGetAStatus ==
  Encoded /\ response.panicked => response.status > 999 \/ response.by \in IsRules

\* The rules of an encoder that was returned change only while Add makes one that
\* branches off from it: not by use, and not by what comes from it or what it
\* comes from.
OnlyBranchingDisturbs ==
  [][\A e \in DOMAIN encoders :
       View(e)' # View(e) =>
         \/ e = Newest /\ ~Idle
         \/ /\ ~IsPrefix(added[e], added'[Newest])
            /\ ~IsPrefix(added'[Newest], added[e])]_vars

-----------------------------------------------------------------------------
(* The inductive invariants *)

IsSequence(sequence) == sequence \in Seq(Range(sequence))

TypeOK ==
  /\ rules = [r \in Rules |-> [code   |-> rules[r].code,
                                header |-> rules[r].header,
                                fields |-> rules[r].fields]]
  /\ \A r \in Rules : rules[r].code \in Int
  /\ given = [r \in Rules |-> given[r]]
  /\ late \subseteq Rules
  /\ IsSequence(arrays) /\ \A a \in DOMAIN arrays : IsSequence(arrays[a])
  /\ encoders \in Seq([array : Nat, len : Nat, disableBody : BOOLEAN])
  /\ added \in Seq(Seq([call : Nat, rule : Rules, disableBody : BOOLEAN]))
  /\ pending \in Seq(Rules)

\* Each encoder has a slice as long as its history, whose calls are its own or
\* were made before it.  Only Add makes an encoder and goes on.
SliceInv ==
  /\ Len(added) = Len(encoders) /\ encoders # <<>>
  /\ \A e \in DOMAIN encoders :
       /\ encoders[e].array = 0 => encoders[e].len = 0
       /\ encoders[e].array # 0 =>
            encoders[e].array \in DOMAIN arrays /\ encoders[e].len <= Len(Slice(e))
       /\ encoders[e].len = Len(added[e])
       /\ \A i \in DOMAIN added[e] : added[e][i].call <= e

\* The fields of an Is rule are those of its target and those it was given.
Proper(r, fields) ==
  LET own == DOMAIN ErrorFields[Target[r]]
  IN  /\ {"code", "cause"} \subseteq DOMAIN fields
      /\ DOMAIN fields \subseteq {"code", "cause"} \cup own \cup given[r]
      /\ fields["cause"] = Target[r] \/ "cause" \in own \cup given[r]

RuleInv ==
  /\ \A r \in IsRules :
       /\ Proper(r, rules[r].fields)
       /\ \/ rules[r].fields["code"] = rules[r].code
          \/ "code" \in DOMAIN ErrorFields[Target[r]] \cup given[r]
       /\ rules[r].header \subseteq ErrorHeaders[Target[r]] \cup UNION RuleHeaders
  /\ \A r \in AsRules :
       /\ DOMAIN rules[r].fields \subseteq given[r]
       /\ rules[r].header \subseteq UNION RuleHeaders

\* What Add has made of a rule is what the rule was, which is what it is as long
\* as its methods are not called.
CompiledInv(compiled) ==
  LET r == compiled.rule
  IN  /\ r \in AddedRules
      /\ r \in IsRules =>
           \/ compiled.disableBody /\ compiled.body = NoFields
           \/ /\ ~compiled.disableBody /\ Proper(r, compiled.body)
              /\ r \in late \/ compiled.body = rules[r].fields

\* The rules of an encoder are compiled, and those that were added to it as long
\* as nothing branches off from what it comes from.
ViewInv ==
  \A e \in DOMAIN encoders : \A i \in 1..encoders[e].len :
    /\ CompiledInv(Slice(e)[i])
    /\ Unbranched(e) => /\ Slice(e)[i].rule = added[e][i].rule
                        /\ Slice(e)[i].disableBody = added[e][i].disableBody

ResponseInv ==
  Encoded =>
    /\ response.encoder \in DOMAIN encoders /\ (~Idle => response.encoder # Newest)
    /\ response.err \in Errors

EncoderInv == TypeOK /\ SliceInv /\ RuleInv /\ ViewInv /\ ResponseInv

=============================================================================
