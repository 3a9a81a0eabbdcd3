------------------------------ MODULE Exchange -------------------------------
(***************************************************************************)
(* What a server is sent when a client of this library sends one request:  *)
(* retry.Client around or inside client.Header, around an http.Client with *)
(* the redirect checks of package client, whose transport is decorated by  *)
(* roundtrip.Header.  Retry leaves open what its decorated client does in  *)
(* an attempt; here each attempt is a sequence of redirected requests.     *)
(*                                                                         *)
(* A header is counted: how often the values of one SetTo or AddTo, or of  *)
(* the caller, are in the request.                                         *)
(***************************************************************************)
EXTENDS Retry, Integers

CONSTANTS
  Names,             \* of headers
  Sensitive,         \* those that net/http keeps from other hosts
  OwnNames,          \* those that the caller's request has
  ClientNames,       \* those in the Header of client.Header
  TransportNames,    \* those in the Header of roundtrip.Header
  MaxLimit,          \* largest limit given to MaxRedirects
  DefaultRedirects,  \* the limit of net/http, for a nil CheckRedirect
  MaxHops            \* bound on the requests of an attempt that nothing limits

ASSUME ExchangeConstants ==
  /\ Sensitive \cup OwnNames \cup ClientNames \cup TransportNames \subseteq Names
  /\ MaxLimit \in Nat /\ {DefaultRedirects, MaxHops} \subseteq Nat \ {0}

VARIABLES
  checks,     \* what NewCheckRedirects is given, nils included
  max,        \* of MaxRedirects
  copied,     \* the names given to CopyHeadersOnRedirect
  modes,      \* what client.Header and roundtrip.Header use: "SetTo" or "AddTo"
  outermost,  \* client.Header decorates retry.Client, not what that decorates
  stage,      \* of the attempt: "idle", "sending" or "sent"
  shared,     \* the Header map of the caller's request, which all attempts share
  initial,    \* http.Client's clone of it
  current,    \* the Header of the next request
  stripped,   \* another host was met, so sensitive headers stay behind
  sent,       \* the Header of each request of the attempt
  total       \* history: requests sent by all attempts

options  == <<checks, max, copied, modes, outermost>>
exchange == <<stage, shared, initial, current, stripped, sent, total>>
xvars    == <<vars, options, exchange>>

\* The Header of the request that the caller made.
Own == [n \in Names |-> IF n \in OwnNames THEN 1 ELSE 0]

CheckLists ==
  {<<>>, <<"nil">>, <<"max">>, <<"copy">>, <<"nil", "max">>, <<"copy", "max">>, <<"max", "copy">>}

Uses(check) == \E k \in DOMAIN checks : checks[k] = check

ExchangeInit ==
  /\ Init
  /\ checks \in CheckLists
  /\ max \in IF Uses("max") THEN -1..MaxLimit ELSE {0}
  /\ copied \in IF Uses("copy") THEN SUBSET Names ELSE {{}}
  /\ modes \in [{"client", "transport"} -> {"SetTo", "AddTo"}]
  /\ outermost \in BOOLEAN
  /\ stage = "idle" /\ sent = <<>> /\ total = 0 /\ stripped = FALSE
  /\ shared = Own /\ initial = Own /\ current = Own

-----------------------------------------------------------------------------
(* Headers *)

\* Mutant: the values are appended to what is there.
SetToAppending(dst, names) == [n \in Names |-> IF n \in names THEN dst[n] + 1 ELSE dst[n]]

SetTo(dst, names) == [n \in Names |-> IF n \in names THEN 1 ELSE dst[n]]
AddTo(dst, names) == [n \in Names |-> IF n \in names THEN dst[n] + 1 ELSE dst[n]]

Modify(mode, dst, names) == IF mode = "SetTo" THEN SetTo(dst, names) ELSE AddTo(dst, names)

-----------------------------------------------------------------------------
(* The redirect checks, given the requests of the attempt so far *)

\* Mutant: the request to be made is not counted.
Exceeded(via, limit) == Len(via) > limit

\* MaxRedirects, with a negative limit taken as 0.
Reached(via, limit) == Len(via) >= (IF limit < 0 THEN 0 ELSE limit)

\* Which of the checks are not nil.
Given == {k \in DOMAIN checks : checks[k] # "nil" /\ (checks[k] = "copy" => copied # {})}

\* NewCheckRedirects: all the checks that are not nil, or the default if all are.
Allowed(via) ==
  IF Given = {} THEN Len(via) < DefaultRedirects
  ELSE \A k \in Given : checks[k] = "max" => ~Reached(via, max)

\* Mutant: the headers are those of the first request.
CopyFromFirst(header, via) ==
  [n \in Names |-> IF n \in copied /\ via[1][n] > 0 THEN via[1][n] ELSE header[n]]

CopyHeaders(header, via) ==
  [n \in Names |->
     IF n \in copied /\ via[Len(via)][n] > 0 THEN via[Len(via)][n] ELSE header[n]]

-----------------------------------------------------------------------------
(* One attempt *)

\* client.Header, and the start of http.Client.Do, which clones the headers.
Decorate ==
  /\ pc \in {"initial", "resent"} /\ stage = "idle"
  /\ stage' = "sending"
  /\ shared' = IF outermost /\ Tries > 0 THEN shared
               ELSE Modify(modes["client"], shared, ClientNames)
  /\ initial' = shared' /\ current' = shared'
  /\ stripped' = FALSE /\ sent' = <<>>
  /\ UNCHANGED <<vars, options, total>>

\* roundtrip.Header and the request.  The first one has the caller's own map.
Send ==
  /\ stage = "sending"
  /\ stage' = "sent"
  /\ sent' = Append(sent, Modify(modes["transport"], current, TransportNames))
  /\ shared' = IF sent = <<>> THEN sent'[1] ELSE shared
  /\ total' = total + 1
  /\ UNCHANGED <<vars, options, initial, current, stripped>>

\* http.Client makes the next request, and asks the checks.
Redirect(elsewhere) ==
  /\ stage = "sent" /\ Allowed(sent) /\ Len(sent) < MaxHops
  /\ stage' = "sending"
  /\ stripped' = (stripped \/ elsewhere)
  /\ LET header == [n \in Names |-> IF stripped' /\ n \in Sensitive THEN 0 ELSE initial[n]]
     IN  current' = IF Uses("copy") THEN CopyHeaders(header, sent) ELSE header
  /\ UNCHANGED <<vars, options, shared, initial, sent, total>>

Over ==
  /\ RespondInitial \/ RespondRetry
  /\ stage' = "idle"
  /\ UNCHANGED <<options, shared, initial, current, stripped, sent, total>>

\* The last response, which is not a redirect.
Respond200 == stage = "sent" /\ bodies' = Append(bodies, "open") /\ Over

\* The transport fails, or a check, and then the response comes with a closed body.
Fail == stage = "sent" /\ bodies' = Append(bodies, "none") /\ Over

ExchangeNext ==
  \/ Decorate \/ Send \/ Respond200 \/ Fail
  \/ \E elsewhere \in BOOLEAN : Redirect(elsewhere)
  \/ (Cancel \/ Fire \/ Do) /\ UNCHANGED <<options, exchange>>

ExchangeSpec == ExchangeInit /\ [][ExchangeNext]_xvars

-----------------------------------------------------------------------------
(* Properties *)

\* However checks are combined, with MaxRedirects no attempt makes more requests
\* than its limit, one for a limit of 0 or less, and all attempts together make no
\* more than that for each of 1+Retries (redirect.go:43-45, config.go:17-19).
RequestsBounded ==
  LET limit == IF max < 1 THEN 1 ELSE max
  IN  Uses("max") => Len(sent) <= limit /\ total <= (1 + retries) * limit

\* A header that is copied on redirects is in each request what the transport's
\* decorator makes of the values in the request before, other hosts included.
CopiedHeadersFollow ==
  stage = "sent" /\ Len(sent) > 1 /\ Uses("copy") =>
    LET before == sent[Len(sent) - 1]
    IN  \A n \in copied : before[n] > 0 =>
          sent[Len(sent)][n] =
            IF n \in TransportNames
            THEN IF modes["transport"] = "SetTo" THEN 1 ELSE before[n] + 1
            ELSE before[n]

\* What an attempt after so many tries starts with: the caller's values, unless
\* client.Header replaces them, its own, once more in each attempt if it adds them
\* below the retry, and those that the transport's decorator added to the same map
\* in the attempts before, unless they are replaced now.
StartsWith(n, tries) ==
  LET replaced == n \in ClientNames /\ modes["client"] = "SetTo"
      earlier  == IF n \in TransportNames /\ (outermost \/ ~replaced) THEN tries ELSE 0
      added    == IF n \notin ClientNames THEN 0 ELSE IF outermost THEN 1 ELSE tries + 1
  IN  earlier + (IF replaced THEN 1 ELSE Own[n] + added)

\* With SetTo each request of each attempt has the values once.  With AddTo they
\* add up, because the attempts share the caller's map: to what the attempt starts
\* with the transport's decorator adds its values once, or once more in each
\* redirect that copies them.  Another host is not sent what is sensitive, unless
\* it is copied or added by the transport's decorator.
ValuesAddUp ==
  stage = "sent" =>
    \A n \in Names :
      LET carried == Uses("copy") /\ n \in copied
          hidden  == n \in Sensitive /\ stripped /\ ~carried
          kept    == IF hidden THEN 0 ELSE StartsWith(n, Tries)
      IN  sent[Len(sent)][n] =
            IF n \notin TransportNames THEN kept
            ELSE IF modes["transport"] = "SetTo" THEN 1
            ELSE kept + (IF carried THEN Len(sent) ELSE 1)
=============================================================================
