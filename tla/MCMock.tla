-------------------------------- MODULE MCMock --------------------------------
(* A small instance of Mock for TLC. *)
EXTENDS Mock

MCRequests ==
  {[id |-> 1, method |-> "GET", path |-> "p", values |-> <<"a", "b">>, body |-> NoBody],
   [id |-> 2, method |-> "PUT", path |-> NoURL, values |-> <<"b">>, body |-> "doc"]}

MCAsserters ==
  {[kind |-> "nop"],
   [kind |-> "methods", values |-> <<>>],
   [kind |-> "methods", values |-> <<"GET", "PUT">>],
   [kind |-> "path", path |-> "p"],
   [kind |-> "header", values |-> <<"b">>],
   [kind |-> "header", values |-> <<"b", "b">>],
   [kind |-> "body", text |-> "doc"],
   [kind |-> "body", text |-> ""],
   [kind |-> "json", text |-> "spaced"]}

MCSelections ==
  {{}, {[kind |-> "path", path |-> "p"]},
   {[kind |-> "nop"], [kind |-> "header", values |-> <<"b">>]},
   {[kind |-> "header", values |-> <<"b", "b">>],
    [kind |-> "methods", values |-> <<"GET", "PUT">>]}}

Interchangeable == Permutations(Goroutines)

\* Two texts of the same document; the empty text is not JSON.
MCDocument == [t \in {"doc", "spaced"} |-> 1]
=============================================================================
