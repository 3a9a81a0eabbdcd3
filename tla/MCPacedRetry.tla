---------------------------- MODULE MCPacedRetry -----------------------------
EXTENDS PacedRetry

\* Configurations that the defaults, rounding, overflow or the jitter window change.
Paces == {
  [interval |-> t, multiplier |-> m, jitter |-> j, saturates |-> s] :
    t \in {-5, 5, 60}, m \in {<<0, 1>>, <<1, 2>>, <<3, 2>>, <<3, 1>>},
    j \in {<<-1, 2>>, <<1, 1>>, <<1, 2>>}, s \in BOOLEAN }

\* The first and the last number that can be drawn.
Ends(n) == {0, n - 1}

Outcomes == {<<>>, <<"plain", "temporary">>, <<"permanent", "temporary">>, <<"temporary", "deadline">>}
=============================================================================
