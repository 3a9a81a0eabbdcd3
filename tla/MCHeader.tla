------------------------------ MODULE MCHeader -------------------------------
EXTENDS Header

\* Four spellings of three names.
Spelled == <<1, 2, 3, 2>>

Given2 == {<<r, v>> : r \in RawNames, v \in {<<>>, <<1>>, <<2, 0>>}}

TwoNames == {<<>>} \cup {<<a>> : a \in Given2} \cup
            {m \in {<<a, b>> : a, b \in Given2} : m[1][1] # m[2][1]}

OddAndEven == {<<>>} \cup {<<a>> : a \in Names} \cup {<<a, 1, b>> : a, b \in Names} \cup
              {<<a, 1, b, 2, 3>> : a, b \in Names}
=============================================================================
