----------------------------- MODULE MCSession -----------------------------
(* Small instances of the session runtime for TLC *)
EXTENDS Session

CONSTANTS a, b, c1, c2, c3

\* a calls b
CallB == {<<a, b>>}
\* b sends to a, whose handler may then call while another of a's waits
SendA == {<<b, a>>}
TwoOfA == [s \in Service |-> IF s = a THEN {c1, c2} ELSE {c1, c2, c3}]
\* a has more to wait for than b
MoreA == [s \in Service |-> IF s = a THEN 3 ELSE 2]
=============================================================================
