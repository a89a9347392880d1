------------------------------- MODULE MCSerde -------------------------------
EXTENDS Serde

LeafValues == {Num(1)}
NoScalar == {}
Keys == {Str(<<1>>)}

\* Numbers and lengths on both sides of each change of format
Bounds == {1, Radix, Radix ^ 2, Radix ^ 4 \div 2}
Numbers == {n - 1 : n \in Bounds} \cup Bounds
             \cup {-1, -(Radix ^ 4 \div 2), -(Radix ^ 4 \div 2) - 1}
Lengths == {0, MaxCookie - 1, MaxCookie, Radix ^ 2 - 1, Radix ^ 2}
Bytes(n) == [i \in 1 .. n |-> i % Radix]
Scalars ==
  {Num(n) : n \in Numbers} \cup {Str(Bytes(n)) : n \in Lengths}
    \cup {Nil, Bool(FALSE), Bool(TRUE), Raw("real", Bytes(8)), Raw("pointer", Bytes(8)),
           Raw("cfunc", Bytes(8))}
=============================================================================
