CONSTANTS
  MaxItem = 5
  MaxArg = 2
  Leaf <- LeafValues
  Key <- Keys
  Scalar <- NoScalar
  TableKey = FALSE
  Radix = 8
  MaxCookie = 4
  MaxDepth = 3
  SmallBuffer = 6
SPECIFICATION Spec
CHECK_DEADLOCK FALSE
INVARIANT
  NestedRoundTrip
