SPECIFICATION Spec
CONSTANT Value <- Values
INVARIANT SameBytesSameValue
INVARIANT SameValueSameBytes
CHECK_DEADLOCK FALSE
