SPECIFICATION Spec
CONSTANTS
    Values <- SomeValues
    Bytes <- SomeBytes
    Depth <- height
INVARIANTS
    EncoderTypeOK
    EqualBytesSayTheSame
    TheSameHasEqualBytes

\* Encode returns.
CHECK_DEADLOCK FALSE
