SPECIFICATION Spec
CONSTANTS
    k1 = k1  k2 = k2  Idle = Idle
    Keys = {k1, k2}
    Letters <- MCLetters
    IntBits = 8
    CapLimit = 8
    Int64Bits = 4
    ExpLimit = 6
    Mantissa = 2
    MaxDouble = 8
    OutOfRangeInt <- INT64_MIN
    MaxLen = 3
    MaxLag = 1
    MaxDepth = 4
    TextOf <- Serialize
    RespReplyOf <- RespOf
    ReadBackOf <- Reread
    Requests <- PopStale
INVARIANT GetRepliesRight
