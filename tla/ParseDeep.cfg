SPECIFICATION Spec
CONSTANTS
    ExpLimit = 10
    Levels = 6
    Literals <- MCLiterals
    OutOfRange = {"1e999"}
    Docs <- MCDocs
    DepthOf <- LevelsOf
    Deepest = 3
    SavedAs <- RdbOf
    RespReplyOf <- RespOf
    WrittenAs <- TextAt
    ReadBackOf <- Reread
    Formats <- MCFormats
    Encodings <- MCEncodings
    Alphabet <- MCAlphabet
    InStrings <- MCInStrings
    MaxText = 1
    Reused = FALSE
    Nodes = {1}
    Garbage = Garbage
    Powers <- MCPowers
    CHUNK_SIZE = 2
    MaxArray = 1
    Counts = {0, 1, 2}
    Indexes <- MCIndexes
    DictKeys = {"a"}
    Values = {1}
    NoKeyVal = NoKeyVal
    MaxGrowth = 2
    InitialCaps = {0, 1, 2}
    MaxDict = 1
INVARIANT TextReadBack
