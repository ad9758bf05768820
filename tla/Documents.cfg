SPECIFICATION Spec
CONSTANTS
    ExpLimit = 10
    Levels = 7
    Literals <- MCLiterals
    OutOfRange = {"1e999"}
    Docs <- MCDocs
    DepthOf <- LevelsOf
    Deepest = 3
    SavedAs <- RdbOf
    RespReplyOf <- RespOf
    WrittenAs <- TextAt
    ReadBackOf <- Reread
    Formats <- MCFormats
    Encodings <- MCEncodings
    Alphabet <- MCAlphabet
    InStrings <- MCInStrings
    MaxText = 7
    Reused = FALSE
    Nodes = {1, 2, 3, 4, 5}
    Garbage = Garbage
    Powers <- MCPowers
    CHUNK_SIZE = 2
    MaxArray = 4
    Counts = {0, 1, 2}
    Indexes <- MCIndexes
    DictKeys = {"a", "b", "c"}
    Values = {1, 2, 3, 4}
    NoKeyVal = NoKeyVal
    MaxGrowth = 1
    InitialCaps = {0, 1, 2}
    MaxDict = 3
INVARIANTS SerializedRight RdbRoundTrip TextReadBack StacksParallel ParsedFaithfully
    OwnedOnce WithinCapacity DictSound
PROPERTIES CommandsEnd ArrayIsSequence DictIsMap
