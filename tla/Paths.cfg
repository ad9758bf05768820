SPECIFICATION Spec
CONSTANTS
    Unknown = Unknown
    Letters <- MCLetters
    Alphabet <- MCAlphabet
    Names <- MCNames
    Numbers <- MCNumbers
    IntBits = 8
    CapLimit = 4
    MaxString = 6
    MaxNodes = 5
INVARIANTS CachePathFaithful SpellingsUnderstood NodesFitCapacity
