SPECIFICATION Spec
CONSTANTS
    ByteValues = 4
    WordBytes = 2
    UnusedBytes = 1
    TextFrame <- MCTextFrame
    Token <- MCToken
    Pictures <- MCPictures
    Files <- MCFiles
    GainParams <- MCGainParams
INVARIANTS GainIsApplied
CHECK_DEADLOCK FALSE
