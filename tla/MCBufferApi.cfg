SPECIFICATION Spec
CONSTANTS
    Zero <- MCZero
    Byte <- MCByte
    Data <- MCData
    MaxMain = 4
    MaxOffset = 5
INVARIANTS
    ValidMeansFilled
    MaxValidIsMaximal
    CopyIsTheSlice
PROPERTIES
    TruncatingWriteIsInvisible
    ExtendingWriteKeepsAll
