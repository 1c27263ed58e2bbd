SPECIFICATION Spec
CONSTANTS
    r1 = r1
    r2 = r2
    NoReader = NoReader
    Zero = "zero"
    NoByte = "unwritten"
    Byte <- MCByte
    MaxVbrFrame = 2
    Readers <- OneReader
    Sources <- AllSources
    ParamSets <- AllParams
    Offsets <- ManyOffsets
    Lengths <- ManyLengths
    StaleSizes <- TooShortOrLong
    FaultKinds <- AllFaults
    MaxFaults = 2
INVARIANTS
    NoUnwrittenByteServed
PROPERTIES
    SizeNeverChanges
    FilledBytesStable
    MainOnlyGrows
    CachedSizeApproachesTrueSize
    VbrTailInMain
