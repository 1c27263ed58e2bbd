SPECIFICATION Spec
CONSTANTS
    r1 = r1
    r2 = r2
    NoReader = NoReader
    Zero = "zero"
    NoByte = "unwritten"
    Byte <- MCByte
    MaxVbrFrame = 2
    Readers <- OneReader
    Sources <- VbrSources
    ParamSets <- NoCacheVbr
    Offsets <- FewOffsets
    Lengths <- FewLengths
    StaleSizes <- NoStale
    FaultKinds <- NoFaults
    MaxFaults = 0
PROPERTY VbrTailReplacesPlaceholderOnly
