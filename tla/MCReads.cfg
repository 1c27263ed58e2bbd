SPECIFICATION FairSpec
CONSTANTS
    r1 = r1
    r2 = r2
    NoReader = NoReader
    Zero = "zero"
    NoByte = "unwritten"
    Byte <- MCByte
    MaxVbrFrame = 2
    Readers <- BothReaders
    Sources <- MixedSources
    ParamSets <- NoCache
    Offsets <- FewOffsets
    Lengths <- FewLengths
    StaleSizes <- NoStale
    FaultKinds <- TransientWithCbr
    MaxFaults = 1
INVARIANTS
    TypeOK
    NoPlaceholderServed
PROPERTIES
    ImplementsRegularFile
    DecodingReadReturns
