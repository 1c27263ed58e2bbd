SPECIFICATION Spec
CONSTANTS
    Sources <- MCSources
    ParamSets <- MCParamSets
    IntBits = 8
    VorbisBits = 4
    MaxPacket = 3
INVARIANTS
    LameHearsTheSource
    ForeseenSizeIsExact
    ForeseenVbrSizeSuffices
CHECK_DEADLOCK FALSE
