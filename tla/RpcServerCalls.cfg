CONSTANTS
    MaxList = 2
    MaxFaults = 2
    Failing <- MCFailing

SPECIFICATION Spec

INVARIANTS
    TypeOK
    CallsFaithful
    FreesAreSound
    NothingKept

PROPERTY ServesAgain
