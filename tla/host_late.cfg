\* A status that is read after the reply to an earlier query has come late.
SPECIFICATION Spec
CONSTANTS
    Travel = 4
    Lo = 1
    Hi = 3
    BackOff = 2
    Sweep = 4
    Pool = 2
    Armed = 1
    TxLimit = 1
    MaxSteps = 2
    PosBound = 1
PROPERTIES
    StatusIsCurrent
