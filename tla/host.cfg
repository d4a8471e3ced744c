\* Reads may time out, and the program may end in a call.
SPECIFICATION FairSpec
CONSTANTS
    Travel = 4
    Lo = 1
    Hi = 3
    BackOff = 2
    Sweep = 4
    Pool = 2
    Armed = 1
    TxLimit = 1
    MaxSteps = 2
    PosBound = 1
INVARIANTS
    TypeOK
    AnswerIsOwn
    HostPosition
PROPERTIES
    CalibrationCounts
    PositionTrue
    StatusOfAxis
    ImplementsAxis
    CallsReturn
