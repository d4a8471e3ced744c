\* Commands only at rest, a motor that runs on for up to Coast edges.
SPECIFICATION FairSpec
CONSTANTS
    Travel = 6
    Lo = 2
    Hi = 4
    Coast = 1
    MaxSteps = 2
    Paced = TRUE
INVARIANTS
    TypeOK
    TargetInRange
    CalibratedRange
    OutputsExclusive
PROPERTIES
    CalibrationEnds
