\* Commands at any moment, also while the axis still moves.
SPECIFICATION Spec
CONSTANTS
    Travel = 6
    Lo = 2
    Hi = 4
    Coast = 0
    MaxSteps = 2
    Paced = FALSE
INVARIANTS
    TargetInRange
    DriveCounted
