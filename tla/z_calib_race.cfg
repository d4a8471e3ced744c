\* Commands at any moment: a tick may fall between the outputs-off and timer-end statements.
SPECIFICATION FairSpec
CONSTANTS
    Travel = 6
    Lo = 2
    Hi = 4
    Coast = 0
    MaxSteps = 2
    Paced = FALSE
PROPERTIES
    CalibrationEnds
