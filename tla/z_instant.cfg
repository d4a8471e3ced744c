\* Commands only at rest, a motor that stops at once.
SPECIFICATION FairSpec
CONSTANTS
    Travel = 6
    Lo = 2
    Hi = 4
    Coast = 0
    MaxSteps = 2
    Paced = TRUE
INVARIANTS
    Tracks
    OverrunBounded
PROPERTIES
    Converges
