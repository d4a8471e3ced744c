\* A motor that coasts by one edge each time its outputs are cut.
SPECIFICATION FairSpec
CONSTANTS
    Travel = 6
    Lo = 2
    Hi = 4
    Coast = 1
    MaxSteps = 2
    Paced = TRUE
PROPERTIES
    Converges
