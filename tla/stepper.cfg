\* Two steps of free travel beyond each switch.
SPECIFICATION FairSpec
CONSTANTS
    Travel = 7
    Lo = 2
    Hi = 5
    MaxSteps = 3
    MaxDir = 3
    CountMod = 65536
    PosBound = 6
INVARIANTS
    TypeOK
    HomedPosition
PROPERTIES
    MovesAreExact
    ImplementsAxis
    MainReturns
