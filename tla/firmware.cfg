\* A host that configures the device once, anew, or to 0, at any moment.
SPECIFICATION FairSpec
CONSTANTS
    Axes = {"Y"}
    NoAxis = NoAxis
    Pool = 4
    Armed = 2
    TxLimit = 2
    MaxSent = 3
    MaxResets = 1
INVARIANTS
    TypeOK
    RepliesInOrder
    ReplyAnswersQuery
PROPERTIES
    ExecutedOnceInOrder
    Responsive
    CommandsGetThrough
    ImplementsLink
