\* A device that loses its configuration after a command.
SPECIFICATION Spec
CONSTANTS
    Axes = {"Y"}
    NoAxis = NoAxis
    Pool = 3
    Armed = 1
    TxLimit = 1
    MaxSent = 2
    MaxResets = 1
PROPERTIES
    NothingReceivedNothingDone
