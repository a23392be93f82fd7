\* Three lines and two pings.
CONSTANTS
    Lines = 3
    MaxPings = 2
SPECIFICATION FairScannerSpec
INVARIANTS LinesInTurn OneWriter
PROPERTIES ReturnsPromptly
