SPECIFICATION Spec
CONSTANTS
    Texts <- MCTexts
    Values <- MCValues
    Denotes <- MCDenotes
    Unit = 10
    Kept = 100
    Exact = 128
    MaxInt = 512
    MaxItems = 4
INVARIANT
    RoundTrip
PROPERTY
    Terminates
