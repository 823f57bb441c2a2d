SPECIFICATION Spec
CONSTANTS
    Width = 16
    Half = 8
    Messages <- MCMessages
    Strings <- MCStrings
    Ints <- MCInts
    Times <- MCTimes
    Unknown <- MCUnknown
    Receivers <- MCReceivers
    Alphabet <- MCAlphabet
    MaxSet <- MCMaxSet
    MaxReceived = 4
INVARIANTS
    RoundTrip
    TruncationRefused
    UnknownFieldsSkipped
CHECK_DEADLOCK FALSE
