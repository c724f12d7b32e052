SPECIFICATION Spec
CONSTANTS
    Millis <- MCMillis
    DurationWord <- MCDurationWord
    Alphabet <- MCAlphabet
    Documents <- MCDocuments
INVARIANTS RoundTripKeeps AcceptedInOrder
PROPERTY EveryTurnAdvances
