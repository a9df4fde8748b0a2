SPECIFICATION MessageSpec
CONSTANTS
    Messages <- MCMessages
    Given <- MCGiven
    Guard = 6
    OffsetSpace = 40
    Nothing = Nothing
INVARIANTS
    MessageTypeOK
    NamesReadBack
    CursorMovesOn
    MessageReadsBack
PROPERTIES
    NamesUntouched
    ReadingEnds
