SPECIFICATION ReadableSpec
CONSTANTS
    Capacity = 3
    None = None
    Keys = {"a:", "A:", "b:"}
    Lower <- LowerCase
    Texts = {"x"}
    Limits = {6, 20}
    MaxMoves = 2
    MaxParses = 2
    MaxEdits = 1
    MaxPieces = 3
INVARIANTS BufferIsThePiece ReadsTheBlock StandsWhereItShould ReadsBack
PROPERTY EditsAreSeen
CHECK_DEADLOCK FALSE
