SPECIFICATION Spec
CONSTANTS
    Null = Null
    d = d
    e = e
    x = x
    y = y
    f = f
    Nodes <- MCNodes
    Document = d
    Fragments <- MCFragments
    Texts <- MCTexts
    MaxHandles = 1
    MaxHeld = 2
    MaxList = 2
SYMMETRY Alike
INVARIANTS WellLinked NoDangling VisitsInOrder
PROPERTY ImplementsForest
CHECK_DEADLOCK TRUE
