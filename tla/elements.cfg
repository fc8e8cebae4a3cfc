SPECIFICATION Spec
CONSTANTS
    Null = Null
    Document = d
    Elements = {e1, e2, e3}
    Words = {a, b}
    Names = {"class", "id"}
    Strings <- MCStrings
    MaxWords = 2
    MaxAttrs = 2
    MaxChanges = 1
SYMMETRY Alike
INVARIANTS ClassListsAreSets LoopsMissNothing LookupsAgree
CHECK_DEADLOCK TRUE
