--------------------------- MODULE MCElementLists ---------------------------
(***************************************************************************)
(* ElementLists with elements and words that are alike.                    *)
(***************************************************************************)
EXTENDS ElementLists, TLC

MCStrings == {s \in SeqOf(Words, 2) : IsInjective(s)}
Alike == Permutations(Elements) \cup Permutations(Words)
=============================================================================
