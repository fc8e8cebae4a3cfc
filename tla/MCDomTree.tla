----------------------------- MODULE MCDomTree -----------------------------
(***************************************************************************)
(* DomTree with a document, an element, two texts and a fragment.           *)
(***************************************************************************)
EXTENDS DomTree, TLC

CONSTANTS d, e, x, y, f

MCNodes == {d, e, x, y, f}
MCFragments == {f}
MCTexts == {x, y}

Alike == Permutations({x, y})
=============================================================================
