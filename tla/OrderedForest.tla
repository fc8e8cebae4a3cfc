--------------------------- MODULE OrderedForest ---------------------------
(***************************************************************************)
(* What the methods that change a DOM tree promise: the children of each   *)
(* node are a sequence; nodes are put into it at a place, moved out of a   *)
(* fragment, taken out and destroyed, each call in one step.               *)
(***************************************************************************)
EXTENDS Integers, Sequences, FiniteSets, SequencesExt

CONSTANTS Nodes, Fragments, MaxList

VARIABLE kids   \* the children of each node, in their order

Children(k, n) == ToSet(k[n])
Roots(k) == Nodes \ UNION {Children(k, p) : p \in Nodes}

Below(k, n) ==
    LET down[i \in 0..Cardinality(Nodes)] ==
            [m \in Nodes |-> {m} \cup IF i = 0 THEN {} ELSE UNION {down[i - 1][c] : c \in Children(k, m)}]
    IN  down[Cardinality(Nodes)][n]

\* What a list of nodes to insert stands for: a fragment for its children.
Contents(k, ns) == FlattenSeq([i \in DOMAIN ns |-> IF ns[i] \in Fragments THEN k[ns[i]] ELSE <<ns[i]>>])

\* ns as children of p, after the first i of them; fragments are empty then.
Inserted(k, p, i, ns) ==
    [n \in Nodes |-> IF n = p THEN SubSeq(k[p], 1, i) \o Contents(k, ns) \o SubSeq(k[p], i + 1, Len(k[p]))
                     ELSE IF n \in ToSet(ns) \cap Fragments THEN <<>> ELSE k[n]]

Without(k, n) == [p \in Nodes |-> RemoveFirst(k[p], n)]

Emptied(k, S) == [n \in Nodes |-> IF n \in S THEN <<>> ELSE k[n]]

\* Lists of trees of their own, and the nodes that may take them as children.
Lists(k) == {ns \in SeqOf(Roots(k), MaxList) : IsInjective(ns)}
Takers(k, ns) == Nodes \ UNION {Below(k, ns[j]) : j \in DOMAIN ns}

----------------------------------------------------------------------------
\* append_child(), insert_before(), append(), prepend(), before() and after()
Insertions(k, ns) ==
    UNION {{Inserted(k, p, i, ns) : i \in 0..Len(k[p])} : p \in Takers(k, ns)}

\* replace_child(), replace_with(): the old child is out, the new ones are in its place
Replacements(k, ns) ==
    UNION {{Without(Inserted(k, p, i - 1, ns), k[p][i]) : i \in 1..Len(k[p])} : p \in Takers(k, ns)}

\* replace_children(); text and inner HTML destroy what was below, too
Refills(k, ns) ==
    {Inserted(Emptied(k, {p}), p, 0, ns) : p \in Takers(k, ns)}
        \cup {Inserted(Emptied(k, Below(k, p)), p, 0, ns) : p \in Takers(k, ns)}

\* remove(), remove_child(); decompose() and the drop of an orphan's last handle
Removals(k) == {Without(k, n) : n \in Nodes}
Destructions(k) == {Emptied(Without(k, n), Below(k, n)) : n \in Nodes}

\* The document is given up, and with it all nodes.
Empty == [n \in Nodes |-> <<>>]

Init == kids = Empty

Next ==
    \/ kids' \in Removals(kids) \cup Destructions(kids) \cup {Empty}
    \/ \E ns \in Lists(kids) :
          kids' \in Insertions(kids, ns) \cup Replacements(kids, ns) \cup Refills(kids, ns)

Spec == Init /\ [][Next]_kids
=============================================================================
