----------------------------- MODULE NodeLinks -----------------------------
(***************************************************************************)
(* The five link fields of a DOM node and the functions of Lexbor that     *)
(* change them, as far as the Rust DOM relies on them.  Lexbor is not part *)
(* of the repository: what an insertion does not do (take the node out of  *)
(* its old place, reset the pointers of a fragment) is what the comments   *)
(* in dom/traits.rs say and work around.                                   *)
(***************************************************************************)

EXTENDS Naturals, Sequences, FiniteSets

CONSTANTS Nodes,   \* the memory cells for nodes
          Null     \* the null pointer

ASSUME NodesAssumption == IsFiniteSet(Nodes) /\ Null \notin Nodes

Pointers == [Nodes -> Nodes \cup {Null}]

Links == [parent : Pointers, prev : Pointers, next : Pointers,
          first_child : Pointers, last_child : Pointers]

NoLinks ==
    LET none == [n \in Nodes |-> Null]
    IN  [parent |-> none, prev |-> none, next |-> none,
         first_child |-> none, last_child |-> none]

(***************************************************************************)
(* A node and what is below it: the smallest set with n that holds, of     *)
(* every node in it, the nodes that it is the parent of.                   *)
(***************************************************************************)
Closed(t, S) == \A k \in Nodes : t.parent[k] \in S => k \in S

Subtree(t, n) ==
    LET around == {S \in SUBSET Nodes : n \in S /\ Closed(t, S)}
    IN  {m \in Nodes : \A S \in around : m \in S}

Loose(t, n) == t.parent[n] = Null /\ t.prev[n] = Null /\ t.next[n] = Null

(***************************************************************************)
(* lxb_dom_node_insert_child(to, n), lxb_dom_node_insert_before(to, n) and *)
(* lxb_dom_node_remove(n).  The two insertions leave the node's old        *)
(* neighbours and parent as they are.                                      *)
(***************************************************************************)
InsertChild(t, to, n) ==
    LET last == t.last_child[to]
    IN  [parent |-> [t.parent EXCEPT ![n] = to],
         prev   |-> [t.prev EXCEPT ![n] = last],
         next   |-> [m \in Nodes |-> IF m = n THEN Null
                                ELSE IF m = last THEN n ELSE t.next[m]],
         first_child |-> IF last = Null THEN [t.first_child EXCEPT ![to] = n]
                                        ELSE t.first_child,
         last_child  |-> [t.last_child EXCEPT ![to] = n]]

InsertBefore(t, to, n) ==
    LET before == t.prev[to]
        p      == t.parent[to]
    IN  [parent |-> [t.parent EXCEPT ![n] = p],
         prev   |-> [m \in Nodes |-> IF m = to THEN n
                                ELSE IF m = n THEN before ELSE t.prev[m]],
         next   |-> [m \in Nodes |-> IF m = n THEN to
                                ELSE IF m = before THEN n ELSE t.next[m]],
         first_child |-> IF before = Null /\ p # Null
                         THEN [t.first_child EXCEPT ![p] = n] ELSE t.first_child,
         last_child  |-> t.last_child]

Unlink(t, n) ==
    LET p == t.parent[n]
    IN  [parent |-> [t.parent EXCEPT ![n] = Null],
         prev   |-> [m \in Nodes |-> IF m = n THEN Null
                                ELSE IF m = t.next[n] THEN t.prev[n] ELSE t.prev[m]],
         next   |-> [m \in Nodes |-> IF m = n THEN Null
                                ELSE IF m = t.prev[n] THEN t.next[n] ELSE t.next[m]],
         first_child |-> [m \in Nodes |-> IF m = p /\ t.first_child[m] = n
                                          THEN t.next[n] ELSE t.first_child[m]],
         last_child  |-> [m \in Nodes |-> IF m = p /\ t.last_child[m] = n
                                          THEN t.prev[n] ELSE t.last_child[m]]]

\* Every node of D is taken out of the tree, and its own pointers reset.
Isolate(t, D) ==
    LET reset(f) == [m \in Nodes |-> IF m \in D THEN Null ELSE f[m]]
    IN  [parent |-> reset(t.parent), prev |-> reset(t.prev), next |-> reset(t.next),
         first_child |-> reset(t.first_child), last_child |-> reset(t.last_child)]

\* lxb_dom_node_destroy_deep(n), and the same for all that is below n only.
DestroyDeep(t, n) == Isolate(Unlink(t, n), Subtree(t, n))
DestroyBelow(t, n) ==
    LET u == Isolate(t, Subtree(t, n) \ {n})
    IN  [u EXCEPT !.first_child[n] = Null, !.last_child[n] = Null]

\* A fragment's own pointers to children that were moved away.
ForgetChildren(t, n) ==
    [t EXCEPT !.first_child[n] = Null, !.last_child[n] = Null]

\* The children of a node, from the first along the next pointers.
Kids(t, p) ==
    LET along[k \in 0..Cardinality(Nodes)] ==
            [m \in Nodes \cup {Null} |->
                IF m = Null \/ k = 0 THEN <<>> ELSE <<m>> \o along[k - 1][t.next[m]]]
    IN  along[Cardinality(Nodes)][t.first_child[p]]

(***************************************************************************)
(* The links of all nodes agree with each other, but for those of the      *)
(* nodes of F to their children, and of the nodes of M to their siblings:  *)
(* what is the next of n has n before it, siblings have one parent, a      *)
(* parent knows its first and last child, a node without parent has no     *)
(* siblings, and the children of F are M.                                  *)
(***************************************************************************)
SiblingsAgree(t, M) ==
    \A n \in Nodes \ M :
        /\ t.parent[n] = Null => t.prev[n] = Null /\ t.next[n] = Null
        /\ t.next[n] # Null => /\ t.next[n] \notin M
                               /\ t.prev[t.next[n]] = n
                               /\ t.parent[t.next[n]] = t.parent[n]
        /\ t.prev[n] # Null => /\ t.prev[n] \notin M
                               /\ t.next[t.prev[n]] = n
                               /\ t.parent[t.prev[n]] = t.parent[n]

ParentsAgree(t, F) ==
    \A p \in Nodes \ F :
        /\ t.first_child[p] = Null <=> t.last_child[p] = Null
        /\ t.first_child[p] # Null => /\ t.parent[t.first_child[p]] = p
                                      /\ t.prev[t.first_child[p]] = Null
        /\ t.last_child[p] # Null => /\ t.parent[t.last_child[p]] = p
                                     /\ t.next[t.last_child[p]] = Null

EndsAgree(t, F, M) ==
    \A n \in Nodes : t.parent[n] # Null =>
        /\ n \in M <=> t.parent[n] \in F
        /\ n \notin M /\ t.prev[n] = Null => t.first_child[t.parent[n]] = n
        /\ n \notin M /\ t.next[n] = Null => t.last_child[t.parent[n]] = n

Linked(t, F, M) == SiblingsAgree(t, M) /\ ParentsAgree(t, F) /\ EndsAgree(t, F, M)
=============================================================================
