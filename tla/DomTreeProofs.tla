--------------------------- MODULE DomTreeProofs ---------------------------
(***************************************************************************)
(* For any number of nodes, handles and nodes in a list: the links of all  *)
(* nodes agree, no handle outlives its node, and an iteration comes by     *)
(* what stays below its root once and in order.                            *)
(*                                                                         *)
(* The proof goes in five parts.  Lexbor's functions keep the links in     *)
(* order where the Rust code calls them.  What Subtree, Kids and Advance   *)
(* compute: the tree has no cycles and neither have the siblings (there    *)
(* are depths that grow from parent to child, and ranks that grow from a   *)
(* node to the next), so that a recursion over the size of the tree        *)
(* reaches the end.  Then the invariant, which says besides of the call    *)
(* under way what it has checked, and that every action keeps it.  At      *)
(* last, the order of the document that the ranks give, in which Advance   *)
(* leads on by one node, and which moves and destructions leave as it is   *)
(* for all other nodes.                                                    *)
(***************************************************************************)
EXTENDS DomTree, FiniteSetTheorems, SequenceTheorems, WellFoundedInduction, TLAPS

Iters == [root : Nodes \cup {Null}, next : Nodes \cup {Null}, item : Nodes \cup {Null},
          owed : SUBSET Nodes, done : SUBSET Nodes]

USE DEF Iters

----------------------------------------------------------------------------
\* Lexbor's functions keep the links in order: an insertion of a node with no place in a
\* tree yet, or of a child of the fragment that is being emptied, a removal, a destruction.
LEMMA InsertChildLinks ==
    ASSUME NEW u \in Links, NEW F \in SUBSET Nodes, NEW M \in SUBSET Nodes, Linked(u, F, M),
           NEW n \in Nodes, NEW p \in Nodes, n # p, p \notin F, n \in M \/ Loose(u, n)
    PROVE  /\ InsertChild(u, p, n) \in Links
           /\ Linked(InsertChild(u, p, n), F, M \ {n})
<1> DEFINE v == InsertChild(u, p, n)
<1>1. v \in Links
  BY DEF InsertChild, Links, Pointers
<1>2. SiblingsAgree(v, M \ {n})
  BY NodesAssumption DEF InsertChild, Links, Pointers, Linked, SiblingsAgree, ParentsAgree, EndsAgree, Loose
<1>3. ParentsAgree(v, F)
  BY NodesAssumption DEF InsertChild, Links, Pointers, Linked, SiblingsAgree, ParentsAgree, EndsAgree, Loose
<1>4. EndsAgree(v, F, M \ {n})
  BY NodesAssumption DEF InsertChild, Links, Pointers, Linked, SiblingsAgree, ParentsAgree, EndsAgree, Loose
<1> QED BY <1>1, <1>2, <1>3, <1>4 DEF Linked

LEMMA InsertBeforeLinks ==
    ASSUME NEW u \in Links, NEW F \in SUBSET Nodes, NEW M \in SUBSET Nodes, Linked(u, F, M),
           NEW n \in Nodes, NEW c \in Nodes, n # c, u.parent[c] \in Nodes \ F, u.parent[c] # n,
           n \in M \/ Loose(u, n)
    PROVE  /\ InsertBefore(u, c, n) \in Links
           /\ Linked(InsertBefore(u, c, n), F, M \ {n})
<1> DEFINE v == InsertBefore(u, c, n)
<1>1. v \in Links
  BY DEF InsertBefore, Links, Pointers
<1>2. SiblingsAgree(v, M \ {n})
  BY NodesAssumption DEF InsertBefore, Links, Pointers, Linked, SiblingsAgree, ParentsAgree, EndsAgree, Loose
<1>3. ParentsAgree(v, F)
  BY NodesAssumption DEF InsertBefore, Links, Pointers, Linked, SiblingsAgree, ParentsAgree, EndsAgree, Loose
<1>4. EndsAgree(v, F, M \ {n})
  BY NodesAssumption DEF InsertBefore, Links, Pointers, Linked, SiblingsAgree, ParentsAgree, EndsAgree, Loose
<1> QED BY <1>1, <1>2, <1>3, <1>4 DEF Linked

LEMMA UnlinkLinks ==
    ASSUME NEW u \in Links, Linked(u, {}, {}), NEW n \in Nodes
    PROVE  Unlink(u, n) \in Links /\ Linked(Unlink(u, n), {}, {})
<1>1. Unlink(u, n) \in Links
  BY DEF Unlink, Links, Pointers
<1>2. SiblingsAgree(Unlink(u, n), {})
  BY NodesAssumption DEF Unlink, Links, Pointers, Linked, SiblingsAgree, ParentsAgree, EndsAgree
<1>3. ParentsAgree(Unlink(u, n), {})
  BY NodesAssumption DEF Unlink, Links, Pointers, Linked, SiblingsAgree, ParentsAgree, EndsAgree
<1>4. EndsAgree(Unlink(u, n), {}, {})
  BY NodesAssumption DEF Unlink, Links, Pointers, Linked, SiblingsAgree, ParentsAgree, EndsAgree
<1> QED BY <1>1, <1>2, <1>3, <1>4 DEF Linked

\* D is closed under children, and its nodes are not linked to others.
LEMMA IsolateLinks ==
    ASSUME NEW u \in Links, Linked(u, {}, {}), NEW D \in SUBSET Nodes, Closed(u, D),
           \A k \in D : u.parent[k] \in D \cup {Null}
    PROVE  Isolate(u, D) \in Links /\ Linked(Isolate(u, D), {}, {})
<1>1. Isolate(u, D) \in Links
  BY DEF Isolate, Links, Pointers
<1>2. SiblingsAgree(Isolate(u, D), {})
  BY NodesAssumption DEF Isolate, Links, Pointers, Linked, SiblingsAgree, ParentsAgree, EndsAgree, Closed
<1>3. ParentsAgree(Isolate(u, D), {})
  BY NodesAssumption DEF Isolate, Links, Pointers, Linked, SiblingsAgree, ParentsAgree, EndsAgree, Closed
<1>4. EndsAgree(Isolate(u, D), {}, {})
  BY NodesAssumption DEF Isolate, Links, Pointers, Linked, SiblingsAgree, ParentsAgree, EndsAgree, Closed
<1> QED BY <1>1, <1>2, <1>3, <1>4 DEF Linked

\* The end of a fragment's insertion.
LEMMA ForgetLinks ==
    ASSUME NEW u \in Links, NEW f \in Nodes, Linked(u, {f}, {})
    PROVE  ForgetChildren(u, f) \in Links /\ Linked(ForgetChildren(u, f), {}, {})
<1>1. ForgetChildren(u, f) \in Links
  BY DEF ForgetChildren, Links, Pointers
<1>2. SiblingsAgree(ForgetChildren(u, f), {})
  BY NodesAssumption DEF ForgetChildren, Links, Pointers, Linked, SiblingsAgree, ParentsAgree, EndsAgree
<1>3. ParentsAgree(ForgetChildren(u, f), {})
  BY NodesAssumption DEF ForgetChildren, Links, Pointers, Linked, SiblingsAgree, ParentsAgree, EndsAgree
<1>4. EndsAgree(ForgetChildren(u, f), {}, {})
  BY NodesAssumption DEF ForgetChildren, Links, Pointers, Linked, SiblingsAgree, ParentsAgree, EndsAgree
<1> QED BY <1>1, <1>2, <1>3, <1>4 DEF Linked

\* What is below p is destroyed, and p left without children.
LEMMA DestroyBelowLinks ==
    ASSUME NEW u \in Links, Linked(u, {}, {}), NEW p \in Nodes, NEW D \in SUBSET Nodes, p \notin D,
           \A k \in Nodes : k \in D <=> u.parent[k] \in D \cup {p},
           NEW v, v = ForgetChildren(Isolate(u, D), p)
    PROVE  v \in Links /\ Linked(v, {}, {})
<1>1. v \in Links
  BY ZenonT(60) DEF ForgetChildren, Isolate, Links, Pointers
<1>2. \A k \in Nodes :
        /\ v.parent[k] = IF k \in D THEN Null ELSE u.parent[k]
        /\ v.prev[k] = IF k \in D THEN Null ELSE u.prev[k]
        /\ v.next[k] = IF k \in D THEN Null ELSE u.next[k]
        /\ v.first_child[k] = IF k \in D \cup {p} THEN Null ELSE u.first_child[k]
        /\ v.last_child[k] = IF k \in D \cup {p} THEN Null ELSE u.last_child[k]
  BY DEF ForgetChildren, Isolate, Links, Pointers
<1>3. SiblingsAgree(v, {})
  BY <1>2, NodesAssumption, SMTT(30) DEF Links, Pointers, Linked, SiblingsAgree
<1>4. ParentsAgree(v, {})
  BY <1>2, NodesAssumption, SMTT(30) DEF Links, Pointers, Linked, ParentsAgree
<1>5. EndsAgree(v, {}, {})
  BY <1>2, NodesAssumption, SMTT(30) DEF Links, Pointers, Linked, SiblingsAgree, EndsAgree
<1> QED BY <1>1, <1>3, <1>4, <1>5 DEF Linked

----------------------------------------------------------------------------
\* The nodes below a node, as the least set that is closed under children.
LEMMA SubtreeIsClosed ==
    ASSUME NEW u \in Links, NEW n \in Nodes
    PROVE  n \in Subtree(u, n) /\ Subtree(u, n) \subseteq Nodes /\ Closed(u, Subtree(u, n))
BY DEF Subtree, Closed

LEMMA SubtreeIsLeast ==
    ASSUME NEW u \in Links, NEW n \in Nodes, NEW S \in SUBSET Nodes, n \in S, Closed(u, S)
    PROVE  Subtree(u, n) \subseteq S
BY DEF Subtree

\* They depend on the parents only.
LEMMA SubtreeByParents ==
    ASSUME NEW u \in Links, NEW v \in Links, u.parent = v.parent, NEW n
    PROVE  Subtree(u, n) = Subtree(v, n)
BY DEF Subtree, Closed

\* The parent of what is below r is r or below r.
LEMMA SubtreeUp ==
    ASSUME NEW u \in Links, NEW r \in Nodes, NEW m \in Subtree(u, r), m # r
    PROVE  u.parent[m] \in Subtree(u, r)
<1> SUFFICES ASSUME u.parent[m] \notin Subtree(u, r) PROVE FALSE
  OBVIOUS
<1> DEFINE S == Subtree(u, r) \ {m}
<1>1. S \in SUBSET Nodes /\ r \in S
  BY SubtreeIsClosed
<1>2. Closed(u, S)
  BY SubtreeIsClosed DEF Closed
<1> QED BY <1>1, <1>2, SubtreeIsLeast

LEMMA SubtreeIsTransitive ==
    ASSUME NEW u \in Links, NEW r \in Nodes, NEW m \in Subtree(u, r)
    PROVE  Subtree(u, m) \subseteq Subtree(u, r)
BY SubtreeIsClosed, SubtreeIsLeast

\* What numbers the nodes so that no node is below itself or beside itself.
Deepens(u, depth) == \A n \in Nodes : u.parent[n] # Null => depth[u.parent[n]] < depth[n]
Rises(u, M, rank) == \A n \in Nodes \ M : u.next[n] # Null => rank[n] < rank[u.next[n]]

\* Where depths grow from parent to child, nothing is below itself.
LEMMA SubtreeIsDeeper ==
    ASSUME NEW u \in Links, NEW depth \in [Nodes -> Nat], Deepens(u, depth),
           NEW r \in Nodes, NEW m \in Subtree(u, r), m # r
    PROVE  depth[r] < depth[m]
<1> DEFINE S == {r} \cup {k \in Nodes : depth[r] < depth[k]}
<1>1. Closed(u, S)
  BY NodesAssumption DEF Closed, Deepens, Links, Pointers
<1>2. S \in SUBSET Nodes /\ r \in S
  OBVIOUS
<1>3. Subtree(u, r) \subseteq S
  BY <1>1, <1>2, SubtreeIsLeast
<1> QED BY <1>3

LEMMA SubtreeIsBelow ==
    ASSUME NEW u \in Links, NEW depth \in [Nodes -> Nat], Deepens(u, depth), NEW n \in Nodes
    PROVE  /\ u.parent[n] \notin Subtree(u, n)
           /\ \A m \in Subtree(u, n) : n \in Subtree(u, m) => m = n
<1>1. ASSUME u.parent[n] \in Subtree(u, n) PROVE FALSE
  <2>1. u.parent[n] \in Nodes /\ u.parent[n] # Null
    BY <1>1, SubtreeIsClosed, NodesAssumption
  <2>2. depth[u.parent[n]] < depth[n] /\ depth[n] \in Nat /\ depth[u.parent[n]] \in Nat
    BY <2>1 DEF Deepens
  <2>3. u.parent[n] # n
    BY <2>2
  <2>4. depth[n] < depth[u.parent[n]]
    BY <1>1, <2>1, <2>3, SubtreeIsDeeper
  <2> QED BY <2>2, <2>4
<1>2. ASSUME NEW m \in Subtree(u, n), n \in Subtree(u, m), m # n PROVE FALSE
  <2>1. m \in Nodes
    BY SubtreeIsClosed
  <2>2. depth[n] < depth[m] /\ depth[m] < depth[n]
    BY <1>2, <2>1, SubtreeIsDeeper
  <2> QED BY <2>1, <2>2
<1> QED BY <1>1, <1>2

\* What keeps the parents outside a closed set D keeps what is below r outside of it.
LEMMA SubtreeOutside ==
    ASSUME NEW u \in Links, NEW v \in Links, NEW D \in SUBSET Nodes, Closed(u, D),
           \A k \in Nodes \ D : v.parent[k] = u.parent[k],
           NEW r \in Nodes, NEW m \in Subtree(u, r), m \notin D
    PROVE  m \in Subtree(v, r)
<1> SUFFICES ASSUME NEW S \in SUBSET Nodes, r \in S, Closed(v, S) PROVE m \in S
  BY SubtreeIsClosed DEF Subtree
<1>1. Closed(u, S \cup D)
  BY DEF Closed
<1>2. Subtree(u, r) \subseteq S \cup D
  BY <1>1, SubtreeIsLeast
<1> QED BY <1>2

\* Moving nodes from and to places outside of what is below r leaves that as it is.
LEMMA SubtreeElsewhere ==
    ASSUME NEW u \in Links, NEW v \in Links, NEW n \in Nodes,
           \A k \in Nodes \ {n} : v.parent[k] = u.parent[k],
           NEW r \in Nodes, v.parent[n] \notin Subtree(u, r)
    PROVE  /\ Subtree(v, r) \subseteq Subtree(u, r)
           /\ u.parent[n] \notin Subtree(u, r) => Subtree(v, r) = Subtree(u, r)
<1>1. Closed(v, Subtree(u, r))
  BY SubtreeIsClosed DEF Closed
<1>2. Subtree(v, r) \subseteq Subtree(u, r)
  BY <1>1, SubtreeIsClosed, SubtreeIsLeast
<1>3. ASSUME u.parent[n] \notin Subtree(u, r) PROVE Subtree(u, r) \subseteq Subtree(v, r)
  <2>1. Closed(u, Subtree(v, r))
    BY <1>2, <1>3, SubtreeIsClosed DEF Closed
  <2> QED BY <2>1, SubtreeIsClosed, SubtreeIsLeast
<1> QED BY <1>2, <1>3

----------------------------------------------------------------------------
Deep(u) == \E depth \in [Nodes -> Nat] : Deepens(u, depth)
Rising(u, M) == \E rank \in [Nodes -> Nat] : Rises(u, M, rank)

\* A tree stays one when a node is moved to where it is not above.
LEMMA MoveKeepsDeep ==
    ASSUME NEW u \in Links, NEW v \in Links, Deep(u), NEW n \in Nodes, NEW p \in Nodes,
           v.parent = [u.parent EXCEPT ![n] = p], p \notin Subtree(u, n)
    PROVE  Deep(v)
<1>1. PICK depth \in [Nodes -> Nat] : Deepens(u, depth)
  BY DEF Deep
<1> DEFINE D == Subtree(u, n)
           deeper == [m \in Nodes |-> IF m \in D THEN depth[m] + depth[p] + 1 ELSE depth[m]]
<1>2. deeper \in [Nodes -> Nat]
  OBVIOUS
<1>3. n \in D /\ p \notin D /\ Closed(u, D) /\ \A m \in D : m # n => u.parent[m] \in D
  BY SubtreeIsClosed, SubtreeUp
<1> HIDE DEF D
<1>4. ASSUME NEW m \in Nodes, v.parent[m] # Null PROVE deeper[v.parent[m]] < deeper[m]
  <2>1. CASE m = n
    <3>1. v.parent[m] = p
      BY <2>1 DEF Links, Pointers
    <3>2. depth[p] \in Nat /\ depth[n] \in Nat
      OBVIOUS
    <3> QED BY <1>3, <2>1, <3>1, <3>2
  <2>2. CASE m # n
    <3>1. v.parent[m] = u.parent[m] /\ u.parent[m] \in Nodes
      BY <1>4, <2>2 DEF Links, Pointers
    <3>2. depth[u.parent[m]] < depth[m] /\ depth[p] \in Nat
      BY <1>1, <1>4, <3>1 DEF Deepens
    <3>3. m \in D <=> u.parent[m] \in D
      BY <1>3, <2>2, <3>1 DEF Closed
    <3>4. depth[u.parent[m]] \in Nat /\ depth[m] \in Nat
      BY <3>1
    <3> QED BY <3>1, <3>2, <3>3, <3>4
  <2> QED BY <2>1, <2>2
<1> QED BY <1>2, <1>4 DEF Deep, Deepens

LEMMA CutKeepsDeep ==
    ASSUME NEW u \in Links, NEW v \in Links, Deep(u),
           \A m \in Nodes : v.parent[m] \in {u.parent[m], Null}
    PROVE  Deep(v)
<1>1. PICK depth \in [Nodes -> Nat] : Deepens(u, depth)
  BY DEF Deep
<1>2. Deepens(v, depth)
  BY <1>1 DEF Deepens
<1> QED BY <1>2 DEF Deep

\* Ranks that order the nodes outside of D as before.
SameOrder(rank, later, D) == \A a, b \in Nodes \ D : later[a] < later[b] <=> rank[a] < rank[b]

LEMMA InsertChildRanks ==
    ASSUME NEW u \in Links, NEW F \in SUBSET Nodes, NEW M \in SUBSET Nodes, Linked(u, F, M),
           NEW rank \in [Nodes -> Nat], Rises(u, M, rank),
           NEW n \in Nodes, NEW p \in Nodes, n # p, p \notin F, n \in M \/ Loose(u, n)
    PROVE  \E later \in [Nodes -> Nat] :
              Rises(InsertChild(u, p, n), M \ {n}, later) /\ SameOrder(rank, later, {n})
<1> DEFINE v == InsertChild(u, p, n)
           last == u.last_child[p]
<1> DEFINE risen == [rank EXCEPT ![n] = IF last = Null THEN 0 ELSE rank[last] + 1]
<1>2. risen \in [Nodes -> Nat]
  BY DEF Links, Pointers
<1>3. \A m \in Nodes \ M : u.next[m] # n
  BY NodesAssumption DEF Linked, SiblingsAgree, Loose
<1>4. last # Null => last # n /\ u.next[last] = Null
  BY NodesAssumption DEF Linked, ParentsAgree, EndsAgree, Loose, Links, Pointers
<1>5. ASSUME NEW m \in Nodes \ (M \ {n}), v.next[m] # Null PROVE risen[m] < risen[v.next[m]]
  <2>1. m # n
    BY <1>5 DEF InsertChild
  <2>2. CASE m = last
    <3>1. v.next[m] = n
      BY <2>1, <2>2 DEF InsertChild
    <3>2. last # Null /\ rank[last] \in Nat
      BY <2>2, NodesAssumption
    <3> QED BY <1>4, <2>2, <3>1, <3>2
  <2>3. CASE m # last
    <3>1. v.next[m] = u.next[m]
      BY <2>1, <2>3 DEF InsertChild
    <3>2. rank[m] < rank[u.next[m]] /\ u.next[m] \in Nodes /\ u.next[m] # n
      BY <1>3, <1>5, <2>1, <3>1 DEF Rises, Links, Pointers
    <3> QED BY <2>1, <3>1, <3>2
  <2> QED BY <2>2, <2>3
<1>6. SameOrder(rank, risen, {n})
  <2>1. \A m \in Nodes \ {n} : risen[m] = rank[m]
    OBVIOUS
  <2> HIDE DEF risen
  <2> QED BY <2>1 DEF SameOrder
<1> QED BY <1>2, <1>5, <1>6 DEF Rises

LEMMA InsertBeforeRanks ==
    ASSUME NEW u \in Links, NEW F \in SUBSET Nodes, NEW M \in SUBSET Nodes, Linked(u, F, M),
           NEW rank \in [Nodes -> Nat], Rises(u, M, rank),
           NEW n \in Nodes, NEW c \in Nodes, n # c, u.parent[c] \in Nodes \ F,
           n \in M \/ Loose(u, n)
    PROVE  \E later \in [Nodes -> Nat] :
              Rises(InsertBefore(u, c, n), M \ {n}, later) /\ SameOrder(rank, later, {n})
<1> DEFINE v == InsertBefore(u, c, n)
           before == u.prev[c]
<1> DEFINE risen == [m \in Nodes |-> IF m = n THEN 2 * rank[c] + 1 ELSE 2 * rank[m] + 2]
<1>2. risen \in [Nodes -> Nat]
  OBVIOUS
<1>3. \A m \in Nodes \ M : u.next[m] # n
  BY NodesAssumption DEF Linked, SiblingsAgree, Loose
<1>4. c \notin M /\ (before # Null => before \in Nodes \ M /\ u.next[before] = c /\ before # n)
  BY <1>3, NodesAssumption DEF Linked, SiblingsAgree, EndsAgree, Loose, Links, Pointers
<1>5. ASSUME NEW m \in Nodes \ (M \ {n}), v.next[m] # Null PROVE risen[m] < risen[v.next[m]]
  <2>1. CASE m = n
    <3>1. v.next[m] = c
      BY <2>1 DEF InsertBefore
    <3> QED BY <2>1, <3>1
  <2>2. CASE m # n /\ m = before
    <3>1. v.next[m] = n
      BY <2>2 DEF InsertBefore
    <3>2. rank[before] < rank[c] /\ rank[c] \in Nat /\ rank[before] \in Nat
      BY <1>4, <2>2, NodesAssumption DEF Rises
    <3> QED BY <2>2, <3>1, <3>2
  <2>3. CASE m # n /\ m # before
    <3>1. v.next[m] = u.next[m]
      BY <2>3 DEF InsertBefore
    <3>2. rank[m] < rank[u.next[m]] /\ u.next[m] \in Nodes /\ u.next[m] # n
      BY <1>3, <1>5, <2>3, <3>1 DEF Rises, Links, Pointers
    <3>3. rank[m] \in Nat /\ rank[u.next[m]] \in Nat
      BY <3>2
    <3> QED BY <2>3, <3>1, <3>2, <3>3
  <2> QED BY <2>1, <2>2, <2>3
<1>6. SameOrder(rank, risen, {n})
  <2> SUFFICES ASSUME NEW a \in Nodes \ {n}, NEW b \in Nodes \ {n} PROVE risen[a] < risen[b] <=> rank[a] < rank[b]
    BY DEF SameOrder
  <2>1. risen[a] = 2 * rank[a] + 2 /\ risen[b] = 2 * rank[b] + 2 /\ rank[a] \in Nat /\ rank[b] \in Nat
    OBVIOUS
  <2> HIDE DEF risen
  <2> QED BY <2>1
<1> QED BY <1>2, <1>5, <1>6 DEF Rises

LEMMA UnlinkRanks ==
    ASSUME NEW u \in Links, Linked(u, {}, {}), NEW rank \in [Nodes -> Nat], Rises(u, {}, rank), NEW n \in Nodes
    PROVE  Rises(Unlink(u, n), {}, rank)
<1>2. ASSUME NEW m \in Nodes, Unlink(u, n).next[m] # Null PROVE rank[m] < rank[Unlink(u, n).next[m]]
  <2>1. m # n
    BY <1>2 DEF Unlink
  <2>2. CASE m = u.prev[n]
    <3>1. Unlink(u, n).next[m] = u.next[n] /\ u.next[n] \in Nodes
      BY <1>2, <2>1, <2>2 DEF Unlink, Links, Pointers
    <3>2. u.next[m] = n
      BY <2>2, NodesAssumption DEF Linked, SiblingsAgree
    <3>3. rank[m] < rank[n] /\ rank[n] < rank[u.next[n]]
      BY <3>1, <3>2, NodesAssumption DEF Rises
    <3>4. rank[m] \in Nat /\ rank[n] \in Nat /\ rank[u.next[n]] \in Nat
      BY <3>1
    <3> QED BY <3>1, <3>3, <3>4
  <2>3. CASE m # u.prev[n]
    <3>1. Unlink(u, n).next[m] = u.next[m]
      BY <2>1, <2>3 DEF Unlink
    <3> QED BY <1>2, <3>1 DEF Rises
  <2> QED BY <2>2, <2>3
<1> QED BY <1>2 DEF Rises

\* The siblings stay in an order: next never leads back.
LEMMA InsertChildRises ==
    ASSUME NEW u \in Links, NEW F \in SUBSET Nodes, NEW M \in SUBSET Nodes, Linked(u, F, M), Rising(u, M),
           NEW n \in Nodes, NEW p \in Nodes, n # p, p \notin F, n \in M \/ Loose(u, n)
    PROVE  Rising(InsertChild(u, p, n), M \ {n})
<1>1. PICK rank \in [Nodes -> Nat] : Rises(u, M, rank)
  BY DEF Rising
<1> QED BY <1>1, InsertChildRanks DEF Rising

LEMMA InsertBeforeRises ==
    ASSUME NEW u \in Links, NEW F \in SUBSET Nodes, NEW M \in SUBSET Nodes, Linked(u, F, M), Rising(u, M),
           NEW n \in Nodes, NEW c \in Nodes, n # c, u.parent[c] \in Nodes \ F,
           n \in M \/ Loose(u, n)
    PROVE  Rising(InsertBefore(u, c, n), M \ {n})
<1>1. PICK rank \in [Nodes -> Nat] : Rises(u, M, rank)
  BY DEF Rising
<1> QED BY <1>1, InsertBeforeRanks DEF Rising

LEMMA UnlinkRises ==
    ASSUME NEW u \in Links, Linked(u, {}, {}), Rising(u, {}), NEW n \in Nodes
    PROVE  Rising(Unlink(u, n), {})
BY UnlinkRanks DEF Rising

LEMMA CutRises ==
    ASSUME NEW u \in Links, NEW v \in Links, NEW M \in SUBSET Nodes, Rising(u, M),
           \A m \in Nodes \ M : v.next[m] \in {u.next[m], Null}
    PROVE  Rising(v, M)
<1>1. PICK rank \in [Nodes -> Nat] : Rises(u, M, rank)
  BY DEF Rising
<1>2. Rises(v, M, rank)
  BY <1>1 DEF Rises
<1> QED BY <1>2 DEF Rising

----------------------------------------------------------------------------
\* A node that is moved to another place, but not below itself: m stays below r.
LEMMA StaysBelow ==
    ASSUME NEW u \in Links, NEW v \in Links, Deep(u), NEW n \in Nodes,
           \A k \in Nodes \ {n} : v.parent[k] = u.parent[k], v.parent[n] \notin Subtree(u, n),
           NEW r \in Nodes, NEW m \in Subtree(u, r),
           m \in Subtree(u, n) => r \in Subtree(u, n)
    PROVE  m \in Subtree(v, r)
<1>1. PICK depth \in [Nodes -> Nat] : Deepens(u, depth)
  BY DEF Deep
<1>2. n \in Subtree(u, n) /\ Closed(u, Subtree(u, n)) /\ Subtree(u, n) \in SUBSET Nodes
  BY SubtreeIsClosed
<1>3. CASE m \notin Subtree(u, n)
  BY <1>2, <1>3, SubtreeOutside
<1>4. CASE r \in Subtree(u, n)
  <2>1. Subtree(u, r) \subseteq Subtree(u, n)
    BY <1>4, SubtreeIsTransitive
  <2>2. u.parent[n] \notin Subtree(u, n)
    BY <1>1, SubtreeIsBelow
  <2>3. v.parent[n] \notin Subtree(u, r) /\ u.parent[n] \notin Subtree(u, r)
    BY <2>1, <2>2
  <2>4. Subtree(v, r) = Subtree(u, r)
    BY <2>3, SubtreeElsewhere
  <2> QED BY <2>4
<1> QED BY <1>3, <1>4

\* A node without a parent that is put somewhere: all that was below r is still there.
LEMMA SubtreeGrows ==
    ASSUME NEW u \in Links, NEW v \in Links, NEW n \in Nodes, u.parent[n] = Null,
           \A k \in Nodes \ {n} : v.parent[k] = u.parent[k], NEW r \in Nodes
    PROVE  Subtree(u, r) \subseteq Subtree(v, r)
<1>1. Closed(u, Subtree(v, r))
  BY SubtreeIsClosed, NodesAssumption DEF Closed
<1> QED BY <1>1, SubtreeIsClosed, SubtreeIsLeast

----------------------------------------------------------------------------
(* The less-than relation of the numbers has no endless descent, so that a  *)
(* set of numbers has a least one: which takes the place of induction.      *)
LEMMA LessDescends == IsWellFoundedOn({p \in Nat \X Nat : p[1] < p[2]}, Nat)
BY NatLessThanWellFounded DEF OpToRel

LEMMA LeastNumber ==
  ASSUME NEW S \in SUBSET Nat, S # {}
  PROVE  \E m \in S : \A n \in S : m <= n
<1>1. PICK m \in S : \A n \in S : ~ (<<n, m>> \in {p \in Nat \X Nat : p[1] < p[2]})
  BY LessDescends, WFMin
<1>2. ASSUME NEW n \in S PROVE m <= n
  <2>1. <<n, m>> \in Nat \X Nat  OBVIOUS
  <2>2. ~ (n < m)  BY <1>1, <2>1
  <2> QED  BY <2>2
<1> QED  BY <1>2

\* Of any nodes there is a lowest one.
LEMMA LowestNode ==
    ASSUME NEW rank \in [Nodes -> Nat], NEW S \in SUBSET Nodes, S # {}
    PROVE  \E n \in S : \A m \in S : rank[n] <= rank[m]
<1> DEFINE R == {rank[n] : n \in S}
<1>1. R \in SUBSET Nat /\ R # {}
  OBVIOUS
<1>2. PICK r \in R : \A s \in R : r <= s
  BY <1>1, LeastNumber
<1> QED BY <1>2

\* Who has children has a first one.
LEMMA HasFirst ==
    ASSUME NEW u \in Links, NEW F \in SUBSET Nodes, NEW M \in SUBSET Nodes, Linked(u, F, M), Rising(u, M),
           NEW p \in Nodes \ F, NEW k \in Nodes, u.parent[k] = p
    PROVE  u.first_child[p] # Null
<1>1. PICK rank \in [Nodes -> Nat] : Rises(u, M, rank)
  BY DEF Rising
<1> DEFINE S == {m \in Nodes : u.parent[m] = p}
<1>2. PICK n \in S : \A m \in S : rank[n] <= rank[m]
  BY LowestNode
<1>3. n \in Nodes /\ u.parent[n] = p /\ p # Null /\ n \notin M
  BY NodesAssumption DEF Linked, EndsAgree
<1>4. u.prev[n] = Null
  <2> SUFFICES ASSUME u.prev[n] # Null PROVE FALSE
    OBVIOUS
  <2>1. u.prev[n] \in S /\ u.next[u.prev[n]] = n /\ u.prev[n] \notin M
    BY <1>3 DEF Linked, SiblingsAgree, Links, Pointers
  <2>2. rank[u.prev[n]] < rank[n]
    BY <1>1, <2>1, NodesAssumption DEF Rises
  <2>3. rank[n] <= rank[u.prev[n]] /\ rank[n] \in Nat /\ rank[u.prev[n]] \in Nat
    BY <1>2, <2>1
  <2> QED BY <2>2, <2>3
<1>5. u.first_child[p] = n
  BY <1>3, <1>4 DEF Linked, EndsAgree
<1> QED BY <1>3, <1>5, NodesAssumption

----------------------------------------------------------------------------
\* The functions that Kids and Advance recur on.
Size == Cardinality(Nodes)
AlongEqn(u, along) ==
    along = [k \in 0..Size |-> [m \in Nodes \cup {Null} |->
                IF m = Null \/ k = 0 THEN <<>> ELSE <<m>> \o along[k - 1][u.next[m]]]]

LEMMA SizeType == Size \in Nat
BY NodesAssumption, FS_CardinalityType DEF Size

LEMMA KidsAlong ==
    ASSUME NEW u, NEW p
    PROVE  Kids(u, p) = (CHOOSE along : AlongEqn(u, along))[Size][u.first_child[p]]
BY DEF Kids, AlongEqn, Size
\* The functions exist: otherwise CHOOSE would say nothing of what Kids follows.
LEMMA AlongExists ==
    ASSUME NEW u \in Links
    PROVE  \E along : AlongEqn(u, along)
<1> DEFINE Ptr == Nodes \cup {Null}
           Upto(j, f) == f = [k \in 0..j |-> [m \in Ptr |->
                                 IF m = Null \/ k = 0 THEN <<>> ELSE <<m>> \o f[k - 1][u.next[m]]]]
           Missing == {j \in Nat : ~ \E f : Upto(j, f)}
<1>1. \E f : Upto(0, f)
  <2> DEFINE f == [k \in 0..0 |-> [m \in Ptr |-> <<>>]]
  <2>1. Upto(0, f)
    OBVIOUS
  <2> QED BY <2>1
<1>2. ASSUME NEW j \in Nat, NEW f, Upto(j, f) PROVE \E g : Upto(j + 1, g)
  <2> DEFINE g == [k \in 0..(j + 1) |-> [m \in Ptr |->
                      IF m = Null \/ k = 0 THEN <<>> ELSE <<m>> \o f[k - 1][u.next[m]]]]
  <2>1. ASSUME NEW k \in 0..j, NEW m \in Ptr PROVE g[k][m] = f[k][m]
    <3>1. k \in 0..(j + 1)
      OBVIOUS
    <3>2. f[k] = [i \in Ptr |-> IF i = Null \/ k = 0 THEN <<>> ELSE <<i>> \o f[k - 1][u.next[i]]]
      BY <1>2
    <3> QED BY <3>1, <3>2
  <2>2. ASSUME NEW k \in 0..(j + 1), NEW m \in Ptr, m # Null, k # 0
        PROVE  f[k - 1][u.next[m]] = g[k - 1][u.next[m]]
    <3>1. k - 1 \in 0..j /\ u.next[m] \in Ptr
      BY <2>2 DEF Links, Pointers
    <3> QED BY <2>1, <3>1
  <2> DEFINE h == [k \in 0..(j + 1) |-> [m \in Ptr |->
                      IF m = Null \/ k = 0 THEN <<>> ELSE <<m>> \o g[k - 1][u.next[m]]]]
  <2>3. \A k \in 0..(j + 1), m \in Ptr : g[k][m] = h[k][m]
    BY <2>2
  <2>4. g = h
    BY <2>3
  <2> QED BY <2>4
<1>3. Missing = {}
  <2> SUFFICES ASSUME Missing # {} PROVE FALSE
    OBVIOUS
  <2>1. Missing \in SUBSET Nat
    OBVIOUS
  <2>2. PICK j \in Missing : \A i \in Missing : j <= i
    BY <2>1, LeastNumber
  <2>3. j \in Nat /\ j # 0
    BY <1>1
  <2>4. j - 1 \in Nat /\ j - 1 \notin Missing
    <3> HIDE DEF Missing
    <3>1. j - 1 \in Nat /\ ~ (j <= j - 1)
      BY <2>3
    <3> QED BY <2>2, <3>1
  <2>5. PICK f : Upto(j - 1, f)
    BY <2>4
  <2> HIDE DEF Upto
  <2>6. \E g : Upto((j - 1) + 1, g)
    BY <1>2, <2>4, <2>5
  <2>7. (j - 1) + 1 = j
    BY <2>3
  <2> QED BY <2>6, <2>7
<1>4. \E f : Upto(Size, f)
  BY <1>3, SizeType
<1> QED BY <1>4 DEF AlongEqn
\* A sequence of siblings that starts with m, cut off after k of them.
Chain(u, rank, s, m, k) ==
    /\ s \in Seq(Nodes) /\ Len(s) <= k
    /\ m = Null => Len(s) = 0
    /\ m # Null /\ k > 0 => Len(s) > 0 /\ s[1] = m
    /\ \A i \in 1..Len(s) : u.parent[s[i]] = u.parent[m] /\ rank[m] <= rank[s[i]]
    /\ \A i, j \in 1..Len(s) : i < j => rank[s[i]] < rank[s[j]]
    /\ \A i \in 1..(Len(s) - 1) : u.next[s[i]] = s[i + 1]
    /\ Len(s) < k => \A i \in 1..Len(s) : u.next[s[i]] # Null => \E j \in 1..Len(s) : s[j] = u.next[s[i]]

\* What is found along the next pointers in k steps from m: m, what comes after it, and all of it
\* if the rest of the siblings is not longer than k.
LEMMA ChainStep ==
    ASSUME NEW u \in Links, NEW F \in SUBSET Nodes, NEW M \in SUBSET Nodes, Linked(u, F, M),
           NEW rank \in [Nodes -> Nat], Rises(u, M, rank),
           NEW m \in Nodes \ M, NEW k \in Nat, NEW s, Chain(u, rank, s, u.next[m], k)
    PROVE  Chain(u, rank, <<m>> \o s, m, k + 1)
<1> DEFINE w == <<m>> \o s
           next == u.next[m]
<1>1. s \in Seq(Nodes) /\ Len(s) \in Nat /\ Len(s) <= k
  BY DEF Chain
<1>2. w \in Seq(Nodes) /\ Len(w) = Len(s) + 1 /\ w[1] = m
  BY <1>1
<1>3. \A i \in 1..Len(s) : w[i + 1] = s[i]
  BY <1>1
<1>4. \A i \in 1..Len(w) : i = 1 \/ (i - 1 \in 1..Len(s) /\ w[i] = s[i - 1])
  <2>1. ASSUME NEW i \in 1..Len(w), i # 1 PROVE i - 1 \in 1..Len(s) /\ w[i] = s[i - 1]
    <3>1. i - 1 \in 1..Len(s) /\ (i - 1) + 1 = i
      BY <1>1, <1>2, <2>1
    <3> QED BY <1>3, <3>1
  <2> QED BY <2>1
<1>5. next # Null => next \in Nodes /\ u.parent[next] = u.parent[m] /\ rank[m] < rank[next]
  BY NodesAssumption DEF Linked, SiblingsAgree, Rises, Links, Pointers
<1>6. \A i \in 1..Len(s) : next # Null /\ s[i] \in Nodes /\ u.parent[s[i]] = u.parent[next] /\ rank[next] <= rank[s[i]]
  BY <1>1 DEF Chain
<1>7. \A i \in 1..Len(s) : u.parent[s[i]] = u.parent[m] /\ rank[m] < rank[s[i]] /\ rank[s[i]] \in Nat
  <2> TAKE i \in 1..Len(s)
  <2>1. rank[m] \in Nat /\ rank[next] \in Nat /\ rank[s[i]] \in Nat
    BY <1>5, <1>6
  <2> QED BY <1>5, <1>6, <2>1
<1> HIDE DEF w
<1>8. \A i \in 1..Len(w) : u.parent[w[i]] = u.parent[m] /\ rank[m] <= rank[w[i]]
  <2> TAKE i \in 1..Len(w)
  <2>1. rank[m] \in Nat
    OBVIOUS
  <2>2. CASE i = 1
    BY <1>2, <2>1, <2>2
  <2>3. CASE i # 1
    <3>1. i - 1 \in 1..Len(s) /\ w[i] = s[i - 1]
      BY <1>4, <2>3
    <3>2. u.parent[w[i]] = u.parent[m] /\ rank[m] < rank[w[i]] /\ rank[w[i]] \in Nat
      BY <1>7, <3>1
    <3> QED BY <2>1, <3>2
  <2> QED BY <2>2, <2>3
<1>9. ASSUME NEW i \in 1..Len(w), NEW j \in 1..Len(w), i < j PROVE rank[w[i]] < rank[w[j]]
  <2>1. j # 1 /\ j - 1 \in 1..Len(s) /\ w[j] = s[j - 1]
    BY <1>2, <1>4, <1>9
  <2>2. CASE i = 1
    BY <1>2, <1>7, <2>1, <2>2
  <2>3. CASE i # 1
    <3>1. i - 1 \in 1..Len(s) /\ w[i] = s[i - 1] /\ i - 1 < j - 1
      BY <1>4, <1>9, <2>3
    <3>2. \A a, b \in 1..Len(s) : a < b => rank[s[a]] < rank[s[b]]
      BY DEF Chain
    <3> QED BY <2>1, <3>1, <3>2
  <2> QED BY <2>2, <2>3
<1>10. ASSUME Len(w) < k + 1, NEW i \in 1..Len(w), u.next[w[i]] # Null
       PROVE  \E j \in 1..Len(w) : w[j] = u.next[w[i]]
  <2>1. Len(s) < k
    BY <1>1, <1>2, <1>10
  <2>2. CASE i = 1
    <3>1. Len(s) > 0 /\ s[1] = next
      BY <1>2, <1>10, <2>1, <2>2 DEF Chain
    <3>2. 1 \in 1..Len(s) /\ 1 + 1 = 2 /\ 2 \in 1..Len(w)
      BY <1>1, <1>2, <3>1
    <3>3. w[2] = next
      BY <1>3, <3>1, <3>2
    <3> QED BY <1>2, <2>2, <3>2, <3>3
  <2>3. CASE i # 1
    <3>1. i - 1 \in 1..Len(s) /\ w[i] = s[i - 1]
      BY <1>4, <2>3
    <3>2. PICK j \in 1..Len(s) : s[j] = u.next[s[i - 1]]
      BY <1>10, <2>1, <3>1 DEF Chain
    <3>3. j + 1 \in 1..Len(w) /\ w[j + 1] = s[j]
      <4>1. Len(s) \in Nat /\ j \in 1..Len(s)
        BY <1>1
      <4> QED BY <1>2, <1>3, <4>1
    <3> QED BY <3>1, <3>2, <3>3
  <2> QED BY <2>2, <2>3
<1>11. ASSUME NEW i \in 1..(Len(w) - 1) PROVE u.next[w[i]] = w[i + 1]
  <2>1. i \in 1..Len(s) /\ w[i + 1] = s[i]
    <3>1. i \in 1..Len(s)
      BY <1>1, <1>2
    <3> QED BY <1>3, <3>1
  <2>2. CASE i = 1
    <3>1. next # Null /\ k > 0
      BY <1>1, <1>6, <2>1
    <3>2. s[1] = next
      BY <3>1 DEF Chain
    <3> QED BY <1>2, <2>1, <2>2, <3>2
  <2>3. CASE i # 1
    <3>1. i - 1 \in 1..(Len(s) - 1) /\ (i - 1) + 1 = i /\ i \in 1..Len(w)
      BY <1>1, <1>2, <2>1, <2>3
    <3>2. u.next[s[i - 1]] = s[(i - 1) + 1]
      BY <3>1 DEF Chain
    <3>3. w[i] = s[i - 1]
      BY <1>4, <2>3, <3>1
    <3> QED BY <2>1, <3>1, <3>2, <3>3
  <2> QED BY <2>2, <2>3
<1>12. Chain(u, rank, w, m, k + 1)
  <2>1. m # Null /\ Len(w) > 0 /\ Len(w) <= k + 1
    BY <1>1, <1>2, NodesAssumption
  <2> QED BY <1>2, <1>8, <1>9, <1>10, <1>11, <2>1 DEF Chain
<1> QED BY <1>12 DEF w

LEMMA AlongIsChain ==
    ASSUME NEW u \in Links, NEW F \in SUBSET Nodes, NEW M \in SUBSET Nodes, Linked(u, F, M),
           NEW rank \in [Nodes -> Nat], Rises(u, M, rank), NEW along, AlongEqn(u, along)
    PROVE  \A k \in 0..Size : \A m \in (Nodes \ M) \cup {Null} : Chain(u, rank, along[k][m], m, k)
<1> DEFINE Good(k) == \A m \in (Nodes \ M) \cup {Null} : Chain(u, rank, along[k][m], m, k)
           Bad == {k \in 0..Size : ~ Good(k)}
<1>1. \A k \in 0..Size : along[k] = [m \in Nodes \cup {Null} |->
          IF m = Null \/ k = 0 THEN <<>> ELSE <<m>> \o along[k - 1][u.next[m]]]
  BY DEF AlongEqn
<1>2. \A k \in Nat, m \in Nodes \cup {Null} : m = Null \/ k = 0 => Chain(u, rank, <<>>, m, k)
  <2> TAKE k \in Nat, m \in Nodes \cup {Null}
  <2>1. <<>> \in Seq(Nodes) /\ Len(<<>>) = 0
    OBVIOUS
  <2> QED BY <2>1 DEF Chain
<1>3. Bad = {}
  <2> SUFFICES ASSUME Bad # {} PROVE FALSE
    OBVIOUS
  <2>1. Bad \in SUBSET Nat
    BY SizeType
  <2>2. PICK k \in Bad : \A j \in Bad : k <= j
    BY <2>1, LeastNumber
  <2>3. k \in 0..Size /\ k \in Nat
    BY SizeType
  <2>4. k = 0 \/ (k - 1 \in Nat /\ k - 1 \in 0..Size /\ ~ (k <= k - 1))
    BY <2>3, SizeType
  <2>5. k = 0 \/ Good(k - 1)
    BY <2>2, <2>4
  <2>6. ASSUME NEW m \in (Nodes \ M) \cup {Null} PROVE Chain(u, rank, along[k][m], m, k)
    <3>1. CASE m = Null \/ k = 0
      <4>1. along[k][m] = <<>>
        BY <1>1, <2>3, <3>1
      <4> QED BY <1>2, <2>3, <3>1, <4>1
    <3>2. CASE ~ (m = Null \/ k = 0)
      <4>1. along[k][m] = <<m>> \o along[k - 1][u.next[m]]
        BY <1>1, <2>3, <3>2
      <4>2. u.next[m] \in (Nodes \ M) \cup {Null} /\ m \in Nodes \ M
        BY <3>2 DEF Links, Pointers, Linked, SiblingsAgree
      <4>3. Chain(u, rank, along[k - 1][u.next[m]], u.next[m], k - 1)
        BY <2>5, <3>2, <4>2
      <4>4. k - 1 \in Nat /\ (k - 1) + 1 = k
        BY <2>3, <2>4, <3>2
      <4>5. Chain(u, rank, <<m>> \o along[k - 1][u.next[m]], m, (k - 1) + 1)
        BY <4>2, <4>3, <4>4, ChainStep
      <4> QED BY <4>1, <4>4, <4>5
    <3> QED BY <3>1, <3>2
  <2> QED BY <2>2, <2>6
<1> QED BY <1>3

\* What Kids lists: from the first to the last, all with this parent.
IsKids(u, p, s) ==
    /\ s \in Seq(Nodes)
    /\ s = <<>> => u.first_child[p] = Null
    /\ s # <<>> => s[1] = u.first_child[p] /\ u.next[s[Len(s)]] = Null
    /\ \A i \in 1..(Len(s) - 1) : u.next[s[i]] = s[i + 1]
    /\ \A i \in 1..Len(s) : u.parent[s[i]] = p

\* Kids lists the nodes with this parent in their order, also while other nodes are moved.
LEMMA KidsInOrder ==
    ASSUME NEW u \in Links, NEW F \in SUBSET Nodes, NEW M \in SUBSET Nodes, Linked(u, F, M), Rising(u, M),
           NEW p \in Nodes \ F
    PROVE  /\ IsKids(u, p, Kids(u, p)) /\ IsInjective(Kids(u, p))
           /\ ToSet(Kids(u, p)) = {k \in Nodes : u.parent[k] = p}
<1>1. PICK rank \in [Nodes -> Nat] : Rises(u, M, rank)
  BY DEF Rising
<1> DEFINE along == CHOOSE along : AlongEqn(u, along)
           first == u.first_child[p]
           s == along[Size][first]
           Missed == {k \in Nodes : u.parent[k] = p} \ ToSet(s)
<1>2. Kids(u, p) = s
  BY KidsAlong
<1>3. AlongEqn(u, along)
  BY AlongExists
<1> HIDE DEF along
<1>4. first \in Nodes \cup {Null} /\ Size \in Nat /\ Size \in 0..Size
  BY SizeType DEF Links, Pointers
<1>5. Chain(u, rank, s, first, Size)
  <2>1. first # Null => u.parent[first] = p /\ p # Null
    BY NodesAssumption DEF Linked, ParentsAgree
  <2>2. first # Null => first \notin M
    BY <1>4, <2>1 DEF Linked, EndsAgree
  <2>3. first \in (Nodes \ M) \cup {Null}
    BY <1>4, <2>2
  <2> QED BY <1>1, <1>3, <1>4, <2>3, AlongIsChain
<1> HIDE DEF s
<1>6. s \in Seq(Nodes) /\ Len(s) \in Nat /\ Len(s) <= Size
  BY <1>5 DEF Chain
<1>7. \A i \in 1..Len(s) : s[i] \in Nodes
  BY <1>6
<1>8. ASSUME NEW i \in 1..Len(s), NEW j \in 1..Len(s), s[i] = s[j] PROVE i = j
  <2>1. \A a, b \in 1..Len(s) : a < b => rank[s[a]] < rank[s[b]]
    BY <1>5 DEF Chain
  <2>2. ~ (rank[s[i]] < rank[s[j]]) /\ ~ (rank[s[j]] < rank[s[i]])
    <3>1. rank[s[i]] = rank[s[j]] /\ rank[s[i]] \in Nat
      BY <1>7, <1>8
    <3> QED BY <3>1
  <2> QED BY <1>6, <2>1, <2>2
<1>9. DOMAIN s = 1..Len(s) /\ ToSet(s) = {s[i] : i \in 1..Len(s)}
  BY <1>6 DEF ToSet
<1>10. IsInjective(s)
  BY <1>8, <1>9 DEF IsInjective
<1>11. first # Null => u.parent[first] = p /\ u.prev[first] = Null
  BY DEF Linked, ParentsAgree
<1>12. first # Null => u.parent[first] = p
  BY <1>11
<1>13. \A k \in ToSet(s) : k \in Nodes /\ u.parent[k] = p
  BY <1>5, <1>6, <1>7, <1>9, <1>12 DEF Chain
<1>14. Missed = {}
  <2> SUFFICES ASSUME Missed # {} PROVE FALSE
    OBVIOUS
  <2>1. PICK k \in Missed : \A j \in Missed : rank[k] <= rank[j]
    <3>1. Missed \in SUBSET Nodes
      OBVIOUS
    <3> QED BY <3>1, LowestNode
  <2>2. k \in Nodes /\ u.parent[k] = p /\ k \notin ToSet(s) /\ p # Null /\ k \notin M
    <3>1. k \in Nodes /\ u.parent[k] = p /\ k \notin ToSet(s) /\ p # Null
      BY NodesAssumption
    <3> QED BY <3>1 DEF Linked, EndsAgree
  <2>3. first # Null /\ Size > 0
    <3>1. first # Null
      BY <2>2, HasFirst
    <3>2. Nodes # {} /\ IsFiniteSet(Nodes)
      BY NodesAssumption, <2>2
    <3>3. Size # 0
      BY <3>2, FS_EmptySet DEF Size
    <3> QED BY <1>4, <3>1, <3>3
  <2>4. first \in ToSet(s)
    BY <1>5, <1>6, <1>9, <2>3 DEF Chain
  <2>5. CASE Len(s) < Size
    <3>1. u.prev[k] # Null
      BY <2>2, <2>4, NodesAssumption DEF Linked, EndsAgree
    <3>2. u.prev[k] \in Nodes /\ u.next[u.prev[k]] = k /\ u.parent[u.prev[k]] = p /\ u.prev[k] \notin M
      BY <2>2, <3>1 DEF Linked, SiblingsAgree, Links, Pointers
    <3>3. u.prev[k] \notin ToSet(s)
      <4> SUFFICES ASSUME u.prev[k] \in ToSet(s) PROVE FALSE
        OBVIOUS
      <4>1. PICK i \in 1..Len(s) : s[i] = u.prev[k]
        BY <1>9
      <4>2. u.next[s[i]] = k /\ k # Null
        BY <2>2, <3>2, <4>1, NodesAssumption
      <4>3. \E j \in 1..Len(s) : s[j] = k
        BY <1>5, <2>5, <4>2 DEF Chain
      <4> QED BY <1>9, <2>2, <4>3
    <3>4. rank[k] <= rank[u.prev[k]]
      BY <2>1, <3>2, <3>3
    <3>5. rank[u.prev[k]] < rank[k]
      BY <1>1, <2>2, <3>2, NodesAssumption DEF Rises
    <3>6. rank[k] \in Nat /\ rank[u.prev[k]] \in Nat
      BY <2>2, <3>2
    <3> QED BY <3>4, <3>5, <3>6
  <2>6. CASE Len(s) = Size
    <3>1. s \in Injection(1..Len(s), Nodes)
      <4>1. s \in [1..Len(s) -> Nodes]
        BY <1>6, <1>7, <1>9
      <4> QED BY <1>9, <1>10, <4>1 DEF Injection
    <3>2. IsFiniteSet(Nodes)
      BY NodesAssumption
    <3>3. Cardinality(1..Len(s)) = Cardinality(Nodes)
      <4>1. Cardinality(1..Len(s)) = Len(s)
        BY <1>6, <2>3, <2>6, FS_Interval
      <4> QED BY <2>6, <4>1 DEF Size
    <3>4. s \in Surjection(1..Len(s), Nodes)
      BY <3>1, <3>2, <3>3, FS_Injection
    <3>5. k \in ToSet(s)
      BY <1>9, <2>2, <3>4 DEF Surjection
    <3> QED BY <2>2, <3>5
  <2> QED BY <1>4, <1>6, <2>5, <2>6
<1>15. ToSet(s) = {k \in Nodes : u.parent[k] = p}
  BY <1>13, <1>14
<1>16. s = <<>> => first = Null
  <2> SUFFICES ASSUME s = <<>>, first # Null PROVE FALSE
    OBVIOUS
  <2>1. first \in ToSet(s)
    BY <1>4, <1>12, <1>15
  <2> QED BY <2>1, <1>9
<1>17. ASSUME s # <<>> PROVE s[1] = first /\ u.next[s[Len(s)]] = Null
  <2>1. Len(s) \in 1..Len(s) /\ 1 \in 1..Len(s) /\ Size > 0
    BY <1>4, <1>6, <1>17
  <2>2. first # Null
    BY <2>1, <1>5 DEF Chain
  <2>3. s[1] = first
    BY <2>1, <2>2, <1>5 DEF Chain
  <2>4. ASSUME u.next[s[Len(s)]] # Null PROVE FALSE
    <3> DEFINE n == s[Len(s)]
               m == u.next[n]
    <3>1. n \in Nodes /\ u.parent[n] = p /\ p # Null
      BY <2>1, <1>7, <1>9, <1>13, NodesAssumption
    <3>2. n \notin M
      BY <3>1 DEF Linked, EndsAgree
    <3>3. m \in Nodes /\ u.parent[m] = p /\ rank[n] < rank[m]
      BY <1>1, <2>4, <3>1, <3>2 DEF Linked, SiblingsAgree, Links, Pointers, Rises
    <3>4. PICK i \in 1..Len(s) : s[i] = m
      BY <1>9, <1>15, <3>3
    <3>5. i = Len(s) \/ i < Len(s)
      BY <1>6
    <3>6. i # Len(s)
      <4>1. rank[n] \in Nat
        BY <3>1
      <4> QED BY <3>3, <3>4, <4>1
    <3>7. rank[m] < rank[n]
      <4>1. rank[s[i]] < rank[s[Len(s)]]
        BY <1>5, <2>1, <3>5, <3>6 DEF Chain
      <4> QED BY <3>4, <4>1
    <3>8. rank[m] \in Nat /\ rank[n] \in Nat
      BY <3>1, <3>3
    <3> QED BY <3>3, <3>7, <3>8
  <2> QED BY <2>3, <2>4
<1>18. \A i \in 1..(Len(s) - 1) : u.next[s[i]] = s[i + 1]
  BY <1>5 DEF Chain
<1>19. \A i \in 1..Len(s) : u.parent[s[i]] = p
  BY <1>9, <1>13
<1>20. IsKids(u, p, s)
  BY <1>6, <1>16, <1>17, <1>18, <1>19 DEF IsKids
<1> QED BY <1>2, <1>10, <1>15, <1>20

\* Kids lists the nodes with this parent, each once.
LEMMA KidsAreTheChildren ==
    ASSUME NEW u \in Links, Linked(u, {}, {}), Rising(u, {}), NEW p \in Nodes
    PROVE  /\ Kids(u, p) \in Seq(Nodes)
           /\ IsInjective(Kids(u, p))
           /\ ToSet(Kids(u, p)) = {k \in Nodes : u.parent[k] = p}
<1>1. {} \in SUBSET Nodes /\ p \in Nodes \ {}
  OBVIOUS
<1>2. IsKids(u, p, Kids(u, p)) /\ IsInjective(Kids(u, p)) /\ ToSet(Kids(u, p)) = {k \in Nodes : u.parent[k] = p}
  BY <1>1, KidsInOrder
<1> QED BY <1>2 DEF IsKids

----------------------------------------------------------------------------
OnEqn(u, root, on) ==
    on = [k \in 0..Size |-> [m \in Nodes \cup {Null} |->
             IF m = root \/ m = Null \/ k = 0 THEN Null
             ELSE IF u.next[m] # Null THEN u.next[m] ELSE on[k - 1][u.parent[m]]]]

\* The same for the way up and on.
LEMMA AdvanceOn ==
    ASSUME NEW u, NEW root, NEW n
    PROVE  Advance(u, root, n) =
             IF u.first_child[n] # Null THEN u.first_child[n]
             ELSE (CHOOSE on : OnEqn(u, root, on))[Size][n]
BY DEF Advance, OnEqn, Size

LEMMA OnExists ==
    ASSUME NEW u \in Links, NEW root \in Nodes
    PROVE  \E on : OnEqn(u, root, on)
<1> DEFINE Ptr == Nodes \cup {Null}
           Upto(j, f) == f = [k \in 0..j |-> [m \in Ptr |->
                                 IF m = root \/ m = Null \/ k = 0 THEN Null
                                 ELSE IF u.next[m] # Null THEN u.next[m] ELSE f[k - 1][u.parent[m]]]]
           Missing == {j \in Nat : ~ \E f : Upto(j, f)}
<1>1. \E f : Upto(0, f)
  <2> DEFINE f == [k \in 0..0 |-> [m \in Ptr |-> Null]]
  <2>1. Upto(0, f)
    OBVIOUS
  <2> QED BY <2>1
<1>2. ASSUME NEW j \in Nat, NEW f, Upto(j, f) PROVE \E g : Upto(j + 1, g)
  <2> DEFINE g == [k \in 0..(j + 1) |-> [m \in Ptr |->
                      IF m = root \/ m = Null \/ k = 0 THEN Null
                      ELSE IF u.next[m] # Null THEN u.next[m] ELSE f[k - 1][u.parent[m]]]]
  <2>1. ASSUME NEW k \in 0..j, NEW m \in Ptr PROVE g[k][m] = f[k][m]
    <3>1. k \in 0..(j + 1)
      OBVIOUS
    <3>2. f[k] = [i \in Ptr |-> IF i = root \/ i = Null \/ k = 0 THEN Null
                                ELSE IF u.next[i] # Null THEN u.next[i] ELSE f[k - 1][u.parent[i]]]
      BY <1>2
    <3> QED BY <3>1, <3>2
  <2>2. ASSUME NEW k \in 0..(j + 1), NEW m \in Ptr, m # Null, k # 0
        PROVE  f[k - 1][u.parent[m]] = g[k - 1][u.parent[m]]
    <3>1. k - 1 \in 0..j /\ u.parent[m] \in Ptr
      BY <2>2 DEF Links, Pointers
    <3> QED BY <2>1, <3>1
  <2> DEFINE h == [k \in 0..(j + 1) |-> [m \in Ptr |->
                      IF m = root \/ m = Null \/ k = 0 THEN Null
                      ELSE IF u.next[m] # Null THEN u.next[m] ELSE g[k - 1][u.parent[m]]]]
  <2>3. \A k \in 0..(j + 1) : g[k] = h[k]
    BY <2>2
  <2> HIDE DEF Ptr
  <2>4. g = h
    BY <2>3
  <2> QED BY <2>4
<1> HIDE DEF Upto
<1>3. Missing = {}
  <2> SUFFICES ASSUME Missing # {} PROVE FALSE
    OBVIOUS
  <2>1. Missing \in SUBSET Nat
    OBVIOUS
  <2>2. PICK j \in Missing : \A i \in Missing : j <= i
    BY <2>1, LeastNumber
  <2>3. j \in Nat /\ j # 0
    BY <1>1
  <2>4. j - 1 \in Nat /\ j - 1 \notin Missing
    <3> HIDE DEF Missing
    <3>1. j - 1 \in Nat /\ ~ (j <= j - 1)
      BY <2>3
    <3> QED BY <2>2, <3>1
  <2>5. PICK f : Upto(j - 1, f)
    BY <2>4
  <2>6. \E g : Upto((j - 1) + 1, g)
    BY <1>2, <2>4, <2>5
  <2>7. (j - 1) + 1 = j
    BY <2>3
  <2> QED BY <2>6, <2>7
<1>4. \E f : Upto(Size, f)
  BY <1>3, SizeType
<1> QED BY <1>4 DEF OnEqn, Upto

\* The walk from a node below root comes to one below root, or to the end.
LEMMA AdvanceStaysBelow ==
    ASSUME NEW u \in Links, Linked(u, {}, {}), NEW root \in Nodes, NEW n \in Subtree(u, root)
    PROVE  Advance(u, root, n) \in Subtree(u, root) \cup {Null}
<1> DEFINE on == CHOOSE on : OnEqn(u, root, on)
           Below == Subtree(u, root)
           Good(k) == \A m \in Below : on[k][m] \in Below \cup {Null}
           Bad == {k \in 0..Size : ~ Good(k)}
<1>1. OnEqn(u, root, on)
  BY OnExists
<1>2. Below \subseteq Nodes /\ Closed(u, Below) /\ \A m \in Below : m # root => u.parent[m] \in Below
  BY SubtreeIsClosed, SubtreeUp
<1> HIDE DEF on
<1>3. \A k \in 0..Size : on[k] = [m \in Nodes \cup {Null} |->
         IF m = root \/ m = Null \/ k = 0 THEN Null
         ELSE IF u.next[m] # Null THEN u.next[m] ELSE on[k - 1][u.parent[m]]]
  BY <1>1 DEF OnEqn
<1> HIDE DEF Below
<1>4. ASSUME NEW k \in 0..Size, k = 0 \/ Good(k - 1), NEW m \in Below
      PROVE  on[k][m] \in Below \cup {Null}
  <2>1. on[k][m] = IF m = root \/ m = Null \/ k = 0 THEN Null
                   ELSE IF u.next[m] # Null THEN u.next[m] ELSE on[k - 1][u.parent[m]]
    <3>1. m \in Nodes \cup {Null}
      BY <1>2
    <3>2. on[k] = [i \in Nodes \cup {Null} |->
             IF i = root \/ i = Null \/ k = 0 THEN Null
             ELSE IF u.next[i] # Null THEN u.next[i] ELSE on[k - 1][u.parent[i]]]
      BY <1>3
    <3> QED BY <3>1, <3>2
  <2>2. CASE m = root \/ m = Null \/ k = 0
    BY <2>1, <2>2
  <2>3. CASE ~ (m = root \/ m = Null \/ k = 0) /\ u.next[m] # Null
    <3>1. u.next[m] \in Nodes /\ u.parent[u.next[m]] = u.parent[m] /\ u.parent[m] \in Below
      BY <1>2, <2>3 DEF Linked, SiblingsAgree, Links, Pointers
    <3>2. u.next[m] \in Below
      BY <1>2, <3>1 DEF Closed
    <3> QED BY <2>1, <2>3, <3>2
  <2>4. CASE ~ (m = root \/ m = Null \/ k = 0) /\ u.next[m] = Null
    <3>1. u.parent[m] \in Below
      BY <1>2, <2>4
    <3> QED BY <1>4, <2>1, <2>4, <3>1
  <2> QED BY <2>2, <2>3, <2>4
<1>5. Bad = {}
  <2> SUFFICES ASSUME Bad # {} PROVE FALSE
    OBVIOUS
  <2>1. Bad \in SUBSET Nat
    BY SizeType
  <2>2. PICK k \in Bad : \A j \in Bad : k <= j
    BY <2>1, LeastNumber
  <2>3. k \in 0..Size /\ k \in Nat
    BY SizeType
  <2>4. k = 0 \/ (k - 1 \in 0..Size /\ ~ (k <= k - 1))
    BY <2>3, SizeType
  <2>5. k = 0 \/ Good(k - 1)
    BY <2>2, <2>4
  <2>6. Good(k)
    BY <1>4, <2>3, <2>5
  <2> QED BY <2>2, <2>6
<1>6. on[Size][n] \in Below \cup {Null}
  BY <1>5, SizeType DEF Below
<1>7. u.first_child[n] # Null => u.first_child[n] \in Below
  BY <1>2, NodesAssumption DEF Linked, ParentsAgree, Closed, Below, Links, Pointers
<1> QED BY <1>6, <1>7, AdvanceOn DEF Below, on

----------------------------------------------------------------------------
\* The shape of the tree: its links agree, and there are no cycles in it.
Shape(u, F, M) == Linked(u, F, M) /\ Deep(u) /\ Rising(u, M)

\* The parents of v are those of u, but for the one of n.
Moved(u, v, n, p) == \A m \in Nodes : v.parent[m] = IF m = n THEN p ELSE u.parent[m]

Rooted(u, n) == u.parent[n] # Null \/ u.first_child[n] # Null

\* No node but those of S has a place in v that it did not have in u.
Planted(u, v, S) == \A m \in Nodes : Rooted(v, m) => m \in S \/ Rooted(u, m)

\* A node without parent is below itself only.
LEMMA RootAlone ==
    ASSUME NEW u \in Links, NEW r \in Nodes, NEW f \in Subtree(u, r), u.parent[f] = Null
    PROVE  f = r
BY SubtreeUp, SubtreeIsClosed, NodesAssumption

Less(M, n) == M \ {n}

Placed(u, to, anchor, n) ==
    IF anchor = Null THEN InsertChild(u, to, n) ELSE InsertBefore(u, anchor, n)

\* The operators of NodeLinks keep the shape of the tree.
LEMMA PutShape ==
    ASSUME NEW u \in Links, NEW F \in SUBSET Nodes, NEW M \in SUBSET Nodes, Shape(u, F, M),
           NEW n \in Nodes, n \in M \/ Loose(u, n), NEW to \in Nodes \ F, to \notin Subtree(u, n),
           NEW anchor \in Nodes \cup {Null},
           anchor # Null => anchor # n /\ u.parent[anchor] = to,
           NEW v, v = Placed(u, to, anchor, n)
    PROVE  /\ v \in Links /\ Shape(v, F, Less(M, n)) /\ Moved(u, v, n, to)
           /\ Planted(u, v, {n, to})
<1> USE DEF Placed, Moved, Less, Planted
<1>1. n # to
  BY SubtreeIsClosed
<1>2. v \in Links /\ Linked(v, F, M \ {n}) /\ Rising(v, M \ {n})
  <2>1. CASE anchor = Null
    BY <1>1, <2>1, InsertChildLinks, InsertChildRises DEF Shape
  <2>2. CASE anchor # Null
    <3>1. anchor \in Nodes /\ n # anchor /\ u.parent[anchor] \in Nodes \ F /\ u.parent[anchor] # n
      BY <1>1, <2>2
    <3>2. v = InsertBefore(u, anchor, n) /\ Linked(u, F, M) /\ Rising(u, M)
      BY <2>2 DEF Shape
    <3>3. v \in Links /\ Linked(v, F, M \ {n})
      <4>1. Linked(u, F, M)
        BY DEF Shape
      <4>2. InsertBefore(u, anchor, n) \in Links /\ Linked(InsertBefore(u, anchor, n), F, M \ {n})
        BY <3>1, <4>1, InsertBeforeLinks
      <4> QED BY <3>2, <4>2
    <3>4. Rising(v, M \ {n})
      BY <3>1, <3>2, InsertBeforeRises
    <3> QED BY <3>3, <3>4
  <2> QED BY <2>1, <2>2
<1>3. v.parent = [u.parent EXCEPT ![n] = to] /\ Moved(u, v, n, to)
  BY DEF InsertChild, InsertBefore, Links, Pointers
<1>4. Deep(v)
  BY <1>2, <1>3, MoveKeepsDeep DEF Shape
<1>5. ASSUME NEW m \in Nodes, Rooted(v, m), m # n, m # to PROVE Rooted(u, m)
  <2>1. v.parent[m] = u.parent[m]
    BY <1>3, <1>5 DEF Links, Pointers
  <2>2. v.first_child[m] = u.first_child[m]
    <3>1. CASE anchor = Null
      BY <1>5, <3>1 DEF InsertChild, Links, Pointers
    <3>2. CASE anchor # Null
      BY <1>5, <3>2 DEF InsertBefore, Links, Pointers
    <3> QED BY <3>1, <3>2
  <2> QED BY <1>5, <2>1, <2>2 DEF Rooted
<1> QED BY <1>2, <1>3, <1>4, <1>5 DEF Shape

LEMMA UnlinkShape ==
    ASSUME NEW u \in Links, Shape(u, {}, {}), NEW n \in Nodes, NEW v, v = Unlink(u, n)
    PROVE  /\ v \in Links /\ Shape(v, {}, {})
           /\ v.parent = [u.parent EXCEPT ![n] = Null]
           /\ Moved(u, v, n, Null)
           /\ \A m \in Nodes : Rooted(v, m) => Rooted(u, m)
<1>1. v \in Links /\ Linked(v, {}, {}) /\ Rising(v, {})
  BY UnlinkLinks, UnlinkRises DEF Shape
<1>2. v.parent = [u.parent EXCEPT ![n] = Null] /\ Moved(u, v, n, Null)
  BY DEF Unlink, Moved, Links, Pointers
<1>3. Deep(v)
  <2>1. \A m \in Nodes : v.parent[m] \in {u.parent[m], Null}
    BY <1>2 DEF Links, Pointers
  <2> QED BY <1>1, <2>1, CutKeepsDeep DEF Shape
<1>4. \A m \in Nodes : Rooted(v, m) => Rooted(u, m)
  <2> TAKE m \in Nodes
  <2>1. v.parent[m] # Null => u.parent[m] # Null
    BY <1>2 DEF Links, Pointers
  <2>2. v.first_child[m] # Null => u.first_child[m] # Null
    <3>1. v.first_child[m] = IF m = u.parent[n] /\ u.first_child[m] = n THEN u.next[n] ELSE u.first_child[m]
      BY DEF Unlink
    <3> QED BY <3>1, NodesAssumption
  <2> QED BY <2>1, <2>2 DEF Rooted
<1> QED BY <1>1, <1>2, <1>3, <1>4 DEF Shape

LEMMA DestroyDeepShape ==
    ASSUME NEW u \in Links, Shape(u, {}, {}), NEW n \in Nodes, NEW v, v = DestroyDeep(u, n)
    PROVE  /\ v \in Links /\ Shape(v, {}, {})
           /\ \A m \in Nodes \ Subtree(u, n) : v.parent[m] = u.parent[m] /\ (Rooted(v, m) => Rooted(u, m))
           /\ \A m \in Subtree(u, n) : ~ Rooted(v, m)
<1> DEFINE w == Unlink(u, n)
           D == Subtree(u, n)
<1>1. w \in Links /\ Shape(w, {}, {}) /\ w.parent = [u.parent EXCEPT ![n] = Null]
      /\ \A m \in Nodes : Rooted(w, m) => Rooted(u, m)
  BY UnlinkShape
<1> HIDE DEF w
<1>2. D \in SUBSET Nodes /\ n \in D /\ Closed(u, D) /\ \A k \in D : k # n => u.parent[k] \in D
  BY SubtreeIsClosed, SubtreeUp
<1>3. v = Isolate(w, D)
  BY DEF DestroyDeep, w
<1> HIDE DEF D
<1>4. Closed(w, D) /\ \A k \in D : w.parent[k] \in D \cup {Null}
  BY <1>1, <1>2, NodesAssumption DEF Closed, Links, Pointers
<1>5. v \in Links /\ Linked(v, {}, {})
  BY <1>1, <1>2, <1>3, <1>4, IsolateLinks DEF Shape
<1>6. \A m \in Nodes : v.parent[m] \in {w.parent[m], Null} /\ v.next[m] \in {w.next[m], Null}
  BY <1>3 DEF Isolate
<1>7. Deep(v)
  BY <1>1, <1>5, <1>6, CutKeepsDeep DEF Shape
<1>8. Rising(v, {})
  BY <1>1, <1>5, <1>6, CutRises DEF Shape
<1>9. \A m \in Nodes \ D : v.parent[m] = u.parent[m] /\ (Rooted(v, m) => Rooted(u, m))
  <2> TAKE m \in Nodes \ D
  <2>1. v.parent[m] = w.parent[m] /\ v.first_child[m] = w.first_child[m]
    BY <1>3 DEF Isolate
  <2>2. w.parent[m] = u.parent[m]
    BY <1>1, <1>2 DEF Links, Pointers
  <2> QED BY <1>1, <2>1, <2>2 DEF Rooted
<1>10. \A m \in D : ~ Rooted(v, m)
  BY <1>2, <1>3 DEF Isolate, Rooted
<1> QED BY <1>5, <1>7, <1>8, <1>9, <1>10 DEF Shape, D

LEMMA DestroyBelowShape ==
    ASSUME NEW u \in Links, Shape(u, {}, {}), NEW p \in Nodes, NEW v, v = DestroyBelow(u, p)
    PROVE  /\ v \in Links /\ Shape(v, {}, {})
           /\ Closed(u, Subtree(u, p) \ {p})
           /\ \A m \in Nodes \ (Subtree(u, p) \ {p}) :
                 v.parent[m] = u.parent[m] /\ (Rooted(v, m) => Rooted(u, m))
           /\ \A m \in Subtree(u, p) \ {p} : ~ Rooted(v, m)
<1> DEFINE D == Subtree(u, p) \ {p}
<1>1. PICK depth \in [Nodes -> Nat] : Deepens(u, depth)
  BY DEF Shape, Deep
<1>2. D \in SUBSET Nodes /\ p \notin D /\ \A k \in Nodes : k \in D <=> u.parent[k] \in D \cup {p}
  <2>1. u.parent[p] \notin Subtree(u, p)
    BY <1>1, SubtreeIsBelow
  <2> QED BY <2>1, SubtreeIsClosed, SubtreeUp DEF Closed
<1>3. v = ForgetChildren(Isolate(u, D), p)
  BY DEF DestroyBelow, ForgetChildren
<1> HIDE DEF D
<1>4. v \in Links /\ Linked(v, {}, {})
  <2>1. Linked(u, {}, {})
    BY DEF Shape
  <2> QED BY <1>2, <1>3, <2>1, DestroyBelowLinks
<1>5. \A m \in Nodes : /\ v.parent[m] = IF m \in D THEN Null ELSE u.parent[m]
                       /\ v.next[m] = IF m \in D THEN Null ELSE u.next[m]
                       /\ v.first_child[m] = IF m \in D \cup {p} THEN Null ELSE u.first_child[m]
  BY <1>2, <1>3 DEF ForgetChildren, Isolate, Links, Pointers
<1>6. Deep(v)
  BY <1>4, <1>5, CutKeepsDeep DEF Shape
<1>7. Rising(v, {})
  BY <1>4, <1>5, CutRises DEF Shape
<1>8. Closed(u, D)
  BY <1>2 DEF Closed
<1>9. \A m \in Nodes \ D : v.parent[m] = u.parent[m] /\ (Rooted(v, m) => Rooted(u, m))
  BY <1>5 DEF Rooted
<1>10. \A m \in D : ~ Rooted(v, m)
  BY <1>2, <1>5 DEF Rooted
<1> QED BY <1>4, <1>6, <1>7, <1>8, <1>9, <1>10 DEF Shape, D

\* A fragment's children are about to be moved.
LEMMA OpenFragment ==
    ASSUME NEW u \in Links, Shape(u, {}, {}), NEW f \in Nodes
    PROVE  Shape(u, {f}, {k \in Nodes : u.parent[k] = f})
<1> DEFINE K == {k \in Nodes : u.parent[k] = f}
<1>1. SiblingsAgree(u, K)
  BY NodesAssumption DEF Shape, Linked, SiblingsAgree, Links, Pointers
<1>2. ParentsAgree(u, {f})
  BY DEF Shape, Linked, ParentsAgree
<1>3. EndsAgree(u, {f}, K)
  BY NodesAssumption DEF Shape, Linked, EndsAgree
<1>4. Rising(u, K)
  BY DEF Shape, Rising, Rises
<1> QED BY <1>1, <1>2, <1>3, <1>4 DEF Shape, Linked

LEMMA ForgetShape ==
    ASSUME NEW u \in Links, NEW f \in Nodes, Shape(u, {f}, {}), NEW v, v = ForgetChildren(u, f)
    PROVE  /\ v \in Links /\ Shape(v, {}, {}) /\ v.parent = u.parent
           /\ \A m \in Nodes : Rooted(v, m) => Rooted(u, m)
<1>1. v \in Links /\ Linked(v, {}, {})
  BY ForgetLinks DEF Shape
<1>2. v.parent = u.parent /\ v.next = u.next
  BY DEF ForgetChildren, Links
<1>3. Deep(v) /\ Rising(v, {})
  BY <1>2 DEF Shape, Deep, Deepens, Rising, Rises
<1>4. \A m \in Nodes : Rooted(v, m) => Rooted(u, m)
  BY DEF ForgetChildren, Rooted, Links, Pointers
<1> QED BY <1>1, <1>2, <1>3, <1>4 DEF Shape

----------------------------------------------------------------------------
(***************************************************************************)
(* The inductive invariant: the variables have their types, the tree its   *)
(* shape, the call under way has checked what it will do, and handles are  *)
(* counted.                                                                *)
(***************************************************************************)
CallFields ==
    /\ call = [to |-> call.to, anchor |-> call.anchor, todo |-> call.todo, frag |-> call.frag,
               moving |-> call.moving, emptying |-> call.emptying, drop |-> call.drop,
               promise |-> call.promise]
    /\ call.to \in Nodes \cup {Null} /\ call.anchor \in Nodes \cup {Null}
    /\ call.frag \in Nodes \cup {Null} /\ call.drop \in Nodes \cup {Null}
    /\ call.todo \in Seq(Nodes) /\ call.moving \in Seq(Nodes) /\ call.emptying \in BOOLEAN

Types ==
    /\ t \in Links /\ refs \in [Nodes -> Nat] /\ held \in [Nodes -> Nat]
    /\ CallFields
    /\ it \in Iters

Moving == ToSet(call.moving)
Shaped == Shape(t, Emptying, Moving)

\* A node that the call has still to insert, and one that it may take away.
Listed(n) ==
    /\ Loose(t, n) /\ Owned(n) /\ n # call.frag
    /\ call.anchor = Null => n = call.to \/ call.to \notin Subtree(t, n)
    /\ n \in Fragments /\ call.to \notin Subtree(t, n) =>
          \A k \in Nodes : t.parent[k] = n => CarefulMove(k)

CallInv ==
    /\ IsInjective(call.todo) /\ \A n \in ToSet(call.todo) : Listed(n)
    /\ IsInjective(call.moving)
    /\ \A k \in Moving : t.parent[k] = call.frag /\ CarefulMove(k)
    /\ call.frag = Null => call.moving = <<>>
    /\ call.to = Null => call.todo = <<>> /\ call.frag = Null /\ ~call.emptying /\ call.drop = Null
    /\ call.to # Null => Owned(call.to)
    /\ call.frag # Null =>
          /\ ~call.emptying /\ t.parent[call.frag] = Null /\ call.to \notin Subtree(t, call.frag)
          /\ call.anchor # Null => t.parent[call.anchor] = call.to
    /\ call.emptying =>
          /\ t.first_child[call.to] # Null /\ call.anchor = Null /\ call.drop = Null
          /\ \A k \in Nodes : t.parent[k] = call.to => CarefulMove(k)
    /\ call.drop # Null => t.parent[call.drop] = call.to /\ CarefulMove(call.drop)

Counted ==
    /\ \A n \in Nodes : refs[n] >= Handles(n)
    /\ \A n \in Nodes : Rooted(t, n) => Owned(n)

Ahead ==
    /\ it.next # Null => it.next \in Subtree(t, it.root)
    /\ it.root = Null => it.next = Null /\ it.item = Null

TreeInv == Types /\ Shaped /\ CallInv /\ Counted /\ Ahead

\* A node that the iterator or the client holds has a handle.
LEMMA HandlesType ==
    ASSUME Types, NEW n \in Nodes
    PROVE  Handles(n) \in Nat /\ (it.root = n \/ it.item = n \/ held[n] > 0 => Handles(n) > 0)
BY DEF Types, Handles, One

\* What is below the iterator's root is alive.
LEMMA BelowIsAlive ==
    ASSUME Types, Counted, Ahead, NEW n \in Subtree(t, it.root), it.root # Null
    PROVE  n \in Nodes /\ refs[n] > 0
<1>1. it.root \in Nodes /\ t \in Links
  BY DEF Types
<1>2. n \in Nodes /\ Handles(n) \in Nat /\ refs[n] \in Nat
  BY <1>1, SubtreeIsClosed, HandlesType DEF Types
<1>3. CASE n = it.root
  <2>1. refs[n] >= Handles(n) /\ Handles(n) > 0
    BY <1>2, <1>3, HandlesType DEF Counted
  <2> QED BY <1>2, <2>1
<1>4. CASE n # it.root
  <2>1. t.parent[n] \in Subtree(t, it.root)
    BY <1>1, <1>4, SubtreeUp
  <2>2. t.parent[n] # Null
    BY <1>1, <2>1, SubtreeIsClosed, NodesAssumption
  <2>3. refs[n] > Handles(n)
    BY <1>2, <2>2 DEF Counted, Rooted, Owned
  <2> QED BY <1>2, <2>3
<1> QED BY <1>2, <1>3, <1>4

\* The invariant implies what the runs check, and holds at the start.
LEMMA InvGives == TreeInv => WellLinked /\ NoDangling
<1> SUFFICES ASSUME TreeInv PROVE WellLinked /\ NoDangling
  OBVIOUS
<1>1. WellLinked
  BY DEF TreeInv, Shaped, Shape, WellLinked, Moving
<1>2. \A n \in Nodes : refs[n] >= Handles(n)
  BY DEF TreeInv, Counted
<1>3. \A n \in Nodes : InTree(n) => Owned(n)
  BY DEF TreeInv, Counted, InTree, Rooted
<1>4. ASSUME it.next # Null PROVE refs[it.next] > 0 /\ it.next \in Subtree(t, it.root)
  <2>1. it.root # Null /\ it.next \in Subtree(t, it.root)
    BY <1>4 DEF TreeInv, Ahead
  <2> QED BY <2>1, BelowIsAlive DEF TreeInv
<1> QED BY <1>1, <1>2, <1>3, <1>4 DEF NoDangling

LEMMA InitGives == Init => TreeInv
<1> SUFFICES ASSUME Init PROVE TreeInv
  OBVIOUS
<1> USE DEF Init
<1>1. /\ call.to = Null /\ call.anchor = Null /\ call.todo = <<>> /\ call.frag = Null /\ call.moving = <<>>
      /\ call.emptying = FALSE /\ call.drop = Null
  BY DEF NoCall
<1>2. it.root = Null /\ it.next = Null /\ it.item = Null
  BY DEF NoIter
<1>3. t \in Links /\ \A n \in Nodes : /\ t.parent[n] = Null /\ t.prev[n] = Null /\ t.next[n] = Null
                                      /\ t.first_child[n] = Null /\ t.last_child[n] = Null
  BY DEF NoLinks, Links, Pointers
<1>4. Types
  BY <1>3 DEF Types, CallFields, NoCall, NoIter
<1>5. Emptying = {} /\ Moving = {}
  BY <1>1 DEF Emptying, Moving, ToSet
<1>6. Shape(t, {}, {})
  <2>1. Linked(t, {}, {})
    BY <1>3 DEF Linked, SiblingsAgree, ParentsAgree, EndsAgree
  <2>2. [n \in Nodes |-> 0] \in [Nodes -> Nat]
    OBVIOUS
  <2>3. Deep(t) /\ Rising(t, {})
    BY <1>3, <2>2 DEF Deep, Deepens, Rising, Rises
  <2> QED BY <2>1, <2>3 DEF Shape
<1>7. CallInv
  BY <1>1, <1>5 DEF CallInv, IsInjective, ToSet
<1>8. Counted
  <2>1. \A n \in Nodes : ~ Rooted(t, n)
    BY <1>3 DEF Rooted
  <2>2. \A n \in Nodes : Handles(n) = held[n]
    BY <1>2, NodesAssumption DEF Handles, One
  <2>3. \A n \in Nodes : refs[n] >= held[n]
    OBVIOUS
  <2> QED BY <2>1, <2>2, <2>3 DEF Counted
<1>9. Ahead
  BY <1>2 DEF Ahead
<1> QED BY <1>4, <1>5, <1>6, <1>7, <1>8, <1>9 DEF TreeInv, Shaped

----------------------------------------------------------------------------
\* Between two calls, the tree is linked throughout.
LEMMA IdleFacts ==
    ASSUME TreeInv, Idle
    PROVE  Types /\ Shape(t, {}, {}) /\ Counted /\ Ahead /\ call = NoCall
<1>1. Emptying = {} /\ Moving = {}
  BY DEF Idle, NoCall, Emptying, Moving, ToSet
<1> QED BY <1>1 DEF TreeInv, Shaped, Idle

LEMMA NoCallFields ==
    ASSUME call' = NoCall
    PROVE  CallFields' /\ CallInv' /\ Emptying' = {} /\ Moving' = {}
<1>1. /\ call'.to = Null /\ call'.anchor = Null /\ call'.todo = <<>> /\ call'.frag = Null /\ call'.moving = <<>>
      /\ call'.emptying = FALSE /\ call'.drop = Null /\ call'.promise = <<>>
  BY DEF NoCall
<1>2. Emptying' = {} /\ Moving' = {}
  BY <1>1 DEF Emptying, Moving, ToSet
<1>3. CallFields'
  BY <1>1 DEF CallFields, NoCall
<1>4. CallInv'
  BY <1>1, <1>2 DEF CallInv, IsInjective, ToSet
<1> QED BY <1>2, <1>3, <1>4

\* A step that begins or ends where no call is under way keeps the invariant if it keeps the
\* tree's shape and the count of handles.
LEMMA NoCallGives ==
    ASSUME call' = NoCall, t' \in Links, refs' \in [Nodes -> Nat], held' \in [Nodes -> Nat],
           it' \in Iters,
           Shape(t', {}, {}), Counted', Ahead'
    PROVE  TreeInv'
<1>1. CallFields' /\ CallInv' /\ Emptying' = {} /\ Moving' = {}
  BY NoCallFields
<1>2. Types'
  BY <1>1 DEF Types
<1>3. Shaped'
  BY <1>1 DEF Shaped
<1> QED BY <1>1, <1>2, <1>3 DEF TreeInv

\* The node n and what is below it are destroyed, and one handle of n is gone.
LEMMA DestroyKeeps ==
    ASSUME Types, Shape(t, {}, {}), Counted, Ahead, NEW n \in Nodes, Handles(n) > 0,
           t' = DestroyDeep(t, n), refs' = Release(Subtree(t, n)),
           \A m \in Nodes : Handles(m)' = IF m = n THEN Handles(n) - 1 ELSE Handles(m),
           it'.root = Null => it'.next = Null /\ it'.item = Null,
           it'.next # Null => it'.next = it.next /\ it'.root = it.root /\ CarefulKill(n)
    PROVE  t' \in Links /\ refs' \in [Nodes -> Nat] /\ Shape(t', {}, {}) /\ Counted' /\ Ahead'
<1> DEFINE D == Subtree(t, n)
<1>1. t \in Links /\ refs \in [Nodes -> Nat]
  BY DEF Types
<1>2. /\ t' \in Links /\ Shape(t', {}, {})
      /\ \A m \in Nodes \ D : t'.parent[m] = t.parent[m] /\ (Rooted(t', m) => Rooted(t, m))
      /\ \A m \in D : ~ Rooted(t', m)
  BY <1>1, DestroyDeepShape
<1>3. D \in SUBSET Nodes /\ n \in D /\ Closed(t, D)
  BY <1>1, SubtreeIsClosed
<1>4. ASSUME NEW m \in D, m # n PROVE refs[m] > Handles(m)
  <2>1. t.parent[m] \in Nodes
    BY <1>1, <1>3, <1>4, SubtreeUp
  <2>2. Rooted(t, m)
    BY <2>1, NodesAssumption DEF Rooted
  <2> QED BY <1>3, <2>2 DEF Counted, Owned
<1> HIDE DEF D
<1>5. ASSUME NEW m \in Nodes
      PROVE  refs'[m] \in Nat /\ refs'[m] >= Handles(m)' /\ (Rooted(t', m) => refs'[m] > Handles(m)')
  <2>1. Handles(m) \in Nat /\ refs[m] \in Nat /\ refs[m] >= Handles(m)
    BY <1>1, HandlesType DEF Counted
  <2>2. CASE m = n
    <3>1. refs'[m] = refs[m] - 1 /\ Handles(m)' = Handles(m) - 1 /\ ~ Rooted(t', m)
      BY <1>2, <1>3, <2>2 DEF Release, D
    <3> QED BY <2>1, <2>2, <3>1
  <2>3. CASE m # n /\ m \in D
    <3>1. refs'[m] = refs[m] - 1 /\ Handles(m)' = Handles(m) /\ ~ Rooted(t', m)
      BY <1>2, <2>3 DEF Release, D
    <3> QED BY <1>4, <2>1, <2>3, <3>1
  <2>4. CASE m \notin D
    <3>1. refs'[m] = refs[m] /\ Handles(m)' = Handles(m) /\ (Rooted(t', m) => Rooted(t, m))
      BY <1>2, <1>3, <2>4 DEF Release, D
    <3> QED BY <2>1, <3>1 DEF Counted, Owned
  <2> QED BY <2>2, <2>3, <2>4
<1>6. refs' \in [Nodes -> Nat]
  BY <1>5 DEF Release
<1>7. Counted'
  BY <1>5 DEF Counted, Owned
<1>8. ASSUME it'.next # Null PROVE it'.next \in Subtree(t', it'.root)
  <2>1. it'.next = it.next /\ it'.root = it.root /\ it'.root # Null /\ it.next \notin D
    BY <1>8 DEF CarefulKill, D
  <2>2. it.root \in Nodes /\ it.next \in Subtree(t, it.root)
    BY <1>8, <2>1 DEF Types, Ahead
  <2>3. it.next \in Subtree(t', it.root)
    BY <1>1, <1>2, <1>3, <2>1, <2>2, SubtreeOutside
  <2> QED BY <2>1, <2>3
<1>9. Ahead'
  BY <1>8 DEF Ahead
<1> QED BY <1>2, <1>6, <1>7, <1>9

\* The drop of a handle destroys its node only if the node is nowhere in a tree.
LEMMA DropKeeps ==
    ASSUME Types, Shape(t, {}, {}), Counted, Ahead, NEW n \in Nodes, Handles(n) > 0,
           NEW next, DropHandle(n, next),
           \A m \in Nodes : Handles(m)' = IF m = n THEN Handles(n) - 1 ELSE Handles(m),
           it'.root = Null => it'.next = Null /\ it'.item = Null,
           it'.next # Null => it'.next = it.next /\ it'.root = it.root /\ (refs[n] < 2 => CarefulKill(n))
    PROVE  t' \in Links /\ refs' \in [Nodes -> Nat] /\ Shape(t', {}, {}) /\ Counted' /\ Ahead'
<1>1. CASE t.parent[n] = Null /\ refs[n] < 2
  <2>1. t' = DestroyDeep(t, n) /\ refs' = Release(Subtree(t, n))
    BY <1>1 DEF DropHandle
  <2> QED BY <1>1, <2>1, DestroyKeeps
<1>2. CASE ~ (t.parent[n] = Null /\ refs[n] < 2)
  <2>1. t' = t /\ refs' = [refs EXCEPT ![n] = @ - 1]
    BY <1>2 DEF DropHandle
  <2>2. ASSUME NEW m \in Nodes
        PROVE  refs'[m] \in Nat /\ refs'[m] >= Handles(m)' /\ (Rooted(t, m) => refs'[m] > Handles(m)')
    <3>1. Handles(m) \in Nat /\ refs[m] \in Nat /\ refs[m] >= Handles(m) /\ (Rooted(t, m) => refs[m] > Handles(m))
      BY HandlesType DEF Counted, Types, Owned
    <3>2. CASE m = n
      <4>1. refs'[m] = refs[m] - 1 /\ Handles(m)' = Handles(m) - 1
        BY <2>1, <3>2 DEF Types
      <4> QED BY <3>1, <3>2, <4>1
    <3>3. CASE m # n
      <4>1. refs'[m] = refs[m] /\ Handles(m)' = Handles(m)
        BY <2>1, <3>3 DEF Types
      <4> QED BY <3>1, <4>1
    <3> QED BY <3>2, <3>3
  <2>3. refs' \in [Nodes -> Nat]
    BY <2>1, <2>2 DEF Types
  <2>4. Counted'
    BY <2>1, <2>2 DEF Counted, Owned, Rooted
  <2>5. Ahead'
    BY <2>1 DEF Ahead
  <2> QED BY <2>1, <2>3, <2>4, <2>5 DEF Types
<1> QED BY <1>1, <1>2

\* A node is taken out of its tree.
LEMMA UnlinkKeeps ==
    ASSUME Types, Shape(t, {}, {}), Counted, Ahead, NEW n \in Nodes, CarefulMove(n),
           t' = Unlink(t, n), refs' = refs, held' = held,
           it'.root = it.root, it'.next = it.next, it'.item = it.item
    PROVE  t' \in Links /\ Shape(t', {}, {}) /\ Counted' /\ Ahead'
<1>1. t \in Links
  BY DEF Types
<1>2. /\ t' \in Links /\ Shape(t', {}, {}) /\ t'.parent = [t.parent EXCEPT ![n] = Null]
      /\ \A m \in Nodes : Rooted(t', m) => Rooted(t, m)
  BY <1>1, UnlinkShape
<1>3. \A m \in Nodes : Handles(m)' = Handles(m)
  BY DEF Handles, One
<1>4. Counted'
  BY <1>2, <1>3 DEF Counted, Owned
<1>5. ASSUME it.next # Null PROVE it.next \in Subtree(t', it.root)
  <2>1. it.root \in Nodes /\ it.next \in Subtree(t, it.root)
    BY <1>5 DEF Types, Ahead
  <2>2. it.next \in Subtree(t, n) => it.root \in Subtree(t, n)
    BY <1>5 DEF CarefulMove
  <2>3. Deep(t) /\ t'.parent[n] \notin Subtree(t, n) /\ \A k \in Nodes \ {n} : t'.parent[k] = t.parent[k]
    BY <1>1, <1>2, SubtreeIsClosed, NodesAssumption DEF Shape, Links, Pointers
  <2> QED BY <1>1, <1>2, <2>1, <2>2, <2>3, StaysBelow
<1>6. Ahead'
  BY <1>5 DEF Ahead
<1> QED BY <1>2, <1>4, <1>6

----------------------------------------------------------------------------
\* One more handle of n, and one more reference.
LEMMA CountUp ==
    ASSUME Types, Counted, NEW n \in Nodes, t' = t, refs' = [refs EXCEPT ![n] = @ + 1],
           \A m \in Nodes : Handles(m)' = IF m = n THEN Handles(n) + 1 ELSE Handles(m)
    PROVE  refs' \in [Nodes -> Nat] /\ Counted'
<1>1. ASSUME NEW m \in Nodes
      PROVE  refs'[m] \in Nat /\ refs'[m] >= Handles(m)' /\ (Rooted(t, m) => refs'[m] > Handles(m)')
  <2>1. Handles(m) \in Nat /\ refs[m] \in Nat /\ refs[m] >= Handles(m) /\ (Rooted(t, m) => refs[m] > Handles(m))
    BY HandlesType DEF Counted, Types, Owned
  <2>2. CASE m = n
    <3>1. refs'[m] = refs[m] + 1 /\ Handles(m)' = Handles(m) + 1
      BY <2>2 DEF Types
    <3> QED BY <2>1, <3>1
  <2>3. CASE m # n
    <3>1. refs'[m] = refs[m] /\ Handles(m)' = Handles(m)
      BY <2>3 DEF Types
    <3> QED BY <2>1, <3>1
  <2> QED BY <2>2, <2>3
<1> QED BY <1>1 DEF Counted, Owned, Rooted, Types

LEMMA HeldUp ==
    ASSUME Types, NEW n \in Nodes, held' = [held EXCEPT ![n] = @ + 1], it' = it
    PROVE  /\ held' \in [Nodes -> Nat]
           /\ \A m \in Nodes : Handles(m)' = IF m = n THEN Handles(n) + 1 ELSE Handles(m)
BY DEF Types, Handles, One

LEMMA HeldDown ==
    ASSUME Types, NEW n \in Nodes, held[n] > 0, held' = [held EXCEPT ![n] = @ - 1],
           it'.root = it.root, it'.item = it.item
    PROVE  /\ held' \in [Nodes -> Nat]
           /\ \A m \in Nodes : Handles(m)' = IF m = n THEN Handles(n) - 1 ELSE Handles(m)
BY DEF Types, Handles, One

LEMMA ReachIsOwned == ASSUME NEW n \in InReach PROVE n \in Nodes /\ Owned(n)
BY DEF InReach

\* The actions of the client between two calls.
LEMMA CreateGives == ASSUME TreeInv, NEW n \in Nodes, Create(n) PROVE TreeInv'
<1>1. Idle /\ refs[n] = 0 /\ refs' = [refs EXCEPT ![n] = 2] /\ held' = [held EXCEPT ![n] = @ + 1]
      /\ t' = t /\ call' = call /\ it' = it
  BY DEF Create
<1>2. Types /\ Shape(t, {}, {}) /\ Counted /\ Ahead /\ call' = NoCall
  BY <1>1, IdleFacts
<1>3. held' \in [Nodes -> Nat] /\ \A m \in Nodes : Handles(m)' = IF m = n THEN Handles(n) + 1 ELSE Handles(m)
  BY <1>1, <1>2, HeldUp
<1>4. refs' \in [Nodes -> Nat]
  BY <1>1, <1>2 DEF Types
<1>5. Counted'
  <2>1. Handles(n) \in Nat /\ refs[n] >= Handles(n)
    BY <1>2, HandlesType DEF Counted
  <2>2. Handles(n)' = 1 /\ refs'[n] = 2
    BY <1>1, <1>2, <1>3, <2>1 DEF Types
  <2>3. \A m \in Nodes : m # n => refs'[m] = refs[m] /\ Handles(m)' = Handles(m)
    BY <1>1, <1>2, <1>3 DEF Types
  <2> QED BY <1>1, <1>2, <2>2, <2>3 DEF Counted, Owned, Rooted
<1>6. Ahead'
  BY <1>1, <1>2 DEF Ahead
<1>7. t' \in Links /\ Shape(t', {}, {})
      /\ it' \in Iters
  BY <1>1, <1>2 DEF Types
<1> QED BY <1>2, <1>3, <1>4, <1>5, <1>6, <1>7, NoCallGives

LEMMA WrapGives == ASSUME TreeInv, NEW n \in Nodes, Wrap(n) PROVE TreeInv'
<1>1. Idle /\ refs' = [refs EXCEPT ![n] = @ + 1] /\ held' = [held EXCEPT ![n] = @ + 1]
      /\ t' = t /\ call' = call /\ it' = it
  BY DEF Wrap
<1>2. Types /\ Shape(t, {}, {}) /\ Counted /\ Ahead /\ call' = NoCall
  BY <1>1, IdleFacts
<1>3. held' \in [Nodes -> Nat] /\ \A m \in Nodes : Handles(m)' = IF m = n THEN Handles(n) + 1 ELSE Handles(m)
  BY <1>1, <1>2, HeldUp
<1>4. refs' \in [Nodes -> Nat] /\ Counted'
  BY <1>1, <1>2, <1>3, CountUp
<1>5. Ahead'
  BY <1>1, <1>2 DEF Ahead
<1>6. t' \in Links /\ Shape(t', {}, {})
      /\ it' \in Iters
  BY <1>1, <1>2 DEF Types
<1> QED BY <1>2, <1>3, <1>4, <1>5, <1>6, NoCallGives

\* The drop of a handle leaves the iterator as next, but for the nodes it owes.
LEMMA DropHandleIter ==
    ASSUME NEW n, NEW next, DropHandle(n, next),
           next \in Iters
    PROVE  /\ it'.root = next.root /\ it'.next = next.next /\ it'.item = next.item
           /\ it' \in Iters
BY DEF DropHandle

\* What leaves with a node changes only what the iterator owes.
LEMMA LeavesWithIter ==
    ASSUME Types, NEW n, it' = LeavesWith(n)
    PROVE  /\ it'.root = it.root /\ it'.next = it.next /\ it'.item = it.item
           /\ it' \in Iters
BY DEF Types, LeavesWith, Leaves

LEMMA DropGives == ASSUME TreeInv, NEW n \in Nodes, Drop(n) PROVE TreeInv'
<1>1. Idle /\ held[n] > 0 /\ (refs[n] < 2 => CarefulKill(n)) /\ DropHandle(n, it)
      /\ held' = [held EXCEPT ![n] = @ - 1] /\ call' = call
  BY DEF Drop
<1>2. Types /\ Shape(t, {}, {}) /\ Counted /\ Ahead /\ call' = NoCall
  BY <1>1, IdleFacts
<1>3. /\ it'.root = it.root /\ it'.next = it.next /\ it'.item = it.item
      /\ it' \in Iters
  <2>1. it \in Iters
    BY <1>2 DEF Types
  <2> QED BY <1>1, <2>1, DropHandleIter
<1>4. held' \in [Nodes -> Nat] /\ \A m \in Nodes : Handles(m)' = IF m = n THEN Handles(n) - 1 ELSE Handles(m)
  BY <1>1, <1>2, <1>3, HeldDown
<1>5. Handles(n) > 0
  BY <1>1, <1>2, HandlesType
<1>6. it'.root = Null => it'.next = Null /\ it'.item = Null
  BY <1>2, <1>3 DEF Ahead
<1>7. t' \in Links /\ refs' \in [Nodes -> Nat] /\ Shape(t', {}, {}) /\ Counted' /\ Ahead'
  BY <1>1, <1>2, <1>3, <1>4, <1>5, <1>6, DropKeeps
<1> QED BY <1>2, <1>3, <1>4, <1>7, NoCallGives

LEMMA DropItemGives == ASSUME TreeInv, DropItem PROVE TreeInv'
<1> DEFINE n == it.item
<1>1. Idle /\ n # Null /\ (refs[n] < 2 => CarefulKill(n)) /\ DropHandle(n, [it EXCEPT !.item = Null])
      /\ held' = held /\ call' = call
  BY DEF DropItem
<1>2. Types /\ Shape(t, {}, {}) /\ Counted /\ Ahead /\ call' = NoCall
  BY <1>1, IdleFacts
<1>3. /\ it'.root = it.root /\ it'.next = it.next /\ it'.item = Null
      /\ it' \in Iters
  <2> DEFINE after == [it EXCEPT !.item = Null]
  <2>1. /\ after.root = it.root /\ after.next = it.next /\ after.item = Null
        /\ after \in Iters
    BY <1>2 DEF Types
  <2>2. DropHandle(n, after)
    BY <1>1
  <2> HIDE DEF after
  <2> QED BY <2>1, <2>2, DropHandleIter
<1>4. n \in Nodes /\ held' \in [Nodes -> Nat]
  BY <1>1, <1>2 DEF Types
<1>5. \A m \in Nodes : Handles(m)' = IF m = n THEN Handles(n) - 1 ELSE Handles(m)
  BY <1>1, <1>2, <1>3, <1>4, NodesAssumption DEF Types, Handles, One
<1>6. Handles(n) > 0
  BY <1>2, <1>4, HandlesType
<1>7. it'.root = Null => it'.next = Null /\ it'.item = Null
  BY <1>2, <1>3 DEF Ahead
<1>8. t' \in Links /\ refs' \in [Nodes -> Nat] /\ Shape(t', {}, {}) /\ Counted' /\ Ahead'
  BY <1>1, <1>2, <1>3, <1>4, <1>5, <1>6, <1>7, DropKeeps
<1> QED BY <1>2, <1>3, <1>4, <1>8, NoCallGives

LEMMA EndIterGives == ASSUME TreeInv, EndIter PROVE TreeInv'
<1> DEFINE n == it.root
<1>1. Idle /\ n # Null /\ it.item = Null /\ DropHandle(n, NoIter) /\ held' = held /\ call' = call
  BY DEF EndIter
<1>2. Types /\ Shape(t, {}, {}) /\ Counted /\ Ahead /\ call' = NoCall
  BY <1>1, IdleFacts
<1>3. /\ it'.root = Null /\ it'.next = Null /\ it'.item = Null
      /\ it' \in Iters
  <2>1. /\ NoIter.root = Null /\ NoIter.next = Null /\ NoIter.item = Null
        /\ NoIter \in Iters
    BY DEF NoIter
  <2> QED BY <1>1, <2>1, DropHandleIter
<1>4. n \in Nodes /\ held' \in [Nodes -> Nat]
  BY <1>1, <1>2 DEF Types
<1>5. \A m \in Nodes : Handles(m)' = IF m = n THEN Handles(n) - 1 ELSE Handles(m)
  BY <1>1, <1>2, <1>3, <1>4, NodesAssumption DEF Types, Handles, One
<1>6. Handles(n) > 0
  BY <1>2, <1>4, HandlesType
<1>7. t' \in Links /\ refs' \in [Nodes -> Nat] /\ Shape(t', {}, {}) /\ Counted' /\ Ahead'
  BY <1>1, <1>2, <1>3, <1>4, <1>5, <1>6, DropKeeps
<1> QED BY <1>2, <1>3, <1>4, <1>7, NoCallGives

LEMMA DecomposeGives == ASSUME TreeInv, NEW n \in Nodes, Decompose(n) PROVE TreeInv'
<1>1. Idle /\ CarefulKill(n) /\ t' = DestroyDeep(t, n) /\ refs' = Release(Subtree(t, n)) /\ call' = call
  BY DEF Decompose
<1>2. Types /\ Shape(t, {}, {}) /\ Counted /\ Ahead /\ call' = NoCall
  BY <1>1, IdleFacts
<1>3. /\ it'.root = it.root /\ it'.next = it.next /\ it'.item \in {it.item, Null}
      /\ it' \in Iters
  BY <1>2 DEF Decompose, Types, Leaves
<1>4. /\ Handles(n) > 0 /\ held' \in [Nodes -> Nat]
      /\ \A m \in Nodes : Handles(m)' = IF m = n THEN Handles(n) - 1 ELSE Handles(m)
  <2>1. CASE held[n] > 0 /\ held' = [held EXCEPT ![n] = @ - 1] /\ it' = Leaves(Subtree(t, n))
    <3>1. it'.item = it.item
      BY <1>2, <2>1 DEF Leaves, Types
    <3> QED BY <1>2, <1>3, <2>1, <3>1, HeldDown, HandlesType
  <2>2. CASE it.item = n /\ it' = [Leaves(Subtree(t, n)) EXCEPT !.item = Null] /\ held' = held
    <3>1. it'.item = Null
      BY <1>2, <2>2 DEF Leaves, Types
    <3>2. \A m \in Nodes : Handles(m)' = IF m = n THEN Handles(n) - 1 ELSE Handles(m)
      BY <1>2, <1>3, <2>2, <3>1, NodesAssumption DEF Types, Handles, One
    <3>3. Handles(n) > 0
      BY <1>2, <2>2, HandlesType
    <3> QED BY <1>2, <2>2, <3>2, <3>3 DEF Types
  <2> QED BY <2>1, <2>2 DEF Decompose
<1>5. it'.root = Null => it'.next = Null /\ it'.item = Null
  BY <1>2, <1>3 DEF Ahead
<1>6. t' \in Links /\ refs' \in [Nodes -> Nat] /\ Shape(t', {}, {}) /\ Counted' /\ Ahead'
  BY <1>1, <1>2, <1>3, <1>4, <1>5, DestroyKeeps
<1> QED BY <1>2, <1>3, <1>4, <1>6, NoCallGives

LEMMA RemoveNodeGives == ASSUME TreeInv, NEW n \in Nodes, RemoveNode(n) PROVE TreeInv'
<1>1. Idle /\ CarefulMove(n) /\ t' = Unlink(t, n) /\ it' = LeavesWith(n)
      /\ refs' = refs /\ held' = held /\ call' = call
  BY DEF RemoveNode
<1>2. Types /\ Shape(t, {}, {}) /\ Counted /\ Ahead /\ call' = NoCall
  BY <1>1, IdleFacts
<1>3. /\ it'.root = it.root /\ it'.next = it.next /\ it'.item = it.item
      /\ it' \in Iters
  BY <1>1, <1>2, LeavesWithIter
<1>4. t' \in Links /\ Shape(t', {}, {}) /\ Counted' /\ Ahead'
  BY <1>1, <1>2, <1>3, UnlinkKeeps
<1>5. refs' \in [Nodes -> Nat] /\ held' \in [Nodes -> Nat]
  BY <1>1, <1>2 DEF Types
<1> QED BY <1>2, <1>3, <1>4, <1>5, NoCallGives

LEMMA StartIterGives == ASSUME TreeInv, NEW n \in Nodes, StartIter(n) PROVE TreeInv'
<1>1. Idle /\ it = NoIter /\ it' = [NoIter EXCEPT !.root = n, !.next = n, !.owed = Subtree(t, n)]
      /\ refs' = [refs EXCEPT ![n] = @ + 1] /\ t' = t /\ held' = held /\ call' = call
  BY DEF StartIter
<1>2. Types /\ Shape(t, {}, {}) /\ Counted /\ Ahead /\ call' = NoCall
  BY <1>1, IdleFacts
<1>3. t \in Links /\ n \in Subtree(t, n) /\ Subtree(t, n) \subseteq Nodes
  BY <1>2, SubtreeIsClosed DEF Types
<1>4. /\ it'.root = n /\ it'.next = n /\ it'.item = Null /\ it.root = Null /\ it.item = Null
      /\ it' \in Iters
  BY <1>1, <1>3 DEF NoIter
<1>5. \A m \in Nodes : Handles(m)' = IF m = n THEN Handles(n) + 1 ELSE Handles(m)
  BY <1>1, <1>2, <1>4, NodesAssumption DEF Types, Handles, One
<1>6. refs' \in [Nodes -> Nat] /\ Counted'
  BY <1>1, <1>2, <1>5, CountUp
<1>7. Ahead'
  BY <1>1, <1>3, <1>4, NodesAssumption DEF Ahead
<1> QED BY <1>1, <1>2, <1>4, <1>6, <1>7, NoCallGives DEF Types

LEMMA IterNextGives == ASSUME TreeInv, IterNext PROVE TreeInv'
<1> DEFINE n == it.next
<1>1. Idle /\ n # Null /\ it.item = Null
      /\ it' = [it EXCEPT !.item = it.next, !.next = Advance(t, it.root, it.next),
                          !.done = @ \cup ({it.next} \cap it.owed)]
      /\ refs' = [refs EXCEPT ![n] = @ + 1] /\ t' = t /\ held' = held /\ call' = call
  BY DEF IterNext
<1>2. Types /\ Shape(t, {}, {}) /\ Counted /\ Ahead /\ call' = NoCall
  BY <1>1, IdleFacts
<1>3. t \in Links /\ n \in Nodes /\ it.root \in Nodes /\ n \in Subtree(t, it.root)
  BY <1>1, <1>2 DEF Types, Ahead
<1>4. Advance(t, it.root, n) \in Subtree(t, it.root) \cup {Null}
  BY <1>2, <1>3, AdvanceStaysBelow DEF Shape
<1>5. Subtree(t, it.root) \subseteq Nodes
  BY <1>3, SubtreeIsClosed
<1>6. /\ it'.root = it.root /\ it'.next = Advance(t, it.root, n) /\ it'.item = n
      /\ it' \in Iters
  BY <1>1, <1>2, <1>3, <1>4, <1>5 DEF Types
<1>7. \A m \in Nodes : Handles(m)' = IF m = n THEN Handles(n) + 1 ELSE Handles(m)
  BY <1>1, <1>2, <1>3, <1>6, NodesAssumption DEF Types, Handles, One
<1>8. refs' \in [Nodes -> Nat] /\ Counted'
  BY <1>1, <1>2, <1>3, <1>7, CountUp
<1>9. Ahead'
  BY <1>1, <1>3, <1>4, <1>6, NodesAssumption DEF Ahead
<1> QED BY <1>1, <1>2, <1>6, <1>8, <1>9, NoCallGives DEF Types

LEMMA CloseDocumentGives == ASSUME TreeInv, CloseDocument PROVE TreeInv'
<1>1. Init'
  BY DEF CloseDocument, Init, Idle
<1>2. (Init => TreeInv)'
  BY InitGives, PTL
<1> QED BY <1>1, <1>2
LEMMA ChildlessIsClosed ==
    ASSUME NEW u \in Links, Shape(u, {}, {}), NEW c \in Nodes, ~ Rooted(u, c)
    PROVE  /\ Loose(u, c) /\ \A k \in Nodes : u.parent[k] # c
           /\ \A m \in Nodes : m \in Subtree(u, c) => m = c
<1>1. \A k \in Nodes : u.parent[k] # c
  BY HasFirst DEF Shape, Rooted
<1>2. Loose(u, c)
  BY DEF Shape, Linked, SiblingsAgree, Loose, Rooted
<1>3. Closed(u, {c})
  BY <1>1 DEF Closed
<1>4. Subtree(u, c) \subseteq {c}
  BY <1>3, SubtreeIsLeast
<1> QED BY <1>1, <1>2, <1>4

LEMMA AppendShape ==
    ASSUME NEW u \in Links, Shape(u, {}, {}), NEW n \in Nodes, Loose(u, n),
           NEW to \in Nodes, to \notin Subtree(u, n), NEW v, v = InsertChild(u, to, n)
    PROVE  /\ v \in Links /\ Shape(v, {}, {}) /\ Moved(u, v, n, to)
           /\ \A m \in Nodes : Rooted(v, m) => m = n \/ m = to \/ Rooted(u, m)
<1>1. PICK none \in SUBSET Nodes : none = {}
  OBVIOUS
<1>2. PICK anchor \in Nodes \cup {Null} : anchor = Null
  OBVIOUS
<1>3. Shape(u, none, none) /\ to \in Nodes \ none /\ none \in SUBSET Nodes /\ anchor \in Nodes \cup {Null}
  BY <1>1, <1>2
<1>4. v = Placed(u, to, anchor, n)
  BY <1>2 DEF Placed
<1>5. anchor # Null => anchor # n /\ u.parent[anchor] = to
  BY <1>2
<1>6. n \in none \/ Loose(u, n)
  OBVIOUS
<1>7. /\ v \in Links /\ Shape(v, none, Less(none, n)) /\ Moved(u, v, n, to) /\ Planted(u, v, {n, to})
  BY <1>3, <1>4, <1>5, <1>6, PutShape
<1>8. none = {} /\ Less(none, n) = {}
  BY <1>1 DEF Less
<1> QED BY <1>7, <1>8 DEF Planted

\* What is below p is destroyed and a new child put there.
LEMMA SetContentGives ==
    ASSUME TreeInv, NEW p \in InReach, NEW c \in Nodes \cup {Null}, SetContent(p, c)
    PROVE  TreeInv'
<1> DEFINE u == DestroyBelow(t, p)
           D == Subtree(t, p) \ {p}
<1>1. /\ Idle /\ (c # Null => refs[c] = 0) /\ (it.next # p => CarefulKill(p))
      /\ t' = (IF c = Null THEN u ELSE InsertChild(u, p, c))
      /\ refs' = [n \in Nodes |-> IF n = c THEN 1 ELSE Release(D)[n]]
      /\ it' = Leaves(D) /\ held' = held /\ call' = call
  BY DEF SetContent
<1>2. Types /\ Shape(t, {}, {}) /\ Counted /\ Ahead /\ call' = NoCall
  BY <1>1, IdleFacts
<1>3. /\ it'.root = it.root /\ it'.next = it.next /\ it'.item = it.item
      /\ it' \in Iters
  BY <1>1, <1>2 DEF Types, Leaves
<1>4. t \in Links /\ refs \in [Nodes -> Nat] /\ held' \in [Nodes -> Nat] /\ p \in Nodes /\ Owned(p)
  BY <1>1, <1>2, ReachIsOwned DEF Types
<1>5. \A m \in Nodes : Handles(m)' = Handles(m) /\ Handles(m) \in Nat
  BY <1>1, <1>2, <1>3, HandlesType DEF Handles, One
<1>6. /\ u \in Links /\ Shape(u, {}, {}) /\ Closed(t, D)
      /\ \A m \in Nodes \ D : u.parent[m] = t.parent[m] /\ (Rooted(u, m) => Rooted(t, m))
      /\ \A m \in D : ~ Rooted(u, m)
  BY <1>2, <1>4, DestroyBelowShape
<1>7. D \in SUBSET Nodes /\ p \notin D /\ \A m \in D : t.parent[m] \in Nodes
  BY <1>4, SubtreeIsClosed, SubtreeUp
<1>8. \A m \in D : refs[m] > Handles(m)
  BY <1>2, <1>7, NodesAssumption DEF Counted, Owned, Rooted
<1>9. c # Null => c \in Nodes /\ c \notin D /\ c # p /\ Handles(c) = 0 /\ ~ Rooted(t, c)
  <2> SUFFICES ASSUME c # Null PROVE c \in Nodes /\ c \notin D /\ c # p /\ Handles(c) = 0 /\ ~ Rooted(t, c)
    OBVIOUS
  <2>1. c \in Nodes /\ refs[c] = 0
    BY <1>1
  <2>2. Handles(c) = 0
    BY <1>2, <1>5, <2>1 DEF Counted
  <2>3. ~ (refs[c] > Handles(c))
    BY <2>1, <2>2
  <2>4. c \notin D /\ c # p /\ ~ Rooted(t, c)
    BY <1>2, <1>4, <1>8, <2>1, <2>3 DEF Counted, Owned
  <2> QED BY <2>1, <2>2, <2>4
<1> HIDE DEF u, D
<1>10. /\ t' \in Links /\ Shape(t', {}, {})
       /\ \A m \in Nodes : m # c => t'.parent[m] = u.parent[m]
       /\ \A m \in Nodes : Rooted(t', m) => m = c \/ m = p \/ Rooted(u, m)
  <2>1. CASE c = Null
    BY <1>1, <1>6, <2>1
  <2>2. CASE c # Null
    <3>1. ~ Rooted(u, c)
      BY <1>6, <1>9, <2>2
    <3>2. Loose(u, c) /\ p \notin Subtree(u, c)
      BY <1>4, <1>6, <1>9, <2>2, <3>1, ChildlessIsClosed
    <3>3. t' = InsertChild(u, p, c) /\ c \in Nodes
      BY <1>1, <1>9, <2>2
    <3>4. /\ t' \in Links /\ Shape(t', {}, {}) /\ Moved(u, t', c, p)
          /\ \A m \in Nodes : Rooted(t', m) => m = c \/ m = p \/ Rooted(u, m)
      BY <1>4, <1>6, <3>2, <3>3, AppendShape
    <3> QED BY <1>6, <3>4 DEF Moved
  <2> QED BY <2>1, <2>2
<1>11. ASSUME NEW m \in Nodes
       PROVE  refs'[m] \in Nat /\ refs'[m] >= Handles(m)' /\ (Rooted(t', m) => refs'[m] > Handles(m)')
  <2>1. Handles(m)' = Handles(m) /\ Handles(m) \in Nat /\ refs[m] \in Nat /\ refs[m] >= Handles(m)
    BY <1>2, <1>4, <1>5 DEF Counted
  <2>2. CASE m = c
    <3>1. refs'[m] = 1 /\ Handles(m) = 0
      BY <1>1, <1>9, <2>2, NodesAssumption
    <3> QED BY <2>1, <3>1
  <2>3. CASE m # c /\ m \in D
    <3>1. refs'[m] = refs[m] - 1 /\ refs[m] > Handles(m)
      BY <1>1, <1>8, <2>3 DEF Release
    <3>2. ~ Rooted(t', m)
      BY <1>6, <1>7, <1>10, <2>3
    <3> QED BY <2>1, <3>1, <3>2
  <2>4. CASE m # c /\ m \notin D
    <3>1. refs'[m] = refs[m]
      BY <1>1, <2>4 DEF Release
    <3>2. Rooted(t', m) => refs[m] > Handles(m)
      BY <1>2, <1>4, <1>6, <1>10, <2>4 DEF Counted, Owned
    <3> QED BY <2>1, <3>1, <3>2
  <2> QED BY <2>2, <2>3, <2>4
<1>12. refs' \in [Nodes -> Nat]
  BY <1>1, <1>11
<1>13. Counted'
  BY <1>11 DEF Counted, Owned
<1>14. ASSUME it.next # Null PROVE it.next \in Subtree(t', it.root)
  <2>1. it.root \in Nodes /\ it.next \in Subtree(t, it.root)
    BY <1>2, <1>14 DEF Types, Ahead
  <2>2. refs[it.next] > 0 /\ it.next \in Nodes
    BY <1>2, <2>1, BelowIsAlive, NodesAssumption
  <2>3. it.next \notin D /\ it.next # c
    BY <1>1, <1>4, <1>14, <2>2 DEF CarefulKill, D
  <2> DEFINE E == D \cup ({c} \ {Null})
  <2>4. E \in SUBSET Nodes /\ it.next \notin E
    BY <1>7, <2>3
  <2>5. Closed(t, E)
    <3>1. c # Null => \A k \in Nodes : t.parent[k] # c
      BY <1>2, <1>4, <1>9, ChildlessIsClosed
    <3> QED BY <1>6, <3>1 DEF Closed
  <2>6. \A k \in Nodes \ E : t'.parent[k] = t.parent[k]
    BY <1>6, <1>10, NodesAssumption
  <2> HIDE DEF E
  <2> QED BY <1>4, <1>10, <2>1, <2>4, <2>5, <2>6, SubtreeOutside
<1>15. Ahead'
  BY <1>2, <1>3, <1>14 DEF Ahead
<1> QED BY <1>2, <1>3, <1>4, <1>10, <1>12, <1>13, <1>15, NoCallGives

----------------------------------------------------------------------------
\* What CarefulMove and Owned say stays as long as nobody moves or drops a handle.
LEMMA SameHandles ==
    ASSUME refs' = refs, held' = held, it'.root = it.root, it'.item = it.item, NEW n \in Nodes
    PROVE  Handles(n)' = Handles(n) /\ (Owned(n)' <=> Owned(n))
BY DEF Handles, Owned, One

LEMMA SameCare ==
    ASSUME it'.root = it.root, it'.next = it.next, NEW n \in Nodes, Subtree(t', n) = Subtree(t, n), CarefulMove(n)
    PROVE  CarefulMove(n)'
BY DEF CarefulMove

\* Every call checks the nodes that it was given before its first step.
LEMMA BeginKeeps ==
    ASSUME TreeInv, Idle, NEW p \in Nodes, Owned(p), NEW c \in Nodes \cup {Null},
           NEW ns \in Seq(Movable), Offers(p, c, ns), CallFields',
           call'.to = p, call'.anchor = c, call'.todo = ns, call'.frag = Null, call'.moving = <<>>,
           call'.emptying => /\ t.first_child[p] # Null /\ c = Null /\ call'.drop = Null
                             /\ \A k \in ToSet(Kids(t, p)) : CarefulMove(k),
           call'.drop # Null => t.parent[call'.drop] = p /\ CarefulMove(call'.drop),
           UNCHANGED <<t, refs, held, it>>
    PROVE  TreeInv'
<1>1. Types /\ Shape(t, {}, {}) /\ Counted /\ Ahead
  BY IdleFacts
<1>2. Types'
  BY <1>1 DEF Types
<1>3. Emptying' = {} /\ Moving' = {}
  BY DEF Emptying, Moving, ToSet
<1>4. Shaped' /\ Counted' /\ Ahead'
  BY <1>1, <1>3, SameHandles DEF Shaped, Counted, Ahead
<1>5. \A q \in Nodes : ToSet(Kids(t, q)) = {k \in Nodes : t.parent[k] = q}
  BY <1>1, KidsAreTheChildren DEF Shape, Types
<1>6. \A k \in Nodes : (CarefulMove(k)' <=> CarefulMove(k)) /\ (Owned(k)' <=> Owned(k))
  BY SameHandles DEF CarefulMove
<1>7. ASSUME NEW i \in 1..Len(ns) PROVE Listed(ns[i])'
  <2>1. ns[i] \in Nodes /\ Owned(ns[i]) /\ Loose(t, ns[i]) /\ i \in DOMAIN ns
    BY <1>7, ReachIsOwned DEF Movable
  <2>2. c = Null => p = ns[i] \/ p \notin Subtree(t, ns[i])
    BY <2>1 DEF Offers
  <2>3. ns[i] \in Fragments => \A k \in Nodes : t.parent[k] = ns[i] => CarefulMove(k)
    BY <1>5, <2>1 DEF Offers
  <2>4. ns[i] # Null
    BY <2>1, NodesAssumption
  <2> QED BY <1>6, <2>1, <2>2, <2>3, <2>4 DEF Listed
<1>8. IsInjective(ns) /\ IsInjective(<<>>)
  BY DEF Offers, IsInjective
<1>9. CallInv'
  <2>1. p # Null
    BY NodesAssumption
  <2>2. call'.emptying => \A k \in Nodes : t.parent[k] = p => CarefulMove(k)
    BY <1>5
  <2>3. call'.drop \in Nodes \cup {Null}
    BY DEF CallFields
  <2>4. \A n \in ToSet(call'.todo) : Listed(n)'
    <3>1. DOMAIN ns = 1..Len(ns)
      OBVIOUS
    <3> QED BY <1>7, <3>1 DEF ToSet
  <2> QED BY <1>3, <1>6, <1>8, <2>1, <2>2, <2>3, <2>4 DEF CallInv
<1> QED BY <1>2, <1>4, <1>9 DEF TreeInv

\* The fields of the call that begins.
LEMMA CallRecord ==
    ASSUME NEW p \in Nodes \cup {Null}, NEW c \in Nodes \cup {Null}, NEW ns \in Seq(Nodes), NEW d \in Nodes \cup {Null},
           NEW f \in Nodes \cup {Null}, NEW ms \in Seq(Nodes), NEW e \in BOOLEAN, NEW promise,
           call' = [to |-> p, anchor |-> c, todo |-> ns, frag |-> f, moving |-> ms, emptying |-> e, drop |-> d,
                    promise |-> promise]
    PROVE  /\ CallFields' /\ call'.to = p /\ call'.anchor = c /\ call'.todo = ns /\ call'.frag = f
           /\ call'.moving = ms /\ call'.emptying = e /\ call'.drop = d
<1>1. /\ call'.to = p /\ call'.anchor = c /\ call'.todo = ns /\ call'.frag = f
      /\ call'.moving = ms /\ call'.drop = d /\ call'.promise = promise
  OBVIOUS
<1>2. call'.emptying = e
  OBVIOUS
<1>3. call' = [to |-> call'.to, anchor |-> call'.anchor, todo |-> call'.todo, frag |-> call'.frag,
               moving |-> call'.moving, emptying |-> call'.emptying, drop |-> call'.drop, promise |-> call'.promise]
  BY <1>1, <1>2
<1> QED BY <1>1, <1>2, <1>3 DEF CallFields

LEMMA BeginGives ==
    ASSUME TreeInv, NEW p \in Nodes, Owned(p), NEW c \in Nodes \cup {Null}, NEW ns \in Seq(Movable), Begin(p, c, ns)
    PROVE  TreeInv'
<1>1. Idle /\ Offers(p, c, ns) /\ UNCHANGED <<t, refs, held, it>>
  BY DEF Begin
<1>2. call' = [NoCall EXCEPT !.to = p, !.anchor = c, !.todo = ns, !.promise = AfterInsert(p, c, ns)]
  BY DEF Begin
<1>3. ns \in Seq(Nodes)
  <2>1. Movable \subseteq Nodes
    BY ReachIsOwned DEF Movable
  <2> QED BY <2>1
<1>4. /\ CallFields' /\ call'.to = p /\ call'.anchor = c /\ call'.todo = ns /\ call'.frag = Null
      /\ call'.moving = <<>> /\ call'.emptying = FALSE /\ call'.drop = Null
  <2>1. PICK promise : promise = AfterInsert(p, c, ns)
    OBVIOUS
  <2>2. call' = [to |-> p, anchor |-> c, todo |-> ns, frag |-> Null, moving |-> <<>>, emptying |-> FALSE,
                 drop |-> Null, promise |-> promise]
    BY <1>2, <2>1 DEF NoCall
  <2>3. Null \in Nodes \cup {Null} /\ <<>> \in Seq(Nodes) /\ FALSE \in BOOLEAN
    OBVIOUS
  <2> QED BY <1>3, <2>2, <2>3, CallRecord
<1> QED BY <1>1, <1>4, BeginKeeps

LEMMA BeginAndDropGives ==
    ASSUME TreeInv, NEW p \in Nodes, Owned(p), NEW c \in Nodes \cup {Null}, NEW ns \in Seq(Movable),
           NEW n \in Nodes, t.parent[n] = p, BeginAndDrop(p, c, ns, n)
    PROVE  TreeInv'
<1>1. Idle /\ Offers(p, c, ns) /\ CarefulMove(n) /\ UNCHANGED <<t, refs, held, it>>
  BY DEF BeginAndDrop
<1>2. PICK promise : call' = [NoCall EXCEPT !.to = p, !.anchor = c, !.todo = ns, !.drop = n, !.promise = promise]
  BY DEF BeginAndDrop
<1>3. ns \in Seq(Nodes)
  <2>1. Movable \subseteq Nodes
    BY ReachIsOwned DEF Movable
  <2> QED BY <2>1
<1>4. /\ CallFields' /\ call'.to = p /\ call'.anchor = c /\ call'.todo = ns /\ call'.frag = Null
      /\ call'.moving = <<>> /\ call'.emptying = FALSE /\ call'.drop = n
  <2>1. call' = [to |-> p, anchor |-> c, todo |-> ns, frag |-> Null, moving |-> <<>>, emptying |-> FALSE,
                 drop |-> n, promise |-> promise]
    BY <1>2 DEF NoCall
  <2>2. Null \in Nodes \cup {Null} /\ n \in Nodes \cup {Null} /\ <<>> \in Seq(Nodes) /\ FALSE \in BOOLEAN
    OBVIOUS
  <2> QED BY <1>3, <2>1, <2>2, CallRecord
<1> QED BY <1>1, <1>4, BeginKeeps

LEMMA ReplaceChildrenGives ==
    ASSUME TreeInv, NEW p \in Nodes, Owned(p), NEW ns \in Seq(Movable), ReplaceChildren(p, ns)
    PROVE  TreeInv'
<1>1. Idle /\ Offers(p, Null, ns) /\ UNCHANGED <<t, refs, held, it>> /\ \A k \in ToSet(Kids(t, p)) : CarefulMove(k)
  BY DEF ReplaceChildren
<1>2. PICK promise : call' = [NoCall EXCEPT !.to = p, !.todo = ns, !.emptying = t.first_child[p] # Null,
                                            !.promise = promise]
  BY DEF ReplaceChildren
<1>3. ns \in Seq(Nodes)
  <2>1. Movable \subseteq Nodes
    BY ReachIsOwned DEF Movable
  <2> QED BY <2>1
<1>4. /\ CallFields' /\ call'.to = p /\ call'.anchor = Null /\ call'.todo = ns /\ call'.frag = Null
      /\ call'.moving = <<>> /\ (call'.emptying <=> t.first_child[p] # Null) /\ call'.drop = Null
  <2>1. PICK e \in BOOLEAN : e = (t.first_child[p] # Null)
    OBVIOUS
  <2>2. call' = [to |-> p, anchor |-> Null, todo |-> ns, frag |-> Null, moving |-> <<>>, emptying |-> e,
                 drop |-> Null, promise |-> promise]
    BY <1>2, <2>1 DEF NoCall
  <2>3. Null \in Nodes \cup {Null} /\ <<>> \in Seq(Nodes) /\ p \in Nodes \cup {Null}
    OBVIOUS
  <2>4. /\ CallFields' /\ call'.to = p /\ call'.anchor = Null /\ call'.todo = ns /\ call'.frag = Null
        /\ call'.moving = <<>> /\ call'.emptying = e /\ call'.drop = Null
    BY <1>3, <2>2, <2>3, CallRecord
  <2> QED BY <2>1, <2>4
<1> QED BY <1>1, <1>4, BeginKeeps
LEMMA ListsAreSequences == ASSUME NEW ns \in Lists PROVE ns \in Seq(Movable)
BY DEF Lists, BoundedSeq, SeqOf

\* A list in reverse order has the same nodes.
LEMMA ReverseIsSequence == ASSUME NEW S, NEW s \in Seq(S) PROVE Reverse(s) \in Seq(S)
<1>1. \A i \in 1..Len(s) : (Len(s) - i) + 1 \in 1..Len(s)
  OBVIOUS
<1>2. Reverse(s) \in [1..Len(s) -> S]
  BY <1>1 DEF Reverse
<1> QED BY <1>2

\* The parent of a node has a reference of its own.
LEMMA ParentIsOwned ==
    ASSUME TreeInv, Idle, NEW n \in Nodes, t.parent[n] # Null
    PROVE  t.parent[n] \in Nodes /\ Owned(t.parent[n])
<1>1. Types /\ Shape(t, {}, {}) /\ Counted
  BY IdleFacts
<1>2. t \in Links /\ t.parent[n] \in Nodes
  BY <1>1 DEF Types, Links, Pointers
<1>3. t.first_child[t.parent[n]] # Null
  BY <1>1, <1>2, HasFirst DEF Shape
<1> QED BY <1>1, <1>2, <1>3 DEF Counted, Rooted

LEMMA InsertionsGive ==
    ASSUME TreeInv, NEW p \in InReach, NEW n \in Movable, NEW c \in InReach,
           AppendChild(p, n) \/ InsertBeforeChild(p, n, c) \/ ReplaceChild(p, n, c)
    PROVE  TreeInv'
<1>1. p \in Nodes /\ Owned(p) /\ c \in Nodes /\ c \in Nodes \cup {Null} /\ Null \in Nodes \cup {Null}
  BY ReachIsOwned
<1>2. <<n>> \in Seq(Movable)
  OBVIOUS
<1>3. CASE AppendChild(p, n)
  <2>1. Begin(p, Null, <<n>>)
    BY <1>3 DEF AppendChild
  <2> QED BY <1>1, <1>2, <2>1, BeginGives
<1>4. CASE InsertBeforeChild(p, n, c)
  <2>1. Begin(p, c, <<n>>)
    BY <1>4 DEF InsertBeforeChild
  <2> QED BY <1>1, <1>2, <2>1, BeginGives
<1>5. CASE ReplaceChild(p, n, c)
  <2>1. BeginAndDrop(p, c, <<n>>, c) /\ t.parent[c] = p
    BY <1>1, <1>5, NodesAssumption DEF ReplaceChild, MayInsert
  <2> QED BY <1>1, <1>2, <2>1, BeginAndDropGives
<1> QED BY <1>3, <1>4, <1>5

LEMMA ListInsertionsGive ==
    ASSUME TreeInv, NEW p \in InReach, NEW ns \in Lists,
           \/ AppendNodes(p, ns) \/ PrependNodes(p, ns) \/ ReplaceChildren(p, ns)
           \/ After(p, ns) \/ Before(p, ns) \/ ReplaceWith(p, ns)
    PROVE  TreeInv'
<1>1. p \in Nodes /\ Owned(p) /\ Null \in Nodes \cup {Null}
  BY ReachIsOwned
<1>2. ns \in Seq(Movable) /\ Reverse(ns) \in Seq(Movable)
  BY ListsAreSequences, ReverseIsSequence
<1>3. t \in Links
  BY DEF TreeInv, Types
<1>4. t.first_child[p] \in Nodes \cup {Null} /\ t.next[p] \in Nodes \cup {Null}
  BY <1>1, <1>3 DEF Links, Pointers
<1>5. CASE AppendNodes(p, ns)
  <2>1. Begin(p, Null, ns)
    BY <1>5 DEF AppendNodes
  <2> QED BY <1>1, <1>2, <2>1, BeginGives
<1>6. CASE PrependNodes(p, ns)
  <2>1. Begin(p, t.first_child[p], Reverse(ns))
    BY <1>6 DEF PrependNodes
  <2> QED BY <1>1, <1>2, <1>4, <2>1, BeginGives
<1>7. CASE ReplaceChildren(p, ns)
  BY <1>1, <1>2, <1>7, ReplaceChildrenGives
<1>8. CASE After(p, ns)
  <2>1. t.parent[p] # Null /\ Begin(t.parent[p], t.next[p], ns)
    BY <1>8 DEF After
  <2>2. Idle
    BY <2>1 DEF Begin
  <2>3. t.parent[p] \in Nodes /\ Owned(t.parent[p])
    BY <1>1, <2>1, <2>2, ParentIsOwned
  <2> QED BY <1>2, <1>4, <2>1, <2>3, BeginGives
<1>9. CASE Before(p, ns)
  <2>1. t.parent[p] # Null /\ Begin(t.parent[p], t.parent[p], ns)
    BY <1>9 DEF Before
  <2>2. Idle
    BY <2>1 DEF Begin
  <2>3. t.parent[p] \in Nodes /\ Owned(t.parent[p]) /\ t.parent[p] \in Nodes \cup {Null}
    BY <1>1, <2>1, <2>2, ParentIsOwned
  <2> QED BY <1>2, <2>1, <2>3, BeginGives
<1>10. CASE ReplaceWith(p, ns)
  <2>1. t.parent[p] # Null /\ BeginAndDrop(t.parent[p], t.parent[p], ns, p)
    BY <1>10 DEF ReplaceWith
  <2>2. Idle
    BY <2>1 DEF BeginAndDrop
  <2>3. t.parent[p] \in Nodes /\ Owned(t.parent[p]) /\ t.parent[p] \in Nodes \cup {Null}
    BY <1>1, <2>1, <2>2, ParentIsOwned
  <2> QED BY <1>1, <1>2, <2>1, <2>3, BeginAndDropGives
<1> QED BY <1>5, <1>6, <1>7, <1>8, <1>9, <1>10

----------------------------------------------------------------------------
\* One node of the call is put into its place.
LEMMA PutKeeps ==
    ASSUME TreeInv, NEW n \in Nodes, call.to \in Nodes, call.to # call.frag, t' = Put(n),
           (n \in Moving /\ CarefulMove(n)) \/ Loose(t, n), Owned(n), call.to \notin Subtree(t, n),
           call.anchor # Null => call.anchor # n /\ t.parent[call.anchor] = call.to,
           refs' = refs, held' = held, it'.root = it.root, it'.next = it.next, it'.item = it.item
    PROVE  /\ t' \in Links /\ Shape(t', Emptying, Less(Moving, n)) /\ Moved(t, t', n, call.to)
           /\ Counted' /\ Ahead'
<1>1. Types /\ Shape(t, Emptying, Moving) /\ CallInv /\ Counted /\ Ahead
  BY DEF TreeInv, Shaped
<1>2. /\ t \in Links /\ Emptying \in SUBSET Nodes /\ Moving \in SUBSET Nodes /\ call.to \in Nodes \ Emptying
      /\ call.anchor \in Nodes \cup {Null}
  <2>1. Moving \in SUBSET Nodes
    BY <1>1 DEF Types, CallFields, Moving, ToSet
  <2> QED BY <1>1, <2>1 DEF Types, CallFields, Emptying
<1>3. t' = Placed(t, call.to, call.anchor, n)
  BY DEF Put, Placed
<1>4. n \in Moving \/ Loose(t, n)
  OBVIOUS
<1>5. /\ t' \in Links /\ Shape(t', Emptying, Less(Moving, n)) /\ Moved(t, t', n, call.to)
      /\ \A m \in Nodes : Rooted(t', m) => m = n \/ m = call.to \/ Rooted(t, m)
  <2> DEFINE to == call.to
             anchor == call.anchor
             F == Emptying
             M == Moving
  <2>1. t \in Links /\ F \in SUBSET Nodes /\ M \in SUBSET Nodes /\ Shape(t, F, M)
    BY <1>1, <1>2
  <2>4. to \in Nodes \ F /\ to \notin Subtree(t, n)
    BY <1>2
  <2>5. anchor \in Nodes \cup {Null}
    BY <1>2
  <2>6. n \in M \/ Loose(t, n)
    BY <1>4
  <2>7. t' = Placed(t, to, anchor, n)
    BY <1>3
  <2>2. anchor # Null => anchor # n /\ t.parent[anchor] = to
    OBVIOUS
  <2> HIDE DEF to, anchor, F, M
  <2>3. /\ t' \in Links /\ Shape(t', F, Less(M, n)) /\ Moved(t, t', n, to) /\ Planted(t, t', {n, to})
    BY <2>1, <2>2, <2>4, <2>5, <2>6, <2>7, PutShape
  <2> QED BY <2>3 DEF to, anchor, F, M, Planted
<1>6. Owned(call.to)
  BY <1>1, NodesAssumption DEF CallInv
<1>7. \A m \in Nodes : Handles(m)' = Handles(m) /\ (Owned(m)' <=> Owned(m))
  BY SameHandles
<1>8. Counted'
  <2>1. \A m \in Nodes : refs'[m] >= Handles(m)'
    BY <1>1, <1>7 DEF Counted
  <2>2. \A m \in Nodes : Rooted(t', m) => Owned(m)'
    BY <1>1, <1>5, <1>6, <1>7 DEF Counted
  <2> QED BY <2>1, <2>2 DEF Counted
<1>9. ASSUME it.next # Null PROVE it.next \in Subtree(t', it.root)
  <2>1. it.root \in Nodes /\ it.next \in Subtree(t, it.root)
    BY <1>1, <1>9 DEF Types, Ahead
  <2>2. t'.parent[n] \notin Subtree(t, n) /\ \A k \in Nodes \ {n} : t'.parent[k] = t.parent[k]
    BY <1>5 DEF Moved
  <2>3. CASE CarefulMove(n)
    <3>1. it.next \in Subtree(t, n) => it.root \in Subtree(t, n)
      BY <1>9, <2>3 DEF CarefulMove
    <3> QED BY <1>1, <1>2, <1>5, <2>1, <2>2, <3>1, StaysBelow DEF Shape
  <2>4. CASE Loose(t, n)
    <3>1. Subtree(t, it.root) \subseteq Subtree(t', it.root)
      BY <1>2, <1>5, <2>1, <2>2, <2>4, SubtreeGrows DEF Loose
    <3> QED BY <2>1, <3>1
  <2> QED BY <2>3, <2>4
<1>10. Ahead'
  BY <1>1, <1>9 DEF Ahead
<1> QED BY <1>5, <1>8, <1>10

\* A node that is still to be inserted, when another one was moved to or out of the call's node.
LEMMA ListedStays ==
    ASSUME t \in Links, t' \in Links, NEW n \in Nodes, NEW p, p = Null \/ (p = call.to /\ p \in Nodes),
           Moved(t, t', n, p), call'.to = call.to, call'.anchor = call.anchor,
           NEW F, NEW M, Shape(t', F, M), NEW m \in Nodes, m \notin M, m # n, Listed(m), m # call'.frag,
           m = call.to \/ (t.parent[n] \notin Subtree(t, m) /\ t.parent[n] \notin Subtree(t', m)),
           refs' = refs, held' = held, it'.root = it.root, it'.next = it.next, it'.item = it.item
    PROVE  Listed(m)'
<1>1. \A k \in Nodes \ {n} : t'.parent[k] = t.parent[k]
  BY DEF Moved
<1>2. t'.parent[n] = p
  BY DEF Moved
<1>3. Loose(t', m)
  <2>1. t'.parent[m] = Null
    BY <1>1 DEF Listed, Loose
  <2> QED BY <2>1 DEF Loose, Shape, Linked, SiblingsAgree
<1>4. Owned(m)'
  BY SameHandles DEF Listed
<1>5. ASSUME call.to \notin Subtree(t', m)
      PROVE  m # call.to /\ call.to \notin Subtree(t, m)
  <2>1. m # call.to
    BY <1>5, SubtreeIsClosed
  <2>2. Subtree(t, m) \subseteq Subtree(t', m)
    BY <1>1, <2>1, SubtreeElsewhere
  <2> QED BY <1>5, <2>1, <2>2
<1>6. ASSUME m # call.to, call.to \notin Subtree(t, m), NEW k \in Subtree(t, m)
      PROVE  Subtree(t', k) = Subtree(t, k)
  <2>1. k \in Nodes /\ Subtree(t, k) \subseteq Subtree(t, m) /\ Null \notin Subtree(t, m)
    BY SubtreeIsClosed, SubtreeIsTransitive, NodesAssumption
  <2>2. t'.parent[n] \notin Subtree(t, k) /\ t.parent[n] \notin Subtree(t, k)
    BY <1>2, <1>6, <2>1
  <2> QED BY <1>1, <2>1, <2>2, SubtreeElsewhere
<1>7. call.anchor = Null => m = call.to \/ call.to \notin Subtree(t', m)
  <2> SUFFICES ASSUME call.anchor = Null, m # call.to PROVE call.to \notin Subtree(t', m)
    OBVIOUS
  <2>1. call.to \notin Subtree(t, m)
    BY DEF Listed
  <2>2. m \in Subtree(t, m)
    BY SubtreeIsClosed
  <2> QED BY <1>6, <2>1, <2>2
<1>8. ASSUME m \in Fragments, call.to \notin Subtree(t', m), NEW k \in Nodes, t'.parent[k] = m
      PROVE  CarefulMove(k)'
  <2>1. m # call.to /\ call.to \notin Subtree(t, m)
    BY <1>5, <1>8
  <2>2. k # n
    BY <1>2, <1>8, <2>1, NodesAssumption
  <2>3. t.parent[k] = m
    BY <1>1, <1>8, <2>2
  <2>4. CarefulMove(k)
    BY <1>8, <2>1, <2>3 DEF Listed
  <2>5. k \in Subtree(t, m)
    BY <2>3, SubtreeIsClosed DEF Closed
  <2>6. Subtree(t', k) = Subtree(t, k)
    BY <1>6, <2>1, <2>5
  <2> QED BY <2>4, <2>6, SameCare
<1> QED BY <1>3, <1>4, <1>7, <1>8 DEF Listed
\* What is left of a list without repetitions.
LEMMA TailFacts ==
    ASSUME NEW S, NEW s \in Seq(S), s # <<>>, IsInjective(s)
    PROVE  /\ Head(s) \in S /\ Head(s) \in ToSet(s) /\ Tail(s) \in Seq(S)
           /\ IsInjective(Tail(s)) /\ ToSet(Tail(s)) = ToSet(s) \ {Head(s)}
<1>1. Len(s) \in Nat /\ Len(s) > 0 /\ DOMAIN s = 1..Len(s) /\ Head(s) = s[1] /\ 1 \in DOMAIN s
  OBVIOUS
<1>2. Tail(s) \in Seq(S) /\ Len(Tail(s)) = Len(s) - 1 /\ DOMAIN Tail(s) = 1..(Len(s) - 1)
  OBVIOUS
<1>3. \A i \in 1..(Len(s) - 1) : Tail(s)[i] = s[i + 1] /\ i + 1 \in DOMAIN s
  BY <1>1
<1>4. IsInjective(Tail(s))
  BY <1>1, <1>2, <1>3 DEF IsInjective
<1>5. ASSUME NEW x \in ToSet(Tail(s)) PROVE x \in ToSet(s) /\ x # Head(s)
  <2>1. PICK i \in 1..(Len(s) - 1) : x = s[i + 1] /\ i + 1 \in DOMAIN s
    BY <1>2, <1>3 DEF ToSet
  <2>2. i + 1 # 1
    OBVIOUS
  <2> QED BY <1>1, <2>1, <2>2 DEF ToSet, IsInjective
<1>6. ASSUME NEW x \in ToSet(s), x # Head(s) PROVE x \in ToSet(Tail(s))
  <2>1. PICK i \in 1..Len(s) : x = s[i]
    BY <1>1 DEF ToSet
  <2>2. i # 1
    BY <1>1, <1>6, <2>1
  <2>3. i - 1 \in 1..(Len(s) - 1) /\ (i - 1) + 1 = i
    BY <1>1, <2>2
  <2>4. Tail(s)[i - 1] = x
    BY <1>3, <2>1, <2>3
  <2> QED BY <1>2, <2>3, <2>4 DEF ToSet
<1>7. Head(s) \in ToSet(s) /\ Head(s) \in S
  BY <1>1 DEF ToSet
<1> QED BY <1>2, <1>4, <1>5, <1>6, <1>7

\* The steps of a call, one by one.
LEMMA TakeFirstGives == ASSUME TreeInv, TakeFirst PROVE TreeInv'
<1> DEFINE c == t.first_child[call.to]
           q == call.to
<1>1. /\ call.emptying /\ t' = Unlink(t, c) /\ it' = LeavesWith(c)
      /\ call' = [call EXCEPT !.emptying = t.next[c] # Null] /\ refs' = refs /\ held' = held
  BY DEF TakeFirst
<1>2. Types /\ CallInv /\ Counted /\ Ahead /\ CallFields /\ t \in Links
  BY DEF TreeInv, Types
<1>3. call.frag = Null /\ call.anchor = Null /\ call.drop = Null /\ call.moving = <<>> /\ q \in Nodes /\ c # Null
  BY <1>1, <1>2 DEF CallInv, CallFields
<1>4. Emptying = {} /\ Moving = {} /\ Shape(t, {}, {})
  <2>1. Emptying = {} /\ Moving = {}
    BY <1>3 DEF Emptying, Moving, ToSet
  <2>2. Shape(t, Emptying, Moving)
    BY DEF TreeInv, Shaped
  <2> QED BY <2>1, <2>2
<1>5. c \in Nodes /\ t.parent[c] = q /\ CarefulMove(c)
  <2>1. c \in Nodes /\ t.parent[c] = q
    BY <1>2, <1>3, <1>4 DEF Shape, Linked, ParentsAgree, Links, Pointers
  <2> QED BY <1>1, <1>2, <2>1 DEF CallInv
<1>6. /\ it'.root = it.root /\ it'.next = it.next /\ it'.item = it.item
      /\ it' \in Iters
  BY <1>1, <1>2, LeavesWithIter
<1>7. t' \in Links /\ Shape(t', {}, {}) /\ Counted' /\ Ahead'
  BY <1>1, <1>2, <1>4, <1>5, <1>6, UnlinkKeeps
<1>8. Moved(t, t', c, Null) /\ t'.first_child[q] = t.next[c]
  <2>1. Moved(t, t', c, Null)
    BY <1>1, <1>2, <1>4, <1>5, UnlinkShape
  <2> QED BY <1>1, <1>3, <1>5, <2>1 DEF Unlink
<1>9. /\ CallFields' /\ call'.to = q /\ call'.anchor = Null /\ call'.todo = call.todo /\ call'.frag = Null
      /\ call'.moving = <<>> /\ (call'.emptying <=> t.next[c] # Null) /\ call'.drop = Null
  <2>1. PICK e \in BOOLEAN : e = (t.next[c] # Null)
    OBVIOUS
  <2>2. call' = [to |-> q, anchor |-> Null, todo |-> call.todo, frag |-> Null, moving |-> <<>>, emptying |-> e,
                 drop |-> Null, promise |-> call.promise]
    BY <1>1, <1>2, <1>3, <2>1 DEF CallFields
  <2>3. Null \in Nodes \cup {Null} /\ <<>> \in Seq(Nodes) /\ q \in Nodes \cup {Null} /\ call.todo \in Seq(Nodes)
    BY <1>2, <1>3 DEF CallFields
  <2>4. /\ CallFields' /\ call'.to = q /\ call'.anchor = Null /\ call'.todo = call.todo /\ call'.frag = Null
        /\ call'.moving = <<>> /\ call'.emptying = e /\ call'.drop = Null
    BY <2>2, <2>3, CallRecord, ZenonT(60)
  <2> QED BY <2>1, <2>4
<1>10. \A k \in Nodes \ {c} : t'.parent[k] = t.parent[k]
  BY <1>8 DEF Moved
<1>11. t'.parent[c] = Null
  BY <1>5, <1>8 DEF Moved
<1>12. ASSUME NEW m \in ToSet(call.todo) PROVE Listed(m)'
  <2>1. Listed(m) /\ m \in Nodes
    BY <1>2 DEF CallInv, CallFields, ToSet
  <2>2. m # c /\ (m = q \/ q \notin Subtree(t, m))
    BY <1>3, <1>5, <2>1, NodesAssumption DEF Listed, Loose
  <2>3. Null \notin Subtree(t, m)
    BY <1>2, <2>1, SubtreeIsClosed, NodesAssumption
  <2>4. Subtree(t', m) \subseteq Subtree(t, m)
    BY <1>2, <1>5, <1>7, <1>10, <1>11, <2>1, <2>3, SubtreeElsewhere
  <2>5. m = call.to \/ (t.parent[c] \notin Subtree(t, m) /\ t.parent[c] \notin Subtree(t', m))
    BY <1>5, <2>2, <2>4
  <2>6. m # call'.frag /\ m \notin {}
    BY <1>9, <2>1, NodesAssumption
  <2>7. call'.to = call.to /\ call'.anchor = call.anchor
    BY <1>3, <1>9
  <2> QED BY <1>1, <1>2, <1>5, <1>6, <1>7, <1>8, <2>1, <2>2, <2>5, <2>6, <2>7, ListedStays
<1>13. ASSUME NEW k \in Nodes, t'.parent[k] = q PROVE CarefulMove(k)'
  <2>1. k # c /\ t.parent[k] = q
    BY <1>3, <1>10, <1>11, <1>13, NodesAssumption
  <2>2. CarefulMove(k)
    BY <1>1, <1>2, <2>1 DEF CallInv
  <2>3. q \notin Subtree(t, k) /\ Null \notin Subtree(t, k)
    BY <1>2, <1>4, <2>1, SubtreeIsBelow, SubtreeIsClosed, NodesAssumption DEF Shape, Deep
  <2>4. Subtree(t', k) = Subtree(t, k)
    BY <1>2, <1>5, <1>7, <1>10, <1>11, <2>3, SubtreeElsewhere
  <2> QED BY <1>6, <2>2, <2>4, SameCare
<1>14. Emptying' = {} /\ Moving' = {}
  BY <1>9 DEF Emptying, Moving, ToSet
<1>15. Owned(q)'
  BY <1>1, <1>2, <1>3, <1>6, SameHandles, NodesAssumption DEF CallInv
<1>16. CallInv'
  <2>1. IsInjective(call'.todo) /\ IsInjective(call'.moving)
    BY <1>2, <1>3, <1>9 DEF CallInv
  <2>2. \A m \in ToSet(call'.todo) : Listed(m)'
    BY <1>9, <1>12
  <2>3. call'.emptying => t'.first_child[q] # Null
    BY <1>8, <1>9
  <2>4. q # Null
    BY <1>3, NodesAssumption
  <2> QED BY <1>9, <1>13, <1>14, <1>15, <2>1, <2>2, <2>3, <2>4 DEF CallInv
<1>17. Types'
  BY <1>1, <1>2, <1>6, <1>7, <1>9 DEF Types
<1> QED BY <1>7, <1>14, <1>16, <1>17 DEF TreeInv, Shaped

\* A node may still be moved with care when another one was moved, neither from nor to below it.
LEMMA CareStays ==
    ASSUME t \in Links, t' \in Links, NEW n \in Nodes, NEW p, Moved(t, t', n, p), NEW k \in Nodes,
           p \notin Subtree(t, k), t.parent[n] \notin Subtree(t, k), CarefulMove(k),
           it'.root = it.root, it'.next = it.next
    PROVE  CarefulMove(k)'
<1>1. t'.parent[n] = p /\ \A m \in Nodes \ {n} : t'.parent[m] = t.parent[m]
  BY DEF Moved
<1>2. Subtree(t', k) = Subtree(t, k)
  BY <1>1, SubtreeElsewhere
<1> QED BY <1>2, SameCare

\* What the call is about to take away keeps its place while another node is put into its own.
LEMMA DropStays ==
    ASSUME Types, Deep(t), NEW d \in Nodes, t.parent[d] = call.to, CarefulMove(d),
           call.to \in Nodes, t' \in Links, NEW n \in Nodes, Moved(t, t', n, call.to), t.parent[n] # call.to,
           t.parent[n] # Null => t.parent[t.parent[n]] = Null,
           it'.root = it.root, it'.next = it.next
    PROVE  t'.parent[d] = call.to /\ CarefulMove(d)'
<1>1. t \in Links /\ d \in Nodes
  BY DEF Types
<1>2. t'.parent[d] = call.to
  BY <1>1 DEF Moved
<1>3. call.to \notin Subtree(t, d)
  BY <1>1, SubtreeIsBelow DEF Deep
<1>4. t.parent[n] \notin Subtree(t, d)
  <2>1. SUFFICES ASSUME t.parent[n] \in Subtree(t, d) PROVE FALSE
    OBVIOUS
  <2>2. t.parent[n] \in Nodes
    BY <1>1, <2>1, SubtreeIsClosed
  <2>3. t.parent[t.parent[n]] = Null
    BY <2>2, NodesAssumption
  <2>4. t.parent[n] = d
    BY <1>1, <2>1, <2>3, RootAlone
  <2> QED BY <2>3, <2>4, NodesAssumption
<1>5. CarefulMove(d)'
  BY <1>1, <1>3, <1>4, CareStays
<1> QED BY <1>2, <1>5

LEMMA MoveKidGives == ASSUME TreeInv, MoveKid PROVE TreeInv'
<1>1. PICK n : n = Head(call.moving)
  OBVIOUS
<1>2. /\ call.moving # <<>> /\ t' = Put(n) /\ it' = LeavesWith(n)
      /\ call' = [call EXCEPT !.moving = Tail(@)] /\ refs' = refs /\ held' = held
  BY <1>1 DEF MoveKid
<1>3. Types /\ CallInv /\ Counted /\ Ahead /\ CallFields /\ t \in Links /\ Shape(t, Emptying, Moving)
  BY DEF TreeInv, Types, Shaped
<1>4. PICK f \in Nodes : f = call.frag /\ t.parent[f] = Null
  BY <1>2, <1>3, NodesAssumption DEF CallInv, CallFields
<1>5. PICK p \in Nodes : p = call.to
  BY <1>3, <1>4, NodesAssumption DEF CallInv, CallFields
<1>6. ~call.emptying /\ p \notin Subtree(t, f) /\ Owned(p)
      /\ (call.anchor # Null => t.parent[call.anchor] = p)
  BY <1>3, <1>4, <1>5, NodesAssumption DEF CallInv
<1>7. /\ Tail(call.moving) \in Seq(Nodes) /\ IsInjective(Tail(call.moving))
      /\ ToSet(Tail(call.moving)) = Moving \ {n} /\ n \in Nodes /\ n \in Moving
  BY <1>1, <1>2, <1>3, TailFacts DEF CallInv, CallFields, Moving
<1>8. \A k \in Moving : k \in Nodes /\ t.parent[k] = f /\ CarefulMove(k)
  BY <1>3, <1>4 DEF CallInv, CallFields, Moving, ToSet
<1>9. f \in Subtree(t, f) /\ Closed(t, Subtree(t, f)) /\ p # f
  BY <1>3, <1>6, SubtreeIsClosed
<1>10. \A k \in Moving : k \in Subtree(t, f) /\ p \notin Subtree(t, k) /\ f \notin Subtree(t, k)
  <2> SUFFICES ASSUME NEW k \in Moving
               PROVE  k \in Subtree(t, f) /\ p \notin Subtree(t, k) /\ f \notin Subtree(t, k)
    OBVIOUS
  <2>1. k \in Subtree(t, f)
    BY <1>8, <1>9 DEF Closed
  <2>2. Subtree(t, k) \subseteq Subtree(t, f)
    BY <1>3, <2>1, SubtreeIsTransitive
  <2>3. t.parent[k] \notin Subtree(t, k)
    BY <1>3, <1>8, SubtreeIsBelow DEF Shape, Deep
  <2> QED BY <1>6, <1>8, <2>1, <2>2, <2>3
<1>11. /\ it'.root = it.root /\ it'.next = it.next /\ it'.item = it.item
       /\ it' \in Iters
  BY <1>2, <1>3, LeavesWithIter
<1>12. Owned(n) /\ CarefulMove(n) /\ t.parent[n] = f /\ n # f
  <2>1. Rooted(t, n)
    BY <1>7, <1>8, NodesAssumption DEF Rooted
  <2> QED BY <1>3, <1>4, <1>7, <1>8, <2>1, NodesAssumption DEF Counted
<1>13. call.anchor # Null => call.anchor # n /\ t.parent[call.anchor] = call.to
  BY <1>5, <1>6, <1>9, <1>12
<1>14. /\ t' \in Links /\ Shape(t', Emptying, Less(Moving, n)) /\ Moved(t, t', n, call.to)
       /\ Counted' /\ Ahead'
  <2>1. (n \in Moving /\ CarefulMove(n)) \/ Loose(t, n)
    BY <1>7, <1>12
  <2>2. call.to \in Nodes /\ call.to # call.frag /\ call.to \notin Subtree(t, n)
    BY <1>4, <1>5, <1>7, <1>9, <1>10
  <2> QED BY <1>2, <1>7, <1>11, <1>12, <1>13, <2>1, <2>2, PutKeeps
<1>15. Moved(t, t', n, p) /\ t'.parent[n] = p /\ \A k \in Nodes \ {n} : t'.parent[k] = t.parent[k]
  <2>1. Moved(t, t', n, p)
    BY <1>5, <1>14
  <2> QED BY <1>7, <2>1 DEF Moved
<1>16. /\ CallFields' /\ call'.to = p /\ call'.anchor = call.anchor /\ call'.todo = call.todo /\ call'.frag = f
       /\ call'.moving = Tail(call.moving) /\ ~call'.emptying /\ call'.drop = call.drop
  <2>0. PICK ms \in Seq(Nodes) : ms = Tail(call.moving)
    BY <1>7
  <2>1. call' = [to |-> p, anchor |-> call.anchor, todo |-> call.todo, frag |-> f, moving |-> ms,
                 emptying |-> FALSE, drop |-> call.drop, promise |-> call.promise]
    BY <1>2, <1>3, <1>4, <1>5, <1>6, <2>0 DEF CallFields
  <2>2. /\ call.anchor \in Nodes \cup {Null} /\ call.drop \in Nodes \cup {Null} /\ call.todo \in Seq(Nodes)
        /\ p \in Nodes \cup {Null} /\ f \in Nodes \cup {Null} /\ FALSE \in BOOLEAN
    BY <1>3 DEF CallFields
  <2>3. /\ CallFields' /\ call'.to = p /\ call'.anchor = call.anchor /\ call'.todo = call.todo /\ call'.frag = f
        /\ call'.moving = ms /\ call'.emptying = FALSE /\ call'.drop = call.drop
    BY <2>1, <2>2, CallRecord, ZenonT(60)
  <2> QED BY <2>0, <2>3
<1>17. Emptying' = Emptying /\ Moving' = Less(Moving, n)
  BY <1>4, <1>7, <1>16 DEF Emptying, Moving, Less
<1>18. t'.parent[f] = Null /\ p \notin Subtree(t', f)
  <2>1. Subtree(t', f) \subseteq Subtree(t, f)
    BY <1>3, <1>6, <1>7, <1>14, <1>15, SubtreeElsewhere
  <2> QED BY <1>4, <1>6, <1>12, <1>15, <2>1
<1>19. ASSUME NEW m \in ToSet(call.todo) PROVE Listed(m)'
  <2>1. Listed(m) /\ m \in Nodes
    BY <1>3 DEF CallInv, CallFields, ToSet
  <2>2. t.parent[m] = Null /\ m # f
    BY <1>4, <2>1 DEF Listed, Loose
  <2>3. m # n /\ m \notin Less(Moving, n)
    BY <1>8, <1>12, <2>2, NodesAssumption DEF Less
  <2>4. f \notin Subtree(t, m) /\ f \notin Subtree(t', m)
    BY <1>3, <1>4, <1>14, <1>18, <2>1, <2>2, RootAlone
  <2>5. p = Null \/ (p = call.to /\ p \in Nodes)
    BY <1>5
  <2>6. m = call.to \/ (t.parent[n] \notin Subtree(t, m) /\ t.parent[n] \notin Subtree(t', m))
    BY <1>12, <2>4
  <2>7. m # call'.frag /\ call'.to = call.to /\ call'.anchor = call.anchor
    BY <1>5, <1>16, <2>2
  <2> QED BY <1>2, <1>3, <1>7, <1>11, <1>14, <1>15, <2>1, <2>3, <2>5, <2>6, <2>7, ListedStays
<1>20. ASSUME NEW k \in Less(Moving, n) PROVE t'.parent[k] = f /\ CarefulMove(k)'
  <2>1. k \in Moving /\ k # n
    BY <1>20 DEF Less
  <2>2. k \in Nodes /\ CarefulMove(k) /\ t.parent[k] = f
    BY <1>8, <2>1
  <2>3. p \notin Subtree(t, k) /\ t.parent[n] \notin Subtree(t, k)
    BY <1>10, <1>12, <2>1
  <2>4. CarefulMove(k)'
    BY <1>3, <1>7, <1>11, <1>14, <1>15, <2>2, <2>3, CareStays
  <2> QED BY <1>15, <2>1, <2>2, <2>4
<1>21. ASSUME NEW d \in Nodes, d = call.drop PROVE t'.parent[d] = p /\ CarefulMove(d)'
  <2>1. t.parent[d] = call.to /\ CarefulMove(d)
    BY <1>3, <1>21, NodesAssumption DEF CallInv
  <2>2. Moved(t, t', n, call.to) /\ t.parent[n] # call.to /\ t.parent[t.parent[n]] = Null
    BY <1>4, <1>5, <1>9, <1>12, <1>14
  <2>3. call.to \in Nodes /\ Deep(t)
    BY <1>3, <1>5 DEF Shape
  <2>4. t'.parent[d] = call.to /\ CarefulMove(d)'
    BY <1>3, <1>7, <1>11, <1>14, <2>1, <2>2, <2>3, DropStays
  <2> QED BY <1>5, <2>4
<1>22. Owned(p)'
  BY <1>2, <1>6, <1>11, SameHandles
<1>23. call.anchor # Null => t'.parent[call.anchor] = p
  BY <1>3, <1>6, <1>13, <1>15 DEF CallFields
<1>24. CallInv'
  <2>1. /\ IsInjective(call'.todo) /\ IsInjective(call'.moving) /\ \A m \in ToSet(call'.todo) : Listed(m)'
    BY <1>3, <1>7, <1>16, <1>19 DEF CallInv
  <2>2. \A k \in Moving' : t'.parent[k] = call'.frag /\ CarefulMove(k)'
    BY <1>16, <1>17, <1>20
  <2>3. call'.drop # Null => t'.parent[call'.drop] = call'.to /\ CarefulMove(call.drop)'
    <3>1. call.drop \in Nodes \cup {Null}
      BY <1>3 DEF CallFields
    <3>2. \A d \in Nodes : d = call'.drop => t'.parent[d] = p /\ CarefulMove(d)'
      BY <1>16, <1>21
    <3>3. call'.drop \in Nodes \cup {Null}
      BY <1>16, <3>1
    <3> QED BY <1>16, <3>2, <3>3 DEF CarefulMove
  <2>4. call'.frag # Null /\ call'.to # Null /\ ~call'.emptying
    BY <1>16, NodesAssumption
  <2>5. Owned(call.to)' /\ t'.parent[call'.frag] = Null /\ call'.to \notin Subtree(t', call'.frag)
        /\ (call'.anchor # Null => t'.parent[call'.anchor] = call'.to)
    BY <1>16, <1>18, <1>22, <1>23 DEF Owned, Handles
  <2> QED BY <2>1, <2>2, <2>3, <2>4, <2>5 DEF CallInv
<1>25. Types'
  BY <1>2, <1>3, <1>11, <1>14, <1>16 DEF Types
<1>26. Shaped'
  BY <1>14, <1>17 DEF Shaped
<1> QED BY <1>14, <1>24, <1>25, <1>26 DEF TreeInv

\* Where a call stands that is about to insert the node n.
AtNode(n) ==
    /\ Types /\ CallInv /\ Counted /\ Ahead /\ Shape(t, {}, {}) /\ Emptying = {} /\ Moving = {}
    /\ ~call.emptying /\ call.frag = Null /\ call.moving = <<>>
    /\ n \in Nodes /\ call.to \in Nodes /\ Listed(n)
    /\ Tail(call.todo) \in Seq(Nodes) /\ IsInjective(Tail(call.todo))
    /\ \A m \in ToSet(Tail(call.todo)) : m \in Nodes /\ m # n /\ Listed(m)

\* The checks of insert_before() are enough for the node not to be put below itself.
LEMMA InsertNextStarts ==
    ASSUME TreeInv, InsertNext, NEW n, n = Head(call.todo)
    PROVE  AtNode(n) /\ (MayInsert(call.to, n, call.anchor) => call.to \notin Subtree(t, n))
<1>1. ~call.emptying /\ call.frag = Null /\ call.todo # <<>>
  BY DEF InsertNext
<1>2. Types /\ CallInv /\ Counted /\ Ahead /\ CallFields /\ t \in Links /\ Shape(t, Emptying, Moving)
  BY DEF TreeInv, Types, Shaped
<1>3. call.moving = <<>> /\ call.to \in Nodes
  BY <1>1, <1>2 DEF CallInv, CallFields
<1>4. Emptying = {} /\ Moving = {}
  BY <1>1, <1>3 DEF Emptying, Moving, ToSet
<1>5. /\ Tail(call.todo) \in Seq(Nodes) /\ IsInjective(Tail(call.todo)) /\ n \in Nodes
      /\ ToSet(Tail(call.todo)) = ToSet(call.todo) \ {n} /\ n \in ToSet(call.todo)
  BY <1>1, <1>2, TailFacts DEF CallInv, CallFields
<1>6. \A m \in ToSet(call.todo) : m \in Nodes /\ Listed(m)
  BY <1>2 DEF CallInv, CallFields, ToSet
<1>7. \A m \in ToSet(Tail(call.todo)) : m \in Nodes /\ m # n /\ Listed(m)
  BY <1>5, <1>6
<1>8. AtNode(n)
  <2>1. Shape(t, {}, {})
    BY <1>2, <1>4
  <2> QED BY <1>1, <1>2, <1>3, <1>4, <1>5, <1>6, <1>7, <2>1 DEF AtNode
<1>9. ASSUME MayInsert(call.to, n, call.anchor) PROVE call.to \notin Subtree(t, n)
  <2>1. CASE call.anchor = Null
    BY <1>5, <1>6, <1>9, <2>1 DEF Listed, MayInsert
  <2>2. CASE call.anchor # Null
    <3>1. call.anchor \in Nodes /\ t.parent[call.anchor] = call.to /\ call.anchor \notin Subtree(t, n)
      BY <1>2, <1>9, <2>2 DEF MayInsert, CallFields
    <3> QED BY <1>2, <1>5, <3>1, SubtreeIsClosed DEF Closed
  <2> QED BY <2>1, <2>2
<1> QED BY <1>8, <1>9

\* The call record after a node was taken from the list.
Took(f, ms) == call' = [call EXCEPT !.todo = Tail(@), !.frag = f, !.moving = ms]

LEMMA TookNode ==
    ASSUME NEW n, AtNode(n), NEW f \in Nodes \cup {Null}, NEW ms \in Seq(Nodes), Took(f, ms)
    PROVE  /\ CallFields' /\ call'.to = call.to /\ call'.anchor = call.anchor /\ call'.todo = Tail(call.todo)
           /\ call'.frag = f /\ call'.moving = ms /\ ~call'.emptying /\ call'.drop = call.drop
<1>1. call' = [to |-> call.to, anchor |-> call.anchor, todo |-> Tail(call.todo), frag |-> f, moving |-> ms,
               emptying |-> FALSE, drop |-> call.drop, promise |-> call.promise]
  BY DEF AtNode, Types, CallFields, Took
<1>2. /\ call.anchor \in Nodes \cup {Null} /\ call.drop \in Nodes \cup {Null} /\ call.to \in Nodes \cup {Null}
      /\ Tail(call.todo) \in Seq(Nodes)
  BY DEF AtNode, Types, CallFields
<1>3. /\ call'.to = call.to /\ call'.anchor = call.anchor /\ call'.todo = Tail(call.todo)
      /\ call'.frag = f /\ call'.moving = ms /\ call'.drop = call.drop /\ call'.promise = call.promise
      /\ call'.emptying = FALSE
  <2>1. call'.emptying = FALSE
    BY <1>1
  <2>2. /\ call'.to = call.to /\ call'.anchor = call.anchor /\ call'.todo = Tail(call.todo)
        /\ call'.frag = f /\ call'.moving = ms /\ call'.drop = call.drop /\ call'.promise = call.promise
    BY <1>1
  <2> QED BY <2>1, <2>2
<1>4. call' = [to |-> call'.to, anchor |-> call'.anchor, todo |-> call'.todo, frag |-> call'.frag,
               moving |-> call'.moving, emptying |-> call'.emptying, drop |-> call'.drop, promise |-> call'.promise]
  BY <1>1
<1> QED BY <1>2, <1>3, <1>4 DEF CallFields

\* The node is not inserted, is opened as a fragment, or is put into its place.
LEMMA SkipGives ==
    ASSUME NEW n, AtNode(n), call' = [call EXCEPT !.todo = Tail(@)], UNCHANGED <<t, refs, held, it>>
    PROVE  TreeInv'
<1>1. Took(Null, <<>>)
  BY DEF AtNode, Types, CallFields, Took
<1>2. /\ CallFields' /\ call'.to = call.to /\ call'.anchor = call.anchor /\ call'.todo = Tail(call.todo)
      /\ call'.frag = Null /\ call'.moving = <<>> /\ ~call'.emptying /\ call'.drop = call.drop
  <2>1. Null \in Nodes \cup {Null} /\ <<>> \in Seq(Nodes)
    OBVIOUS
  <2> QED BY <1>1, <2>1, TookNode
<1>3. Emptying' = {} /\ Moving' = {}
  BY <1>2 DEF Emptying, Moving, ToSet
<1>4. \A k \in Nodes : (CarefulMove(k)' <=> CarefulMove(k)) /\ (Owned(k)' <=> Owned(k)) /\ Handles(k)' = Handles(k)
  BY SameHandles DEF CarefulMove
<1>5. \A m \in ToSet(call'.todo) : Listed(m)'
  <2>1. \A m \in Nodes : Listed(m) => Listed(m)'
    BY <1>2, <1>4 DEF Listed, AtNode
  <2> QED BY <1>2, <2>1 DEF AtNode
<1>6. CallInv'
  <2>1. IsInjective(call'.todo) /\ IsInjective(call'.moving)
    BY <1>2 DEF AtNode, CallInv
  <2>2. call.drop \in Nodes \cup {Null}
    BY DEF AtNode, Types, CallFields
  <2>3. call'.drop # Null => t'.parent[call'.drop] = call'.to /\ CarefulMove(call.drop)'
    BY <1>2, <2>2 DEF AtNode, CallInv, CarefulMove
  <2>4. Owned(call.to)'
    BY <1>2, NodesAssumption DEF AtNode, CallInv, Owned, Handles
  <2> QED BY <1>2, <1>3, <1>5, <2>1, <2>3, <2>4, NodesAssumption DEF CallInv, AtNode
<1>7. Types' /\ Shaped' /\ Counted' /\ Ahead'
  BY <1>2, <1>3, <1>4 DEF AtNode, Types, Shaped, Counted, Ahead
<1> QED BY <1>6, <1>7 DEF TreeInv

LEMMA OpenGives ==
    ASSUME NEW n, AtNode(n), n \in Fragments, MayInsert(call.to, n, call.anchor), call.to \notin Subtree(t, n),
           Took(n, Kids(t, n)),
           UNCHANGED <<t, refs, held, it>>
    PROVE  TreeInv'
<1>1. n \in Nodes /\ n \in Nodes \cup {Null} /\ t \in Links /\ Shape(t, {}, {}) /\ n # Null
  BY NodesAssumption DEF AtNode, Types
<1>2. Kids(t, n) \in Seq(Nodes) /\ IsInjective(Kids(t, n)) /\ ToSet(Kids(t, n)) = {k \in Nodes : t.parent[k] = n}
  BY <1>1, KidsAreTheChildren DEF Shape
<1>3. /\ CallFields' /\ call'.to = call.to /\ call'.anchor = call.anchor /\ call'.todo = Tail(call.todo)
      /\ call'.frag = n /\ call'.moving = Kids(t, n) /\ ~call'.emptying /\ call'.drop = call.drop
  BY <1>1, <1>2, TookNode
<1>4. Emptying' = {n} /\ Moving' = {k \in Nodes : t.parent[k] = n}
  BY <1>1, <1>2, <1>3 DEF Emptying, Moving
<1>5. \A k \in Nodes : (CarefulMove(k)' <=> CarefulMove(k)) /\ (Owned(k)' <=> Owned(k)) /\ Handles(k)' = Handles(k)
  BY SameHandles DEF CarefulMove
<1>6. \A m \in ToSet(call'.todo) : Listed(m)'
  <2>1. \A m \in Nodes \ {n} : Listed(m) => Listed(m)'
    BY <1>3, <1>5 DEF Listed, AtNode
  <2> QED BY <1>3, <2>1 DEF AtNode
<1>7. CallInv'
  <2>1. IsInjective(call'.todo) /\ IsInjective(call'.moving)
    BY <1>2, <1>3 DEF AtNode
  <2>2. call.drop \in Nodes \cup {Null}
    BY DEF AtNode, Types, CallFields
  <2>3. call'.drop # Null => t'.parent[call'.drop] = call'.to /\ CarefulMove(call.drop)'
    BY <1>3, <2>2 DEF AtNode, CallInv, CarefulMove
  <2>4. Owned(call.to)'
    BY <1>3, NodesAssumption DEF AtNode, CallInv, Owned, Handles
  <2>5. \A k \in Moving' : t'.parent[k] = call'.frag /\ CarefulMove(k)'
    BY <1>3, <1>4, <1>5 DEF AtNode, Listed
  <2>6. /\ t'.parent[call'.frag] = Null /\ call'.to \notin Subtree(t', call'.frag)
        /\ (call'.anchor # Null => t'.parent[call'.anchor] = call'.to)
    BY <1>3 DEF AtNode, Listed, Loose, MayInsert
  <2>7. call'.frag # Null /\ call'.to # Null
    BY <1>1, <1>3, NodesAssumption DEF AtNode
  <2> QED BY <1>3, <1>6, <2>1, <2>3, <2>4, <2>5, <2>6, <2>7 DEF CallInv
<1>8. Shaped'
  BY <1>1, <1>4, OpenFragment DEF Shaped
<1>9. Types' /\ Counted' /\ Ahead'
  BY <1>3, <1>5 DEF AtNode, Types, Counted, Ahead
<1> QED BY <1>7, <1>8, <1>9 DEF TreeInv

LEMMA PlaceGives ==
    ASSUME TreeInv, NEW n, AtNode(n), MayInsert(call.to, n, call.anchor), call.to \notin Subtree(t, n),
           call' = [call EXCEPT !.todo = Tail(@)], t' = Put(n), UNCHANGED <<refs, held, it>>
    PROVE  TreeInv'
<1>1. /\ n \in Nodes /\ t \in Links /\ Shape(t, {}, {}) /\ call.to \in Nodes /\ call.frag = Null /\ Listed(n)
      /\ Emptying = {} /\ Moving = {} /\ t.parent[n] = Null /\ Loose(t, n) /\ Owned(n) /\ CallInv /\ Types
  BY DEF AtNode, Types, Listed, Loose
<1>2. Took(Null, <<>>)
  BY <1>1 DEF AtNode, Types, CallFields, Took
<1>3. /\ CallFields' /\ call'.to = call.to /\ call'.anchor = call.anchor /\ call'.todo = Tail(call.todo)
      /\ call'.frag = Null /\ call'.moving = <<>> /\ ~call'.emptying /\ call'.drop = call.drop
  <2>1. Null \in Nodes \cup {Null} /\ <<>> \in Seq(Nodes)
    OBVIOUS
  <2> QED BY <1>2, <2>1, TookNode
<1>4. Emptying' = {} /\ Moving' = {}
  BY <1>3 DEF Emptying, Moving, ToSet
<1>5. t' \in Links /\ Shape(t', {}, {}) /\ Moved(t, t', n, call.to) /\ Counted' /\ Ahead'
  <2>1. call.to # call.frag
    BY <1>1, NodesAssumption
  <2>2. call.anchor # Null => call.anchor # n /\ t.parent[call.anchor] = call.to
    BY DEF MayInsert
  <2>3. /\ t' \in Links /\ Shape(t', Emptying, Less(Moving, n)) /\ Moved(t, t', n, call.to)
        /\ Counted' /\ Ahead'
    BY <1>1, <2>1, <2>2, PutKeeps
  <2>4. Less({}, n) = {}
    BY DEF Less
  <2> QED BY <1>1, <2>3, <2>4
<1>6. \A m \in ToSet(call'.todo) : Listed(m)'
  <2> SUFFICES ASSUME NEW m \in ToSet(call'.todo) PROVE Listed(m)'
    OBVIOUS
  <2>1. m \in Nodes /\ m # n /\ Listed(m) /\ m \notin {} /\ m # call'.frag
    BY <1>3, NodesAssumption DEF AtNode
  <2>2. t.parent[n] \notin Subtree(t, m) /\ t.parent[n] \notin Subtree(t', m)
    BY <1>1, <1>5, <2>1, SubtreeIsClosed, NodesAssumption
  <2>3. PICK p \in Nodes : p = call.to
    BY <1>1
  <2>4. Moved(t, t', n, p)
    BY <1>5, <2>3
  <2> QED BY <1>1, <1>3, <1>5, <2>1, <2>2, <2>3, <2>4, ListedStays
<1>7. ASSUME NEW d \in Nodes, d = call.drop PROVE t'.parent[d] = call.to /\ CarefulMove(d)'
  <2>1. t.parent[d] = call.to /\ CarefulMove(d) /\ t.parent[n] # call.to /\ Deep(t)
    BY <1>1, <1>7, NodesAssumption DEF CallInv, Shape
  <2> QED BY <1>1, <1>5, <2>1, DropStays
<1>8. CallInv'
  <2>1. IsInjective(call'.todo) /\ IsInjective(call'.moving)
    BY <1>1, <1>3 DEF AtNode, CallInv
  <2>2. call'.drop \in Nodes \cup {Null}
    BY <1>3 DEF CallFields
  <2>3. call'.drop # Null => t'.parent[call'.drop] = call'.to /\ CarefulMove(call.drop)'
    <3>1. \A d \in Nodes : d = call'.drop => t'.parent[d] = call.to /\ CarefulMove(d)'
      BY <1>3, <1>7
    <3> QED BY <1>3, <2>2, <3>1 DEF CarefulMove
  <2>4. Owned(call.to)'
    BY <1>1, <1>3, NodesAssumption DEF CallInv, Owned, Handles
  <2> QED BY <1>1, <1>3, <1>4, <1>6, <2>1, <2>3, <2>4, NodesAssumption DEF CallInv
<1>9. Types'
  BY <1>1, <1>3, <1>5 DEF Types
<1>10. Shaped'
  BY <1>4, <1>5 DEF Shaped
<1> QED BY <1>5, <1>8, <1>9, <1>10 DEF TreeInv

LEMMA InsertNextGives == ASSUME TreeInv, InsertNext PROVE TreeInv'
<1>1. PICK n : n = Head(call.todo)
  OBVIOUS
<1>2. AtNode(n) /\ (MayInsert(call.to, n, call.anchor) => call.to \notin Subtree(t, n))
  BY <1>1, InsertNextStarts
<1>3. UNCHANGED <<refs, held, it>>
  BY DEF InsertNext
<1>4. CASE ~MayInsert(call.to, n, call.anchor)
  <2>1. call' = [call EXCEPT !.todo = Tail(@)] /\ t' = t
    BY <1>1, <1>4 DEF InsertNext
  <2> QED BY <1>2, <1>3, <2>1, SkipGives
<1>5. CASE MayInsert(call.to, n, call.anchor) /\ n \in Fragments
  <2>1. Took(n, Kids(t, n)) /\ t' = t
    BY <1>1, <1>5 DEF InsertNext, Took
  <2> QED BY <1>2, <1>3, <1>5, <2>1, OpenGives
<1>6. CASE MayInsert(call.to, n, call.anchor) /\ n \notin Fragments
  <2>1. call' = [call EXCEPT !.todo = Tail(@)] /\ t' = Put(n)
    BY <1>1, <1>6 DEF InsertNext
  <2> QED BY <1>2, <1>3, <1>6, <2>1, PlaceGives
<1> QED BY <1>4, <1>5, <1>6

LEMMA FinishFragmentGives == ASSUME TreeInv, FinishFragment PROVE TreeInv'
<1>1. PICK f : f = call.frag
  OBVIOUS
<1>2. /\ f # Null /\ call.moving = <<>> /\ t' = ForgetChildren(t, f)
      /\ call' = [call EXCEPT !.frag = Null] /\ refs' = refs /\ held' = held /\ it' = it
  BY <1>1 DEF FinishFragment
<1>3. Types /\ CallInv /\ Counted /\ Ahead /\ CallFields /\ t \in Links /\ Shape(t, Emptying, Moving)
  BY DEF TreeInv, Types, Shaped
<1>4. f \in Nodes /\ Emptying = {f} /\ Moving = {} /\ ~call.emptying
  <2>1. f \in Nodes /\ ~call.emptying
    BY <1>1, <1>2, <1>3 DEF CallFields, CallInv
  <2>2. Moving = {}
    BY <1>2 DEF Moving, ToSet
  <2>3. Emptying = {f}
    BY <1>1, <1>2 DEF Emptying
  <2> QED BY <2>1, <2>2, <2>3
<1>5. /\ t' \in Links /\ Shape(t', {}, {}) /\ t'.parent = t.parent
      /\ \A m \in Nodes : Rooted(t', m) => Rooted(t, m)
  BY <1>2, <1>3, <1>4, ForgetShape
<1>6. /\ CallFields' /\ call'.to = call.to /\ call'.anchor = call.anchor /\ call'.todo = call.todo
      /\ call'.frag = Null /\ call'.moving = <<>> /\ ~call'.emptying /\ call'.drop = call.drop
  <2>1. call' = [to |-> call.to, anchor |-> call.anchor, todo |-> call.todo, frag |-> Null, moving |-> <<>>,
                 emptying |-> FALSE, drop |-> call.drop, promise |-> call.promise]
    BY <1>2, <1>3, <1>4 DEF CallFields
  <2>2. /\ call.anchor \in Nodes \cup {Null} /\ call.drop \in Nodes \cup {Null} /\ call.todo \in Seq(Nodes)
        /\ call.to \in Nodes \cup {Null}
    BY <1>3 DEF CallFields
  <2>3. /\ call'.to = call.to /\ call'.anchor = call.anchor /\ call'.todo = call.todo
        /\ call'.frag = Null /\ call'.moving = <<>> /\ call'.drop = call.drop
    BY <2>1
  <2>4. call'.emptying = FALSE
    BY <2>1
  <2>5. call' = [to |-> call'.to, anchor |-> call'.anchor, todo |-> call'.todo, frag |-> call'.frag,
                 moving |-> call'.moving, emptying |-> call'.emptying, drop |-> call'.drop, promise |-> call'.promise]
    BY <2>1
  <2>6. <<>> \in Seq(Nodes) /\ Null \in Nodes \cup {Null}
    OBVIOUS
  <2> QED BY <2>2, <2>3, <2>4, <2>5, <2>6 DEF CallFields
<1>7. Emptying' = {} /\ Moving' = {}
  BY <1>6 DEF Emptying, Moving, ToSet
<1>8. /\ \A k \in Nodes : Subtree(t', k) = Subtree(t, k) /\ (CarefulMove(k)' <=> CarefulMove(k))
      /\ \A k \in Nodes : (Owned(k)' <=> Owned(k)) /\ Handles(k)' = Handles(k)
  <2>1. \A k \in Nodes : Subtree(t', k) = Subtree(t, k)
    BY <1>3, <1>5, SubtreeByParents
  <2>2. \A k \in Nodes : CarefulMove(k)' <=> CarefulMove(k)
    BY <1>2, <2>1 DEF CarefulMove
  <2>3. \A k \in Nodes : (Owned(k)' <=> Owned(k)) /\ Handles(k)' = Handles(k)
    BY <1>2, SameHandles
  <2> QED BY <2>1, <2>2, <2>3
<1>9. ASSUME NEW m \in Nodes, Listed(m) PROVE Listed(m)'
  <2>1. Loose(t', m)
    <3>1. t'.parent[m] = Null
      BY <1>5, <1>9 DEF Listed, Loose
    <3> QED BY <1>5, <3>1 DEF Loose, Shape, Linked, SiblingsAgree
  <2> QED BY <1>5, <1>6, <1>8, <1>9, <2>1, NodesAssumption DEF Listed
<1>10. CallInv'
  <2>1. IsInjective(call'.todo) /\ IsInjective(call'.moving) /\ \A m \in ToSet(call'.todo) : Listed(m)'
    BY <1>2, <1>3, <1>6, <1>9 DEF CallInv, CallFields, ToSet
  <2>2. call'.drop \in Nodes \cup {Null}
    BY <1>6 DEF CallFields
  <2>3. call'.drop # Null => t'.parent[call'.drop] = call'.to /\ CarefulMove(call.drop)'
    BY <1>3, <1>5, <1>6, <1>8, <2>2 DEF CallInv, CarefulMove
  <2>4. call'.to # Null /\ Owned(call.to)'
    BY <1>1, <1>2, <1>3, <1>6, NodesAssumption DEF CallInv, Owned, Handles
  <2> QED BY <1>6, <1>7, <2>1, <2>3, <2>4 DEF CallInv
<1>11. Counted' /\ Ahead'
  <2>1. it.root # Null => it.root \in Nodes
    BY <1>3 DEF Types
  <2>2. it.next # Null => it.next \in Subtree(t', it.root)
    BY <1>3, <1>8, <2>1 DEF Ahead
  <2> QED BY <1>2, <1>3, <1>5, <1>8, <2>2 DEF Counted, Ahead
<1>12. Types' /\ Shaped'
  BY <1>2, <1>3, <1>5, <1>6, <1>7 DEF Types, Shaped
<1> QED BY <1>10, <1>11, <1>12 DEF TreeInv

LEMMA ReturnGives == ASSUME TreeInv, Return PROVE TreeInv'
<1>1. /\ ~call.emptying /\ call.frag = Null /\ call' = NoCall /\ refs' = refs /\ held' = held
      /\ t' = (IF call.drop = Null THEN t ELSE Unlink(t, call.drop))
      /\ it' = (IF call.drop = Null THEN it ELSE LeavesWith(call.drop))
  BY DEF Return
<1>2. Types /\ CallInv /\ Counted /\ Ahead /\ CallFields /\ t \in Links /\ Shape(t, Emptying, Moving)
  BY DEF TreeInv, Types, Shaped
<1>3. Shape(t, {}, {})
  <2>1. call.moving = <<>>
    BY <1>1, <1>2 DEF CallInv
  <2>2. Emptying = {} /\ Moving = {}
    BY <1>1, <2>1 DEF Emptying, Moving, ToSet
  <2> QED BY <1>2, <2>2
<1>4. refs' \in [Nodes -> Nat] /\ held' \in [Nodes -> Nat]
  BY <1>1, <1>2 DEF Types
<1>5. CASE call.drop = Null
  <2>1. t' = t /\ it' = it
    BY <1>1, <1>5
  <2>2. Counted' /\ Ahead'
    BY <1>1, <1>2, <2>1, SameHandles DEF Counted, Ahead
  <2> QED BY <1>1, <1>2, <1>3, <1>4, <2>1, <2>2, NoCallGives DEF Types
<1>6. CASE call.drop # Null
  <2>1. PICK d \in Nodes : d = call.drop
    BY <1>2, <1>6 DEF CallFields
  <2>2. t' = Unlink(t, d) /\ it' = LeavesWith(d) /\ CarefulMove(d)
    BY <1>1, <1>2, <1>6, <2>1 DEF CallInv
  <2>3. /\ it'.root = it.root /\ it'.next = it.next /\ it'.item = it.item
        /\ it' \in Iters
    BY <1>2, <2>2, LeavesWithIter
  <2>4. t' \in Links /\ Shape(t', {}, {}) /\ Counted' /\ Ahead'
    BY <1>1, <1>2, <1>3, <2>2, <2>3, UnlinkKeeps
  <2> QED BY <1>1, <1>4, <2>3, <2>4, NoCallGives
<1> QED BY <1>5, <1>6

----------------------------------------------------------------------------
\* Every step keeps the invariant.
LEMMA CallStepGives == ASSUME TreeInv, CallStep PROVE TreeInv'
BY TakeFirstGives, InsertNextGives, MoveKidGives, FinishFragmentGives, ReturnGives DEF CallStep

LEMMA MutationGives == ASSUME TreeInv, Mutation PROVE TreeInv'
<1>1. CASE CallStep
  BY <1>1, CallStepGives
<1>2. CASE \E n \in Nodes : Create(n) \/ Drop(n) \/ Decompose(n)
  BY <1>2, CreateGives, DropGives, DecomposeGives
<1>3. CASE \E n \in InReach : RemoveNode(n)
  BY <1>3, ReachIsOwned, RemoveNodeGives
<1>4. CASE \E p \in InReach, n \in Movable : AppendChild(p, n)
  <2>1. PICK p \in InReach, n \in Movable : AppendChild(p, n)
    BY <1>4
  <2> QED BY <2>1, InsertionsGive
<1>5. CASE \E p \in InReach, c \in InReach, n \in Movable : InsertBeforeChild(p, n, c) \/ ReplaceChild(p, n, c)
  <2>1. PICK p \in InReach, c \in InReach, n \in Movable : InsertBeforeChild(p, n, c) \/ ReplaceChild(p, n, c)
    BY <1>5
  <2> QED BY <2>1, InsertionsGive
<1>6. CASE \E p \in InReach, ns \in Lists : \/ AppendNodes(p, ns) \/ PrependNodes(p, ns) \/ ReplaceChildren(p, ns)
                                            \/ After(p, ns) \/ Before(p, ns) \/ ReplaceWith(p, ns)
  <2>1. PICK p \in InReach, ns \in Lists : \/ AppendNodes(p, ns) \/ PrependNodes(p, ns) \/ ReplaceChildren(p, ns)
                                           \/ After(p, ns) \/ Before(p, ns) \/ ReplaceWith(p, ns)
    BY <1>6
  <2> QED BY <2>1, ListInsertionsGive
<1>7. CASE \E p \in InReach, c \in Nodes \cup {Null} : SetContent(p, c)
  BY <1>7, SetContentGives
<1>8. CASE CloseDocument
  BY <1>8, CloseDocumentGives
<1> QED BY <1>1, <1>2, <1>3, <1>4, <1>5, <1>6, <1>7, <1>8 DEF Mutation

LEMMA NextGives == ASSUME TreeInv, [Next]_vars PROVE TreeInv'
<1>1. CASE Mutation
  BY <1>1, MutationGives
<1>2. CASE \E n \in InReach \cup {m \in Nodes : held[m] > 0} : Wrap(n)
  BY <1>2, ReachIsOwned, WrapGives
<1>3. CASE \E n \in InReach : StartIter(n)
  BY <1>3, ReachIsOwned, StartIterGives
<1>4. CASE IterNext \/ DropItem \/ EndIter
  BY <1>4, IterNextGives, DropItemGives, EndIterGives
<1>5. CASE UNCHANGED vars
  BY <1>5 DEF vars, TreeInv, Types, CallFields, Shaped, Emptying, Moving, CallInv, Listed, Owned, Handles,
              CarefulMove, Counted, Ahead
<1> QED BY <1>1, <1>2, <1>3, <1>4, <1>5 DEF Next

(***************************************************************************)
(* The invariant holds in every reachable state.                           *)
(***************************************************************************)
THEOREM TreeInvariant == Spec => []TreeInv
<1>1. Init => TreeInv
  BY InitGives
<1>2. TreeInv /\ [Next]_vars => TreeInv'
  BY NextGives
<1> QED BY <1>1, <1>2, PTL DEF Spec

(***************************************************************************)
(* The five pointers of all nodes agree whenever no call is under way, and *)
(* while a fragment's children are moved all but the fragment's own and    *)
(* those of the children still to be moved: insertions, removals and       *)
(* destructions together keep it, although Lexbor's insertion looks        *)
(* neither at the old place of a node nor at where its anchor is.          *)
(***************************************************************************)
THEOREM TreeIsLinked == Spec => []WellLinked
<1>1. TreeInv => WellLinked
  BY InvGives
<1> QED BY <1>1, TreeInvariant, PTL

(***************************************************************************)
(* No handle outlives its node: each handle is counted, every node with a  *)
(* place in a tree has a reference besides those of its handles, and the   *)
(* node an iterator read ahead is alive and still below its root.          *)
(***************************************************************************)
THEOREM NothingDangles == Spec => []NoDangling
<1>1. TreeInv => NoDangling
  BY InvGives
<1> QED BY <1>1, TreeInvariant, PTL

----------------------------------------------------------------------------
\* The order of the document: a node comes before what is below it, and of two siblings the one
\* that next leads on from comes before the other, each with all that is below.
Beside(u, rank, a, b) ==
    u.parent[a] # Null /\ u.parent[a] = u.parent[b] /\ rank[a] < rank[b]

Precedes(u, rank, m, n) ==
    \/ n # m /\ n \in Subtree(u, m)
    \/ \E a, b \in Nodes : Beside(u, rank, a, b) /\ m \in Subtree(u, a) /\ n \in Subtree(u, b)

LEMMA NotBelowItself ==
    ASSUME NEW u \in Links, Deep(u), NEW n \in Nodes
    PROVE  /\ u.parent[n] \notin Subtree(u, n)
           /\ \A m \in Subtree(u, n) : n \in Subtree(u, m) => m = n
<1>1. PICK depth \in [Nodes -> Nat] : Deepens(u, depth)
  BY DEF Deep
<1> QED BY <1>1, SubtreeIsBelow

\* What is below two nodes: one of them is below the other.
LEMMA OneIsAbove ==
    ASSUME NEW u \in Links, NEW a \in Nodes, NEW b \in Nodes, NEW m \in Subtree(u, a), m \in Subtree(u, b)
    PROVE  a \in Subtree(u, b) \/ b \in Subtree(u, a)
<1> SUFFICES ASSUME b \notin Subtree(u, a), a \notin Subtree(u, b) PROVE FALSE
  OBVIOUS
<1> DEFINE S == Subtree(u, a) \ Subtree(u, b)
<1>1. S \in SUBSET Nodes /\ a \in S
  BY SubtreeIsClosed
<1>2. Closed(u, S)
  <2> SUFFICES ASSUME NEW k \in Nodes, u.parent[k] \in S PROVE k \in S
    BY DEF Closed
  <2>1. k \in Subtree(u, a)
    BY SubtreeIsClosed DEF Closed
  <2>2. k # b
    BY <2>1
  <2>3. k \notin Subtree(u, b)
    BY <2>2, SubtreeUp
  <2> QED BY <2>1, <2>3
<1> QED BY <1>1, <1>2, SubtreeIsLeast

LEMMA SiblingsApart ==
    ASSUME NEW u \in Links, Deep(u), NEW a \in Nodes, NEW b \in Nodes, a # b, u.parent[a] # Null,
           u.parent[a] = u.parent[b], NEW m \in Subtree(u, a)
    PROVE  m \notin Subtree(u, b)
<1> SUFFICES ASSUME m \in Subtree(u, b) PROVE FALSE
  OBVIOUS
<1>1. u.parent[a] \notin Subtree(u, a) /\ u.parent[b] \notin Subtree(u, b)
  BY NotBelowItself
<1>2. a \in Subtree(u, b) \/ b \in Subtree(u, a)
  BY OneIsAbove
<1>3. a \in Subtree(u, b) => u.parent[a] \in Subtree(u, b)
  BY SubtreeUp
<1>4. b \in Subtree(u, a) => u.parent[b] \in Subtree(u, a)
  BY SubtreeUp
<1> QED BY <1>1, <1>2, <1>3, <1>4

LEMMA BesideApart ==
    ASSUME NEW u \in Links, Deep(u), NEW rank \in [Nodes -> Nat], NEW a \in Nodes, NEW b \in Nodes,
           Beside(u, rank, a, b)
    PROVE  a # b /\ u.parent[a] # Null /\ u.parent[a] = u.parent[b] /\ Subtree(u, a) \cap Subtree(u, b) = {}
<1>1. a # b
  <2>1. rank[a] \in Nat /\ rank[a] < rank[b]
    BY DEF Beside
  <2> QED BY <2>1
<1> QED BY <1>1, SiblingsApart DEF Beside

\* Of two nodes at most one comes before the other.
LEMMA PrecedesOneWay ==
    ASSUME NEW u \in Links, Deep(u), NEW rank \in [Nodes -> Nat], NEW m \in Nodes, NEW n \in Nodes,
           Precedes(u, rank, m, n)
    PROVE  ~ Precedes(u, rank, n, m)
<1> SUFFICES ASSUME Precedes(u, rank, n, m) PROVE FALSE
  OBVIOUS
<1> DEFINE Below(a) == Subtree(u, a)
<1>1. \A a, b \in Nodes : Beside(u, rank, a, b) =>
         /\ a # b /\ u.parent[a] # Null /\ u.parent[a] = u.parent[b] /\ Below(a) \cap Below(b) = {}
  BY BesideApart
<1>2. m \in Below(m) /\ n \in Below(n)
  BY SubtreeIsClosed
<1>3. ASSUME NEW x \in Nodes, NEW y \in Nodes, y \in Below(x), NEW a \in Nodes, NEW b \in Nodes, Beside(u, rank, a, b)
      PROVE  ~ (x \in Below(a) /\ y \in Below(b)) /\ ~ (x \in Below(b) /\ y \in Below(a))
  BY <1>1, <1>3, SubtreeIsTransitive
<1>4. CASE n # m /\ n \in Below(m)
  <2>1. m \notin Below(n)
    BY <1>4, NotBelowItself
  <2> QED BY <1>3, <1>4, <2>1 DEF Precedes
<1>5. CASE n # m /\ m \in Below(n)
  <2>1. n \notin Below(m)
    BY <1>5, NotBelowItself
  <2> QED BY <1>3, <1>5, <2>1 DEF Precedes
<1>6. ASSUME NEW a \in Nodes, NEW b \in Nodes, Beside(u, rank, a, b), m \in Below(a), n \in Below(b),
             NEW c \in Nodes, NEW d \in Nodes, Beside(u, rank, c, d), n \in Below(c), m \in Below(d)
      PROVE  FALSE
  <2>1. u.parent[a] = u.parent[b] /\ u.parent[c] = u.parent[d] /\ u.parent[a] # Null /\ u.parent[c] # Null
        /\ Below(a) \cap Below(b) = {} /\ Below(c) \cap Below(d) = {}
    BY <1>1, <1>6
  <2>2. CASE a = d
    <3>1. u.parent[b] = u.parent[c]
      BY <2>1, <2>2
    <3>2. b = c
      BY <1>6, <2>1, <3>1, SiblingsApart
    <3>3. rank[a] < rank[b] /\ rank[b] < rank[a] /\ rank[a] \in Nat /\ rank[b] \in Nat
      BY <1>6, <2>2, <3>2 DEF Beside
    <3> QED BY <3>3
  <2>3. CASE a # d /\ a \in Below(d)
    <3>1. u.parent[a] \in Below(d)
      BY <2>3, SubtreeUp
    <3>2. b \in Below(d)
      BY <2>1, <3>1, SubtreeIsClosed DEF Closed
    <3>3. n \in Below(d)
      BY <1>6, <3>2, SubtreeIsTransitive
    <3> QED BY <1>6, <2>1, <3>3
  <2>4. CASE a # d /\ d \in Below(a)
    <3>1. u.parent[d] \in Below(a)
      BY <2>4, SubtreeUp
    <3>2. c \in Below(a)
      BY <2>1, <3>1, SubtreeIsClosed DEF Closed
    <3>3. n \in Below(a)
      BY <1>6, <3>2, SubtreeIsTransitive
    <3> QED BY <1>6, <2>1, <3>3
  <2>5. a \in Below(d) \/ d \in Below(a)
    BY <1>6, OneIsAbove
  <2> QED BY <2>2, <2>3, <2>4, <2>5
<1> QED BY <1>4, <1>5, <1>6 DEF Precedes

LEMMA NotBeforeItself ==
    ASSUME NEW u \in Links, Deep(u), NEW rank \in [Nodes -> Nat], NEW m \in Nodes
    PROVE  ~ Precedes(u, rank, m, m)
BY PrecedesOneWay

----------------------------------------------------------------------------
\* A change inside of a closed set D leaves the order outside of it.
LEMMA OrderOutside ==
    ASSUME NEW u \in Links, NEW v \in Links, NEW rank \in [Nodes -> Nat], NEW later \in [Nodes -> Nat],
           NEW D \in SUBSET Nodes, Closed(u, D), \A k \in Nodes \ D : v.parent[k] = u.parent[k],
           \A a, b \in Nodes \ D : later[a] < later[b] <=> rank[a] < rank[b],
           NEW x \in Nodes \ D, NEW y \in Nodes \ D
    PROVE  Precedes(v, later, x, y) <=> Precedes(u, rank, x, y)
<1>1. Closed(v, D)
  BY DEF Closed
<1>2. \A r \in Nodes, m \in Nodes \ D : m \in Subtree(u, r) <=> m \in Subtree(v, r)
  BY <1>1, SubtreeOutside
<1>3. \A r \in D : Subtree(u, r) \subseteq D
  BY SubtreeIsLeast
<1>4. \A r \in D : Subtree(v, r) \subseteq D
  BY <1>1, SubtreeIsLeast
<1>5. \A a, b \in Nodes \ D : Beside(u, rank, a, b) <=> Beside(v, later, a, b)
  BY DEF Beside
<1> QED BY <1>2, <1>3, <1>4, <1>5 DEF Precedes

\* A node that moves takes the order of what is below it along.
LEMMA OrderInside ==
    ASSUME NEW u \in Links, NEW v \in Links, Deep(u), Deep(v), NEW n \in Nodes, NEW p, Moved(u, v, n, p),
           p \notin Subtree(u, n),
           NEW rank \in [Nodes -> Nat], NEW later \in [Nodes -> Nat],
           \A a, b \in Nodes \ {n} : later[a] < later[b] <=> rank[a] < rank[b],
           NEW x \in Subtree(u, n), NEW y \in Subtree(u, n)
    PROVE  Precedes(v, later, x, y) <=> Precedes(u, rank, x, y)
<1> DEFINE S == Subtree(u, n)
<1>1. S \subseteq Nodes /\ n \in S /\ Closed(u, S)
  BY SubtreeIsClosed
<1>2. u.parent[n] \notin S /\ v.parent[n] = p /\ \A k \in Nodes \ {n} : v.parent[k] = u.parent[k]
  BY NotBelowItself DEF Moved
<1>3. Subtree(v, n) = S
  BY <1>2, SubtreeElsewhere
<1>4. \A r \in S : Subtree(v, r) = Subtree(u, r)
  BY <1>1, <1>2, SubtreeIsTransitive, SubtreeElsewhere
<1>5. ASSUME NEW w \in {u, v}, NEW order \in [Nodes -> Nat], NEW a \in Nodes, NEW b \in Nodes,
             Beside(w, order, a, b), x \in Subtree(w, a), y \in Subtree(w, b)
      PROVE  a \in S \ {n} /\ b \in S \ {n}
  <2>1. w \in Links /\ Deep(w) /\ Subtree(w, n) = S
    BY <1>3
  <2>2. a # b /\ w.parent[a] # Null /\ w.parent[a] = w.parent[b] /\ Subtree(w, a) \cap Subtree(w, b) = {}
    BY <1>5, <2>1, BesideApart
  <2>3. n \notin Subtree(w, a)
    <3> SUFFICES ASSUME n \in Subtree(w, a) PROVE FALSE
      OBVIOUS
    <3>1. S \subseteq Subtree(w, a)
      BY <2>1, SubtreeIsTransitive
    <3> QED BY <1>5, <2>2, <3>1
  <2>4. n \notin Subtree(w, b)
    <3> SUFFICES ASSUME n \in Subtree(w, b) PROVE FALSE
      OBVIOUS
    <3>1. S \subseteq Subtree(w, b)
      BY <2>1, SubtreeIsTransitive
    <3> QED BY <1>5, <2>2, <3>1
  <2>5. a \in S
    BY <1>5, <2>1, <2>3, OneIsAbove
  <2>6. b \in S
    BY <1>5, <2>1, <2>4, OneIsAbove
  <2> QED BY <2>1, <2>3, <2>4, <2>5, <2>6, SubtreeIsClosed
<1>6. \A a, b \in S \ {n} : Beside(u, rank, a, b) <=> Beside(v, later, a, b)
  BY <1>1, <1>2 DEF Beside
<1>7. ASSUME Precedes(u, rank, x, y) PROVE Precedes(v, later, x, y)
  <2>1. CASE y # x /\ y \in Subtree(u, x)
    BY <1>4, <2>1 DEF Precedes
  <2>2. ASSUME NEW a \in Nodes, NEW b \in Nodes, Beside(u, rank, a, b), x \in Subtree(u, a), y \in Subtree(u, b)
        PROVE  Precedes(v, later, x, y)
    <3>1. a \in S \ {n} /\ b \in S \ {n}
      BY <1>5, <2>2
    <3> QED BY <1>4, <1>6, <2>2, <3>1 DEF Precedes
  <2> QED BY <1>7, <2>1, <2>2 DEF Precedes
<1>8. ASSUME Precedes(v, later, x, y) PROVE Precedes(u, rank, x, y)
  <2>1. CASE y # x /\ y \in Subtree(v, x)
    BY <1>4, <2>1 DEF Precedes
  <2>2. ASSUME NEW a \in Nodes, NEW b \in Nodes, Beside(v, later, a, b), x \in Subtree(v, a), y \in Subtree(v, b)
        PROVE  Precedes(u, rank, x, y)
    <3>1. a \in S \ {n} /\ b \in S \ {n}
      BY <1>5, <2>2
    <3> QED BY <1>4, <1>6, <2>2, <3>1 DEF Precedes
  <2> QED BY <1>8, <2>1, <2>2 DEF Precedes
<1> QED BY <1>7, <1>8

----------------------------------------------------------------------------
\* What the ranks say of siblings: next leads from each to the nearest one.
LEMMA PreviousIsLower ==
    ASSUME NEW u \in Links, Linked(u, {}, {}), NEW rank \in [Nodes -> Nat], Rises(u, {}, rank),
           NEW a \in Nodes, u.parent[a] # Null
    PROVE  \/ u.prev[a] = Null /\ u.first_child[u.parent[a]] = a
           \/ /\ u.prev[a] \in Nodes /\ u.next[u.prev[a]] = a /\ u.parent[u.prev[a]] = u.parent[a]
              /\ rank[u.prev[a]] < rank[a] /\ u.prev[a] # a
<1>1. CASE u.prev[a] = Null
  BY <1>1 DEF Linked, EndsAgree
<1>2. CASE u.prev[a] # Null
  <2>1. u.prev[a] \in Nodes /\ u.next[u.prev[a]] = a /\ u.parent[u.prev[a]] = u.parent[a]
    BY <1>2 DEF Linked, SiblingsAgree, Links, Pointers
  <2>2. rank[u.prev[a]] < rank[a]
    BY <2>1, NodesAssumption DEF Rises
  <2>3. rank[a] \in Nat
    OBVIOUS
  <2>4. u.prev[a] # a
    BY <2>2, <2>3
  <2> QED BY <2>1, <2>2, <2>4
<1> QED BY <1>1, <1>2

LEMMA FirstIsLowest ==
    ASSUME NEW u \in Links, Linked(u, {}, {}), NEW rank \in [Nodes -> Nat], Rises(u, {}, rank),
           NEW p \in Nodes, NEW c \in Nodes, u.first_child[p] = c, NEW a \in Nodes, u.parent[a] = p, a # c
    PROVE  rank[c] < rank[a]
<1> DEFINE Bad == {k \in Nodes : u.parent[k] = p /\ k # c /\ ~ (rank[c] < rank[k])}
<1> SUFFICES ASSUME a \in Bad PROVE FALSE
  OBVIOUS
<1>1. PICK b \in Bad : \A k \in Bad : rank[b] <= rank[k]
  <2>1. Bad \in SUBSET Nodes /\ Bad # {}
    OBVIOUS
  <2> QED BY <2>1, LowestNode
<1>2. b \in Nodes /\ u.parent[b] = p /\ b # c /\ ~ (rank[c] < rank[b]) /\ p # Null
  BY NodesAssumption
<1> DEFINE d == u.prev[b]
<1>3. d \in Nodes /\ u.next[d] = b /\ u.parent[d] = p /\ rank[d] < rank[b]
  BY <1>2, PreviousIsLower
<1> HIDE DEF d
<1>4. rank[b] \in Nat /\ rank[c] \in Nat /\ rank[d] \in Nat
  BY <1>2, <1>3
<1>5. d # c /\ ~ (rank[c] < rank[d])
  <2>1. ~ (rank[c] < rank[d])
    BY <1>2, <1>3, <1>4
  <2> QED BY <1>2, <1>3, <2>1
<1>6. d \in Bad
  BY <1>3, <1>5
<1>7. rank[b] <= rank[d]
  BY <1>1, <1>6
<1> QED BY <1>3, <1>4, <1>7

LEMMA NextIsNearest ==
    ASSUME NEW u \in Links, Linked(u, {}, {}), NEW rank \in [Nodes -> Nat], Rises(u, {}, rank),
           NEW a0 \in Nodes, NEW b0 \in Nodes, a0 # b0, u.parent[a0] # Null, u.parent[a0] = u.parent[b0],
           rank[a0] <= rank[b0]
    PROVE  u.next[a0] # Null /\ (u.next[a0] = b0 \/ rank[u.next[a0]] < rank[b0])
<1> DEFINE p == u.parent[a0]
           Kid(k) == k \in Nodes /\ u.parent[k] = p
           Over(a, b) == /\ Kid(a) /\ a # b /\ rank[a] <= rank[b]
                         /\ u.next[a] = Null \/ (u.next[a] # b /\ ~ (rank[u.next[a]] < rank[b]))
           Bad == {b \in Nodes : Kid(b) /\ \E a \in Nodes : Over(a, b)}
<1>1. p \in Nodes /\ p # Null
  BY DEF Links, Pointers
<1>2. Bad = {} => u.next[a0] # Null /\ (u.next[a0] = b0 \/ rank[u.next[a0]] < rank[b0])
  <2> SUFFICES ASSUME ~ (u.next[a0] # Null /\ (u.next[a0] = b0 \/ rank[u.next[a0]] < rank[b0])) PROVE b0 \in Bad
    OBVIOUS
  <2>1. Kid(b0) /\ Kid(a0)
    OBVIOUS
  <2>2. Over(a0, b0)
    BY <2>1
  <2> QED BY <2>1, <2>2
<1> SUFFICES ASSUME Bad # {} PROVE FALSE
  BY <1>2
<1>3. PICK b \in Bad : \A k \in Bad : rank[b] <= rank[k]
  <2>1. Bad \in SUBSET Nodes
    OBVIOUS
  <2> QED BY <2>1, LowestNode
<1>4. PICK a \in Nodes : Over(a, b)
  OBVIOUS
<1>5. \A k \in Nodes : rank[k] \in Nat
  OBVIOUS
<1>6. Kid(b) /\ Kid(a) /\ a # b /\ rank[a] <= rank[b]
  BY <1>4
<1>6a. u.next[a] = Null \/ (u.next[a] # b /\ u.next[a] \in Nodes /\ ~ (rank[u.next[a]] < rank[b]))
  BY <1>4 DEF Links, Pointers
<1>7. ASSUME NEW k \in Nodes, rank[k] < rank[b] PROVE k \notin Bad
  <2>1. rank[k] \in Nat /\ rank[b] \in Nat
    BY <1>5
  <2>2. ~ (rank[b] <= rank[k])
    BY <1>7, <2>1
  <2> QED BY <1>3, <2>2
<1>8. \A k, m \in Nodes : Kid(m) /\ Over(k, m) => m \in Bad
  OBVIOUS
<1> DEFINE c == u.prev[b]
<1>9. c \in Nodes /\ u.next[c] = b /\ Kid(c) /\ rank[c] < rank[b]
  <2>1. u.first_child[p] # b
    <3> SUFFICES ASSUME u.first_child[p] = b PROVE FALSE
      OBVIOUS
    <3>1. rank[b] < rank[a]
      BY <1>1, <1>6, FirstIsLowest
    <3> QED BY <1>5, <1>6, <3>1
  <2> QED BY <1>1, <1>6, <2>1, PreviousIsLower
<1> HIDE DEF c
<1>10. c # a
  BY <1>6a, <1>9, NodesAssumption
<1>11. c \notin Bad
  BY <1>7, <1>9
<1>12. ~ (rank[a] <= rank[c])
  <2> SUFFICES ASSUME rank[a] <= rank[c] PROVE FALSE
    OBVIOUS
  <2>1. u.next[a] # Null => u.next[a] # c /\ ~ (rank[u.next[a]] < rank[c])
    <3> SUFFICES ASSUME u.next[a] # Null PROVE u.next[a] # c /\ ~ (rank[u.next[a]] < rank[c])
      OBVIOUS
    <3>1. ~ (rank[u.next[a]] < rank[b]) /\ rank[u.next[a]] \in Nat /\ rank[b] \in Nat /\ rank[c] \in Nat
      BY <1>5, <1>6a, <1>9
    <3>2. ~ (rank[u.next[a]] < rank[c])
      BY <1>9, <3>1
    <3>3. u.next[a] # c
      BY <1>9, <3>1
    <3> QED BY <3>2, <3>3
  <2>2. Over(a, c)
    BY <1>6, <1>10, <2>1
  <2> QED BY <1>8, <1>9, <1>11, <2>2
<1>13. Over(c, a)
  <2>1. rank[a] \in Nat /\ rank[b] \in Nat /\ rank[c] \in Nat
    BY <1>5, <1>9
  <2>2. rank[c] <= rank[a]
    BY <1>12, <2>1
  <2>3. ~ (rank[b] < rank[a])
    BY <1>6, <2>1
  <2> QED BY <1>6, <1>9, <1>10, <2>2, <2>3
<1>14. rank[a] = rank[b]
  <2>1. a \in Bad
    BY <1>6, <1>8, <1>9, <1>13
  <2>2. rank[b] <= rank[a] /\ rank[a] \in Nat /\ rank[b] \in Nat
    BY <1>3, <1>5, <2>1
  <2> QED BY <1>6, <2>2
<1> DEFINE d == u.prev[a]
<1>15. d \in Nodes /\ u.next[d] = a /\ Kid(d) /\ rank[d] < rank[a]
  <2>1. u.first_child[p] # a
    <3> SUFFICES ASSUME u.first_child[p] = a PROVE FALSE
      OBVIOUS
    <3>1. rank[a] < rank[b]
      BY <1>1, <1>6, FirstIsLowest
    <3> QED BY <1>5, <1>14, <3>1
  <2> QED BY <1>1, <1>6, <2>1, PreviousIsLower
<1> HIDE DEF d
<1>16. d # c
  BY <1>6, <1>9, <1>15
<1>17. d \notin Bad /\ rank[d] < rank[b]
  BY <1>7, <1>14, <1>15
<1>18. rank[c] \in Nat /\ rank[d] \in Nat /\ rank[a] \in Nat /\ rank[b] \in Nat
  BY <1>5, <1>9, <1>15
<1>19. CASE rank[d] <= rank[c]
  <2>1. a # c /\ ~ (rank[a] < rank[c])
    BY <1>9, <1>10, <1>14, <1>18
  <2>2. Over(d, c)
    BY <1>15, <1>16, <1>19, <2>1
  <2> QED BY <1>8, <1>9, <1>11, <2>2
<1>20. CASE rank[c] <= rank[d]
  <2>1. b # d /\ ~ (rank[b] < rank[d])
    BY <1>17, <1>18
  <2>2. Over(c, d)
    BY <1>9, <1>16, <1>20, <2>1
  <2> QED BY <1>8, <1>15, <1>17, <2>2
<1> QED BY <1>18, <1>19, <1>20

\* No two siblings have one rank.
LEMMA SiblingsDiffer ==
    ASSUME NEW u \in Links, Linked(u, {}, {}), NEW rank \in [Nodes -> Nat], Rises(u, {}, rank),
           NEW a \in Nodes, NEW b \in Nodes, a # b, u.parent[a] # Null, u.parent[a] = u.parent[b]
    PROVE  /\ rank[a] < rank[b] \/ rank[b] < rank[a]
           /\ u.next[a] = Null => rank[b] < rank[a]
           /\ u.next[a] # Null => rank[b] < rank[a] \/ b = u.next[a] \/ rank[u.next[a]] < rank[b]
<1>1. rank[a] \in Nat /\ rank[b] \in Nat
  OBVIOUS
<1>2. CASE rank[a] <= rank[b]
  <2>1. u.next[a] # Null /\ (u.next[a] = b \/ rank[u.next[a]] < rank[b])
    BY <1>2, NextIsNearest
  <2>2. u.next[a] \in Nodes
    BY <2>1 DEF Links, Pointers
  <2>3. rank[a] < rank[u.next[a]]
    BY <2>1 DEF Rises
  <2>4. rank[u.next[a]] \in Nat
    BY <2>2
  <2>5. rank[a] < rank[b]
    BY <1>1, <2>1, <2>3, <2>4
  <2> QED BY <2>1, <2>5
<1>3. CASE ~ (rank[a] <= rank[b])
  <2>1. rank[b] < rank[a]
    BY <1>1, <1>3
  <2> QED BY <2>1
<1> QED BY <1>2, <1>3

----------------------------------------------------------------------------
\* What is below p, other than p, is below one of its children.
LEMMA ChildBetween ==
    ASSUME NEW u \in Links, NEW p \in Nodes, NEW y \in Subtree(u, p), y # p
    PROVE  \E a \in Nodes : u.parent[a] = p /\ y \in Subtree(u, a)
<1> DEFINE S == {k \in Nodes : k = p \/ \E a \in Nodes : u.parent[a] = p /\ k \in Subtree(u, a)}
<1>1. Closed(u, S)
  <2> SUFFICES ASSUME NEW k \in Nodes, u.parent[k] \in S PROVE k \in S
    BY DEF Closed
  <2>1. CASE u.parent[k] = p
    BY <2>1, SubtreeIsClosed
  <2>2. ASSUME NEW a \in Nodes, u.parent[a] = p, u.parent[k] \in Subtree(u, a) PROVE k \in S
    BY <2>2, SubtreeIsClosed DEF Closed
  <2> QED BY <2>1, <2>2
<1>2. Subtree(u, p) \subseteq S
  BY <1>1, SubtreeIsLeast
<1> QED BY <1>2

LEMMA SubtreeShrinks ==
    ASSUME NEW u \in Links, Deep(u), NEW m \in Nodes, NEW p \in Nodes, u.parent[m] = p
    PROVE  /\ Cardinality(Subtree(u, m)) \in Nat /\ Cardinality(Subtree(u, p)) \in Nat
           /\ Cardinality(Subtree(u, m)) < Cardinality(Subtree(u, p))
<1> DEFINE S == Subtree(u, m)
           T == Subtree(u, p)
<1>1. m \in T
  BY SubtreeIsClosed DEF Closed
<1>2. S \subseteq T /\ p \in T /\ T \subseteq Nodes
  BY <1>1, SubtreeIsTransitive, SubtreeIsClosed
<1>3. p \notin S
  BY NotBelowItself
<1>4. IsFiniteSet(T)
  BY <1>2, NodesAssumption, FS_Subset
<1> HIDE DEF S, T
<1>5. IsFiniteSet(S) /\ Cardinality(S) <= Cardinality(T) /\ (Cardinality(S) = Cardinality(T) => S = T)
  BY <1>2, <1>4, FS_Subset
<1>6. Cardinality(S) \in Nat /\ Cardinality(T) \in Nat
  BY <1>4, <1>5, FS_CardinalityType
<1>7. Cardinality(S) # Cardinality(T)
  BY <1>2, <1>3, <1>5
<1> QED BY <1>5, <1>6, <1>7 DEF S, T

LEMMA SubtreeSize ==
    ASSUME NEW u \in Links, NEW m \in Nodes
    PROVE  /\ Cardinality(Subtree(u, m)) \in Nat /\ Cardinality(Subtree(u, m)) <= Size
           /\ Cardinality(Subtree(u, m)) > 0
<1> DEFINE S == Subtree(u, m)
<1>1. S \subseteq Nodes /\ m \in S
  BY SubtreeIsClosed
<1> HIDE DEF S
<1>2. IsFiniteSet(S) /\ Cardinality(S) <= Cardinality(Nodes)
  BY <1>1, NodesAssumption, FS_Subset
<1>3. Cardinality(S) \in Nat
  BY <1>2, FS_CardinalityType
<1>4. Cardinality(S) # 0
  BY <1>1, <1>2, FS_EmptySet
<1>5. Cardinality(S) > 0
  BY <1>3, <1>4
<1> QED BY <1>2, <1>3, <1>5 DEF S, Size

----------------------------------------------------------------------------
\* What a walk in document order has come by when it is done with m and all that is below.
Passed(u, rank, m, y) == Precedes(u, rank, y, m) \/ y \in Subtree(u, m)

\* Down: what comes before the first child of n.
LEMMA FirstComesNext ==
    ASSUME NEW u \in Links, Linked(u, {}, {}), Deep(u), NEW rank \in [Nodes -> Nat], Rises(u, {}, rank),
           NEW n \in Nodes, u.first_child[n] # Null, NEW y \in Nodes
    PROVE  Precedes(u, rank, y, u.first_child[n]) <=> Precedes(u, rank, y, n) \/ y = n
<1> DEFINE c == u.first_child[n]
<1>1. c \in Nodes /\ u.parent[c] = n
  BY DEF Linked, ParentsAgree, Links, Pointers
<1> HIDE DEF c
<1>2. c # n /\ n \notin Subtree(u, c)
  BY <1>1, NotBelowItself, SubtreeIsClosed
<1>3. \A r \in Nodes : n \in Subtree(u, r) => c \in Subtree(u, r)
  BY <1>1, SubtreeIsClosed DEF Closed
<1>4. \A r \in Nodes : c \in Subtree(u, r) /\ r # c => n \in Subtree(u, r)
  BY <1>1, SubtreeUp
<1>5. ASSUME NEW a \in Nodes PROVE ~ Beside(u, rank, a, c)
  <2> SUFFICES ASSUME Beside(u, rank, a, c) PROVE FALSE
    OBVIOUS
  <2>1. a # c /\ u.parent[a] = n
    BY <1>1, BesideApart
  <2>2. rank[c] < rank[a]
    BY <1>1, <2>1, FirstIsLowest DEF c
  <2>3. rank[a] < rank[c] /\ rank[a] \in Nat /\ rank[c] \in Nat
    BY <1>1 DEF Beside
  <2> QED BY <2>2, <2>3
<1>6. ASSUME Precedes(u, rank, y, c) PROVE Precedes(u, rank, y, n) \/ y = n
  BY <1>4, <1>5, <1>6 DEF Precedes
<1>7. ASSUME Precedes(u, rank, y, n) \/ y = n PROVE Precedes(u, rank, y, c)
  <2>1. CASE n \in Subtree(u, y)
    BY <1>2, <1>3, <2>1 DEF Precedes
  <2>2. n \in Subtree(u, n)
    BY SubtreeIsClosed
  <2> QED BY <1>3, <1>7, <2>1, <2>2 DEF Precedes
<1> QED BY <1>6, <1>7 DEF c

\* Up: to be done with the last child is to be done with its parent.
LEMMA LastComesLast ==
    ASSUME NEW u \in Links, Linked(u, {}, {}), Deep(u), NEW rank \in [Nodes -> Nat], Rises(u, {}, rank),
           NEW m \in Nodes, NEW p \in Nodes, u.parent[m] = p, u.next[m] = Null, NEW y \in Nodes
    PROVE  Passed(u, rank, m, y) <=> Passed(u, rank, p, y)
<1>1. m # p /\ p \notin Subtree(u, m) /\ p \in Subtree(u, p) /\ m \in Subtree(u, m) /\ p # Null
  BY NotBelowItself, SubtreeIsClosed, NodesAssumption
<1>2. \A r \in Nodes : p \in Subtree(u, r) => m \in Subtree(u, r)
  BY SubtreeIsClosed DEF Closed
<1>3. \A r \in Nodes : m \in Subtree(u, r) /\ r # m => p \in Subtree(u, r)
  BY SubtreeUp
<1>4. \A a \in Nodes : u.parent[a] = p => Subtree(u, a) \subseteq Subtree(u, p)
  <2> TAKE a \in Nodes
  <2> HAVE u.parent[a] = p
  <2>1. a \in Subtree(u, p)
    BY <1>1, SubtreeIsClosed DEF Closed
  <2> QED BY <2>1, SubtreeIsTransitive
<1>5. ASSUME Passed(u, rank, m, y) PROVE Passed(u, rank, p, y)
  <2>1. CASE y \in Subtree(u, m)
    BY <1>4, <2>1 DEF Passed
  <2>2. CASE m # y /\ m \in Subtree(u, y)
    BY <1>1, <1>3, <2>2 DEF Passed, Precedes
  <2>3. ASSUME NEW a \in Nodes, NEW b \in Nodes, Beside(u, rank, a, b), y \in Subtree(u, a), m \in Subtree(u, b)
        PROVE  Passed(u, rank, p, y)
    <3>1. CASE b = m
      BY <1>4, <2>3, <3>1 DEF Passed, Beside
    <3>2. CASE b # m
      BY <1>3, <2>3, <3>2 DEF Passed, Precedes
    <3> QED BY <3>1, <3>2
  <2> QED BY <1>5, <2>1, <2>2, <2>3 DEF Passed, Precedes
<1>6. ASSUME Passed(u, rank, p, y) PROVE Passed(u, rank, m, y)
  <2>1. CASE p # y /\ p \in Subtree(u, y)
    BY <1>1, <1>2, <2>1 DEF Passed, Precedes
  <2>2. ASSUME NEW a \in Nodes, NEW b \in Nodes, Beside(u, rank, a, b), y \in Subtree(u, a), p \in Subtree(u, b)
        PROVE  Passed(u, rank, m, y)
    BY <1>2, <2>2 DEF Passed, Precedes
  <2>3. CASE y = p
    BY <1>1, <1>2, <2>3 DEF Passed, Precedes
  <2>4. CASE y # p /\ y \in Subtree(u, p)
    <3>1. PICK a \in Nodes : u.parent[a] = p /\ y \in Subtree(u, a)
      BY <2>4, ChildBetween
    <3>2. CASE a = m
      BY <3>1, <3>2 DEF Passed
    <3>3. CASE a # m
      <4>1. rank[a] < rank[m]
        BY <1>1, <3>1, <3>3, SiblingsDiffer
      <4>2. Beside(u, rank, a, m)
        BY <1>1, <3>1, <4>1 DEF Beside
      <4> QED BY <1>1, <3>1, <4>2 DEF Passed, Precedes
    <3> QED BY <3>2, <3>3
  <2> QED BY <1>6, <2>1, <2>2, <2>3, <2>4 DEF Passed, Precedes
<1> QED BY <1>5, <1>6

\* On: what comes before the next sibling of m.
LEMMA SiblingComesNext ==
    ASSUME NEW u \in Links, Linked(u, {}, {}), Deep(u), NEW rank \in [Nodes -> Nat], Rises(u, {}, rank),
           NEW m \in Nodes, NEW x \in Nodes, u.next[m] = x, NEW y \in Nodes
    PROVE  Passed(u, rank, m, y) <=> Precedes(u, rank, y, x)
<1> DEFINE p == u.parent[m]
<1>1. x # Null /\ u.parent[x] = p /\ p # Null /\ p \in Nodes
  BY NodesAssumption DEF Linked, SiblingsAgree, Links, Pointers
<1>2. rank[m] < rank[x] /\ Beside(u, rank, m, x)
  BY <1>1 DEF Rises, Beside
<1> HIDE DEF p
<1>3. m \in Subtree(u, m) /\ x \in Subtree(u, x) /\ Subtree(u, m) \cap Subtree(u, x) = {} /\ m # x
  BY <1>2, BesideApart, SubtreeIsClosed
<1>4. \A r \in Nodes : m \in Subtree(u, r) /\ r # m => x \in Subtree(u, r) /\ r # x
  <2> TAKE r \in Nodes
  <2> HAVE m \in Subtree(u, r) /\ r # m
  <2>1. p \in Subtree(u, r)
    BY SubtreeUp DEF p
  <2>2. x \in Subtree(u, r)
    BY <1>1, <2>1, SubtreeIsClosed DEF Closed
  <2> QED BY <1>3, <2>2
<1>5. \A r \in Nodes : x \in Subtree(u, r) /\ r # x => m \in Subtree(u, r) /\ r # m
  <2> TAKE r \in Nodes
  <2> HAVE x \in Subtree(u, r) /\ r # x
  <2>1. p \in Subtree(u, r)
    BY <1>1, SubtreeUp
  <2>2. m \in Subtree(u, r)
    BY <1>1, <2>1, SubtreeIsClosed DEF Closed, p
  <2> QED BY <1>3, <2>2
<1>6. ASSUME Passed(u, rank, m, y) PROVE Precedes(u, rank, y, x)
  <2>1. CASE y \in Subtree(u, m)
    BY <1>2, <1>3, <2>1 DEF Precedes
  <2>2. CASE m # y /\ m \in Subtree(u, y)
    BY <1>4, <2>2 DEF Precedes
  <2>3. ASSUME NEW a \in Nodes, NEW b \in Nodes, Beside(u, rank, a, b), y \in Subtree(u, a), m \in Subtree(u, b)
        PROVE  Precedes(u, rank, y, x)
    <3>1. CASE b = m
      <4>1. rank[a] < rank[m] /\ u.parent[a] = p
        BY <2>3, <3>1 DEF Beside, p
      <4>2. rank[a] \in Nat /\ rank[m] \in Nat /\ rank[x] \in Nat
        OBVIOUS
      <4>3. rank[a] < rank[x]
        BY <1>2, <4>1, <4>2
      <4>4. Beside(u, rank, a, x)
        BY <1>1, <4>1, <4>3 DEF Beside
      <4> QED BY <1>3, <2>3, <4>4 DEF Precedes
    <3>2. CASE b # m
      BY <1>4, <2>3, <3>2 DEF Precedes
    <3> QED BY <3>1, <3>2
  <2> QED BY <1>6, <2>1, <2>2, <2>3 DEF Passed, Precedes
<1>7. ASSUME Precedes(u, rank, y, x) PROVE Passed(u, rank, m, y)
  <2>1. CASE x # y /\ x \in Subtree(u, y)
    BY <1>5, <2>1 DEF Passed, Precedes
  <2>2. ASSUME NEW a \in Nodes, NEW b \in Nodes, Beside(u, rank, a, b), y \in Subtree(u, a), x \in Subtree(u, b)
        PROVE  Passed(u, rank, m, y)
    <3>1. CASE b = x
      <4>1. rank[a] < rank[x] /\ u.parent[a] = p
        BY <1>1, <2>2, <3>1 DEF Beside
      <4>2. CASE a = m
        BY <2>2, <4>2 DEF Passed
      <4>3. CASE a # m
        <5>1. a # x /\ ~ (rank[x] < rank[a])
          <6>1. rank[a] \in Nat /\ rank[x] \in Nat
            OBVIOUS
          <6> QED BY <4>1, <6>1
        <5>2. rank[a] < rank[m]
          BY <1>1, <4>1, <4>3, <5>1, SiblingsDiffer DEF p
        <5>3. Beside(u, rank, a, m)
          BY <1>1, <4>1, <5>2 DEF Beside, p
        <5> QED BY <1>3, <2>2, <5>3 DEF Passed, Precedes
      <4> QED BY <4>2, <4>3
    <3>2. CASE b # x
      BY <1>5, <2>2, <3>2 DEF Passed, Precedes
    <3> QED BY <3>1, <3>2
  <2> QED BY <1>7, <2>1, <2>2 DEF Passed, Precedes
<1> QED BY <1>6, <1>7

\* Advance leads to the node that comes next, and to the end after the last one below root.
LEMMA AdvanceIsNext ==
    ASSUME NEW u \in Links, Linked(u, {}, {}), Deep(u), NEW rank \in [Nodes -> Nat], Rises(u, {}, rank),
           NEW root \in Nodes, NEW n \in Subtree(u, root), NEW y \in Subtree(u, root)
    PROVE  /\ Advance(u, root, n) = Null => Precedes(u, rank, y, n) \/ y = n
           /\ Advance(u, root, n) # Null =>
                 (Precedes(u, rank, y, Advance(u, root, n)) <=> Precedes(u, rank, y, n) \/ y = n)
<1> DEFINE on == CHOOSE on : OnEqn(u, root, on)
           Below == Subtree(u, root)
           Weight(m) == Cardinality(Subtree(u, m))
           Comes(m, x) == /\ x = Null => Passed(u, rank, m, y)
                          /\ x # Null => (Precedes(u, rank, y, x) <=> Passed(u, rank, m, y))
           Good(k) == \A m \in Below : Weight(root) < Weight(m) + k => Comes(m, on[k][m])
           Bad == {k \in 0..Size : ~ Good(k)}
<1>1. OnEqn(u, root, on)
  BY OnExists
<1>2. Below \subseteq Nodes /\ Closed(u, Below) /\ \A m \in Below : m # root => u.parent[m] \in Below
  BY SubtreeIsClosed, SubtreeUp
<1>2a. y \in Nodes /\ n \in Nodes /\ y \in Below /\ n \in Below
  BY <1>2
<1> HIDE DEF on
<1>3. \A k \in 0..Size : on[k] = [m \in Nodes \cup {Null} |->
         IF m = root \/ m = Null \/ k = 0 THEN Null
         ELSE IF u.next[m] # Null THEN u.next[m] ELSE on[k - 1][u.parent[m]]]
  BY <1>1 DEF OnEqn
<1> HIDE DEF Below
<1>4. ASSUME NEW k \in 0..Size, k = 0 \/ Good(k - 1), NEW m \in Below, Weight(root) < Weight(m) + k
      PROVE  Comes(m, on[k][m])
  <2>0. m \in Nodes /\ m # Null
    BY <1>2, NodesAssumption
  <2>1. on[k][m] = IF m = root \/ m = Null \/ k = 0 THEN Null
                   ELSE IF u.next[m] # Null THEN u.next[m] ELSE on[k - 1][u.parent[m]]
    <3>1. m \in Nodes \cup {Null}
      BY <1>2
    <3>2. on[k] = [i \in Nodes \cup {Null} |->
             IF i = root \/ i = Null \/ k = 0 THEN Null
             ELSE IF u.next[i] # Null THEN u.next[i] ELSE on[k - 1][u.parent[i]]]
      BY <1>3
    <3> QED BY <3>1, <3>2
  <2>2. k # 0
    <3> SUFFICES ASSUME k = 0 PROVE FALSE
      OBVIOUS
    <3>1. Subtree(u, m) \subseteq Subtree(u, root)
      BY SubtreeIsTransitive DEF Below
    <3>2. IsFiniteSet(Subtree(u, root))
      BY <1>2, NodesAssumption, FS_Subset DEF Below
    <3>3. Weight(m) <= Weight(root)
      BY <3>1, <3>2, FS_Subset
    <3>4. Weight(m) \in Nat /\ Weight(root) \in Nat
      BY <2>0, SubtreeSize
    <3> HIDE DEF Weight
    <3> QED BY <1>4, <3>3, <3>4
  <2>3. CASE m = root
    <3>1. on[k][m] = Null
      BY <2>1, <2>3
    <3>2. Passed(u, rank, m, y)
      BY <2>3, <1>2a DEF Passed, Below
    <3> QED BY <3>1, <3>2
  <2>4. CASE m # root /\ u.next[m] # Null
    <3>1. on[k][m] = u.next[m] /\ u.next[m] \in Nodes
      BY <2>0, <2>1, <2>2, <2>4 DEF Links, Pointers
    <3> QED BY <1>2a, <2>0, <2>4, <3>1, SiblingComesNext
  <2>5. CASE m # root /\ u.next[m] = Null
    <3> DEFINE p == u.parent[m]
    <3>1. p \in Below /\ p \in Nodes
      BY <1>2, <2>5
    <3>2. on[k][m] = on[k - 1][p]
      BY <2>0, <2>1, <2>2, <2>5
    <3>3. Weight(m) \in Nat /\ Weight(p) \in Nat /\ Weight(m) < Weight(p) /\ Weight(root) \in Nat
      BY <2>0, <3>1, SubtreeShrinks, SubtreeSize
    <3>4. Weight(root) < Weight(p) + (k - 1)
      <4> HIDE DEF Weight, p
      <4>1. k \in Nat
        BY SizeType
      <4> QED BY <1>4, <3>3, <4>1
    <3>5. Comes(p, on[k - 1][p])
      BY <1>4, <2>2, <3>1, <3>4
    <3>6. Passed(u, rank, m, y) <=> Passed(u, rank, p, y)
      BY <1>2a, <2>0, <2>5, <3>1, LastComesLast
    <3> HIDE DEF p
    <3> QED BY <3>2, <3>5, <3>6
  <2> QED BY <2>3, <2>4, <2>5
<1> HIDE DEF Comes, Weight
<1>5. Bad = {}
  <2> SUFFICES ASSUME Bad # {} PROVE FALSE
    OBVIOUS
  <2>1. Bad \in SUBSET Nat
    BY SizeType
  <2>2. PICK k \in Bad : \A j \in Bad : k <= j
    BY <2>1, LeastNumber
  <2>3. k \in 0..Size /\ k \in Nat
    BY SizeType
  <2>4. k = 0 \/ (k - 1 \in 0..Size /\ ~ (k <= k - 1))
    BY <2>3, SizeType
  <2>5. k = 0 \/ Good(k - 1)
    BY <2>2, <2>4
  <2>6. Good(k)
    BY <1>4, <2>3, <2>5
  <2> QED BY <2>2, <2>6
<1>6. CASE u.first_child[n] # Null
  <2>1. Advance(u, root, n) = u.first_child[n]
    BY <1>6, AdvanceOn
  <2> QED BY <1>2a, <1>6, <2>1, FirstComesNext
<1>7. CASE u.first_child[n] = Null
  <2>1. Advance(u, root, n) = on[Size][n]
    BY <1>7, AdvanceOn DEF on
  <2>2. Weight(root) < Weight(n) + Size
    <3>1. Weight(root) \in Nat /\ Weight(n) \in Nat /\ Weight(root) <= Size /\ Weight(n) > 0
      BY <1>2a, SubtreeSize DEF Weight
    <3> QED BY <3>1, SizeType
  <2>3. Comes(n, on[Size][n])
    <3>1. Good(Size)
      BY <1>5, SizeType
    <3> QED BY <1>2a, <2>2, <3>1
  <2>4. y \in Subtree(u, n) <=> y = n
    <3>1. \A k \in Nodes : u.parent[k] # n
      BY <1>2a, <1>7, HasFirst DEF Rising
    <3>2. y \in Subtree(u, n) => y = n
      BY <1>2a, <3>1, ChildBetween
    <3> QED BY <1>2a, <3>2, SubtreeIsClosed
  <2> QED BY <2>1, <2>3, <2>4 DEF Comes, Passed
<1> QED BY <1>6, <1>7

----------------------------------------------------------------------------
\* Sequences in which what comes first is related by R to what comes later.
Ordered(R, s) == \A i, j \in 1..Len(s) : i < j => <<s[i], s[j]>> \in R

LEMMA ConcatIsOrdered ==
    ASSUME NEW S, NEW R, NEW s \in Seq(S), NEW r \in Seq(S), Ordered(R, s), Ordered(R, r),
           \A x \in ToSet(s), y \in ToSet(r) : <<x, y>> \in R
    PROVE  s \o r \in Seq(S) /\ ToSet(s \o r) = ToSet(s) \cup ToSet(r) /\ Ordered(R, s \o r)
<1> DEFINE w == s \o r
           n == Len(s)
           l == Len(r)
<1>1. n \in Nat /\ l \in Nat /\ w \in Seq(S) /\ Len(w) = n + l
  OBVIOUS
<1>2. \A i \in 1..n : w[i] = s[i] /\ s[i] \in ToSet(s)
  BY DEF ToSet
<1>3. \A i \in 1..l : w[n + i] = r[i] /\ r[i] \in ToSet(r)
  BY DEF ToSet
<1>4. ToSet(s) = {s[i] : i \in 1..n} /\ ToSet(r) = {r[i] : i \in 1..l} /\ ToSet(w) = {w[i] : i \in 1..(n + l)}
  BY <1>1 DEF ToSet
<1>5. \A i, j \in 1..n : i < j => <<s[i], s[j]>> \in R
  BY DEF Ordered
<1>6. \A i, j \in 1..l : i < j => <<r[i], r[j]>> \in R
  BY DEF Ordered
<1> HIDE DEF w, n, l
<1>7. \A i \in 1..(n + l) : i \in 1..n \/ (i - n \in 1..l /\ n + (i - n) = i)
  BY <1>1
<1>8. ToSet(w) = ToSet(s) \cup ToSet(r)
  <2>1. \A i \in 1..n : i \in 1..(n + l)
    BY <1>1
  <2>2. \A i \in 1..l : n + i \in 1..(n + l)
    BY <1>1
  <2>3. \A x \in ToSet(w) : x \in ToSet(s) \cup ToSet(r)
    <3> TAKE x \in ToSet(w)
    <3>1. PICK i \in 1..(n + l) : w[i] = x
      BY <1>4
    <3>2. CASE i \in 1..n
      BY <1>2, <3>1, <3>2
    <3>3. CASE i - n \in 1..l /\ n + (i - n) = i
      BY <1>3, <3>1, <3>3
    <3> QED BY <1>7, <3>2, <3>3
  <2> QED BY <1>2, <1>3, <1>4, <2>1, <2>2, <2>3
<1>9. ASSUME NEW i \in 1..(n + l), NEW j \in 1..(n + l), i < j PROVE <<w[i], w[j]>> \in R
  <2>1. CASE i \in 1..n /\ j \in 1..n
    BY <1>2, <1>5, <1>9, <2>1
  <2>2. CASE i \in 1..n /\ j - n \in 1..l /\ n + (j - n) = j
    BY <1>2, <1>3, <2>2
  <2>3. CASE i - n \in 1..l /\ n + (i - n) = i /\ j - n \in 1..l /\ n + (j - n) = j
    <3>1. i - n < j - n
      BY <1>1, <1>9
    <3>2. w[i] = r[i - n] /\ w[j] = r[j - n]
      BY <1>3, <2>3
    <3> QED BY <1>6, <2>3, <3>1, <3>2
  <2>4. ~ (j \in 1..n) \/ i \in 1..n
    BY <1>1, <1>9
  <2> QED BY <1>7, <2>1, <2>2, <2>3, <2>4
<1>10. Ordered(R, w)
  BY <1>1, <1>9 DEF Ordered
<1> QED BY <1>1, <1>8, <1>10 DEF w

FlattenEqn(seqs, f) == f = [i \in 1..Len(seqs) |-> IF i = 1 THEN seqs[i] ELSE f[i - 1] \o seqs[i]]

LEMMA FlattenIs ==
    ASSUME NEW seqs
    PROVE  FlattenSeq(seqs) = IF Len(seqs) = 0 THEN seqs ELSE (CHOOSE f : FlattenEqn(seqs, f))[Len(seqs)]
BY DEF FlattenSeq, FlattenEqn

LEMMA FlattenExists ==
    ASSUME NEW S, NEW seqs \in Seq(S)
    PROVE  \E f : FlattenEqn(seqs, f)
<1> DEFINE Upto(j, f) == f = [i \in 1..j |-> IF i = 1 THEN seqs[i] ELSE f[i - 1] \o seqs[i]]
           Missing == {j \in Nat : ~ \E f : Upto(j, f)}
<1>1. \E f : Upto(0, f)
  <2> DEFINE f == [i \in 1..0 |-> <<>>]
  <2>1. Upto(0, f)
    OBVIOUS
  <2> QED BY <2>1
<1>2. ASSUME NEW j \in Nat, NEW f, Upto(j, f) PROVE \E g : Upto(j + 1, g)
  <2> DEFINE g == [i \in 1..(j + 1) |-> IF i = 1 THEN seqs[i] ELSE f[i - 1] \o seqs[i]]
             h == [i \in 1..(j + 1) |-> IF i = 1 THEN seqs[i] ELSE g[i - 1] \o seqs[i]]
  <2>1. ASSUME NEW i \in 1..j PROVE g[i] = f[i]
    <3>1. i \in 1..(j + 1)
      OBVIOUS
    <3>2. f[i] = IF i = 1 THEN seqs[i] ELSE f[i - 1] \o seqs[i]
      BY <1>2
    <3> QED BY <3>1, <3>2
  <2>2. ASSUME NEW i \in 1..(j + 1), i # 1 PROVE f[i - 1] = g[i - 1]
    <3>1. i - 1 \in 1..j
      BY <2>2
    <3> QED BY <2>1, <3>1
  <2>3. \A i \in 1..(j + 1) : g[i] = h[i]
    BY <2>2
  <2>4. g = h
    BY <2>3
  <2> QED BY <2>4
<1> HIDE DEF Upto
<1>3. Missing = {}
  <2> SUFFICES ASSUME Missing # {} PROVE FALSE
    OBVIOUS
  <2>1. Missing \in SUBSET Nat
    OBVIOUS
  <2>2. PICK j \in Missing : \A i \in Missing : j <= i
    BY <2>1, LeastNumber
  <2>3. j \in Nat /\ j # 0
    BY <1>1
  <2>4. j - 1 \in Nat /\ j - 1 \notin Missing
    <3> HIDE DEF Missing
    <3>1. j - 1 \in Nat /\ ~ (j <= j - 1)
      BY <2>3
    <3> QED BY <2>2, <3>1
  <2>5. PICK f : Upto(j - 1, f)
    BY <2>4
  <2>6. \E g : Upto((j - 1) + 1, g)
    BY <1>2, <2>4, <2>5
  <2>7. (j - 1) + 1 = j
    BY <2>3
  <2> QED BY <2>6, <2>7
<1>4. \E f : Upto(Len(seqs), f)
  <2>1. Len(seqs) \in Nat
    OBVIOUS
  <2> QED BY <1>3, <2>1
<1> QED BY <1>4 DEF FlattenEqn, Upto

\* The concatenation of ordered sequences, themselves in order, is ordered.
LEMMA FlattenIsOrdered ==
    ASSUME NEW S, NEW R, NEW seqs \in Seq(Seq(S)), \A i \in 1..Len(seqs) : Ordered(R, seqs[i]),
           \A i, j \in 1..Len(seqs) : i < j => \A x \in ToSet(seqs[i]), y \in ToSet(seqs[j]) : <<x, y>> \in R
    PROVE  /\ FlattenSeq(seqs) \in Seq(S) /\ Ordered(R, FlattenSeq(seqs))
           /\ ToSet(FlattenSeq(seqs)) = UNION {ToSet(seqs[i]) : i \in 1..Len(seqs)}
<1> DEFINE n == Len(seqs)
           f == CHOOSE f : FlattenEqn(seqs, f)
           Gathered(i) == UNION {ToSet(seqs[j]) : j \in 1..i}
           Good(i) == f[i] \in Seq(S) /\ Ordered(R, f[i]) /\ ToSet(f[i]) = Gathered(i)
           Bad == {i \in 1..n : ~ Good(i)}
<1>1. FlattenEqn(seqs, f)
  BY FlattenExists
<1> HIDE DEF f
<1>2. n \in Nat /\ \A i \in 1..n : seqs[i] \in Seq(S)
  OBVIOUS
<1>3. \A i \in 1..n : f[i] = IF i = 1 THEN seqs[i] ELSE f[i - 1] \o seqs[i]
  BY <1>1 DEF FlattenEqn
<1>4. Bad = {}
  <2> SUFFICES ASSUME Bad # {} PROVE FALSE
    OBVIOUS
  <2>1. Bad \in SUBSET Nat
    OBVIOUS
  <2>2. PICK i \in Bad : \A j \in Bad : i <= j
    BY <2>1, LeastNumber
  <2>3. i \in 1..n /\ ~ Good(i)
    OBVIOUS
  <2>4. CASE i = 1
    <3>1. f[i] = seqs[i] /\ seqs[i] \in Seq(S) /\ Ordered(R, seqs[i])
      BY <1>2, <1>3, <2>3, <2>4
    <3>2. Gathered(i) = ToSet(seqs[i])
      BY <2>4
    <3> QED BY <2>3, <3>1, <3>2
  <2>5. CASE i # 1
    <3>1. i - 1 \in 1..n /\ ~ (i <= i - 1) /\ i \in Nat
      BY <1>2, <2>3, <2>5
    <3>2. Good(i - 1)
      <4> HIDE DEF Good
      <4> QED BY <2>2, <3>1
    <3>3. f[i] = f[i - 1] \o seqs[i] /\ seqs[i] \in Seq(S) /\ Ordered(R, seqs[i])
      BY <1>2, <1>3, <2>3, <2>5
    <3>4. \A x \in Gathered(i - 1), y \in ToSet(seqs[i]) : <<x, y>> \in R
      <4>1. \A j \in 1..(i - 1) : j \in 1..n /\ j < i
        BY <2>3, <1>2, <3>1
      <4> QED BY <2>3, <4>1
    <3>5. Gathered(i) = Gathered(i - 1) \cup ToSet(seqs[i])
      <4>1. 1..i = (1..(i - 1)) \cup {i}
        BY <2>3, <3>1
      <4> QED BY <4>1
    <3>6. \A x \in ToSet(f[i - 1]), y \in ToSet(seqs[i]) : <<x, y>> \in R
      BY <3>2, <3>4
    <3>7. f[i - 1] \in Seq(S) /\ Ordered(R, f[i - 1])
      BY <3>2
    <3>8. f[i] \in Seq(S) /\ ToSet(f[i]) = ToSet(f[i - 1]) \cup ToSet(seqs[i]) /\ Ordered(R, f[i])
      <4>1. LET w == f[i - 1] \o seqs[i]
            IN  w \in Seq(S) /\ ToSet(w) = ToSet(f[i - 1]) \cup ToSet(seqs[i]) /\ Ordered(R, w)
        BY <3>3, <3>6, <3>7, ConcatIsOrdered
      <4> QED BY <3>3, <4>1
    <3> QED BY <2>3, <3>2, <3>5, <3>8
  <2> QED BY <2>4, <2>5
<1>5. CASE n = 0
  <2>1. FlattenSeq(seqs) = seqs /\ seqs = <<>>
    BY <1>5, FlattenIs
  <2>2. <<>> \in Seq(S) /\ Len(<<>>) = 0
    OBVIOUS
  <2>3. ToSet(<<>>) = {} /\ Ordered(R, <<>>)
    BY <2>2 DEF ToSet, Ordered
  <2>4. Gathered(n) = {}
    BY <1>5
  <2> QED BY <2>1, <2>2, <2>3, <2>4
<1>6. CASE n # 0
  <2>1. n \in 1..n
    BY <1>2, <1>6
  <2>2. FlattenSeq(seqs) = f[n]
    BY <1>6, FlattenIs DEF f
  <2>3. Good(n)
    BY <1>4, <2>1
  <2> QED BY <2>2, <2>3
<1> QED BY <1>5, <1>6

----------------------------------------------------------------------------
\* Kids lists siblings by rank.
LEMMA KidsRise ==
    ASSUME NEW u \in Links, Linked(u, {}, {}), NEW rank \in [Nodes -> Nat], Rises(u, {}, rank), NEW p \in Nodes,
           NEW i \in 1..Len(Kids(u, p)), NEW j \in 1..Len(Kids(u, p)), i < j
    PROVE  rank[Kids(u, p)[i]] < rank[Kids(u, p)[j]]
<1> DEFINE along == CHOOSE along : AlongEqn(u, along)
           first == u.first_child[p]
           s == along[Size][first]
<1>1. Kids(u, p) = s
  BY KidsAlong
<1>2. AlongEqn(u, along)
  BY AlongExists
<1> HIDE DEF along
<1>3. first \in Nodes \cup {Null} /\ Size \in 0..Size
  BY SizeType DEF Links, Pointers
<1>4. Chain(u, rank, s, first, Size)
  <2>1. {} \in SUBSET Nodes /\ first \in (Nodes \ {}) \cup {Null}
    BY <1>3
  <2> QED BY <1>2, <1>3, <2>1, AlongIsChain
<1> HIDE DEF s
<1> QED BY <1>1, <1>4 DEF Chain

InOrder(u, rank) == {p \in Nodes \X Nodes : Precedes(u, rank, p[1], p[2])}

\* What is listed in document order: m and what is below, each before what it precedes.
ListsAll(u, rank, s, m) == s \in Seq(Nodes) /\ Ordered(InOrder(u, rank), s) /\ ToSet(s) = Subtree(u, m)

WalkEqn(u, walk) ==
    walk = [k \in 0..Size |-> [m \in Nodes |->
               IF k = 0 THEN <<>>
               ELSE <<m>> \o FlattenSeq([i \in DOMAIN Kids(u, m) |-> walk[k - 1][Kids(u, m)[i]]])]]

LEMMA OrderWalk ==
    ASSUME NEW u, NEW n
    PROVE  DocumentOrder(u, n) = (CHOOSE walk : WalkEqn(u, walk))[Size][n]
BY DEF DocumentOrder, WalkEqn, Size

LEMMA WalkExists ==
    ASSUME NEW u
    PROVE  \E walk : WalkEqn(u, walk)
<1> DEFINE Row(w) == [m \in Nodes |-> <<m>> \o FlattenSeq([i \in DOMAIN Kids(u, m) |-> w[Kids(u, m)[i]]])]
           none == [m \in Nodes |-> <<>>]
           Upto(j, f) == f = [k \in 0..j |-> IF k = 0 THEN none ELSE Row(f[k - 1])]
           Missing == {j \in Nat : ~ \E f : Upto(j, f)}
<1>1. \A f : Upto(Size, f) => WalkEqn(u, f)
  <2> TAKE f
  <2> HAVE Upto(Size, f)
  <2> DEFINE Cell(k, m) == IF k = 0 THEN <<>>
                           ELSE <<m>> \o FlattenSeq([i \in DOMAIN Kids(u, m) |-> f[k - 1][Kids(u, m)[i]]])
  <2>1. \A k \in 0..Size : (IF k = 0 THEN none ELSE Row(f[k - 1])) = [m \in Nodes |-> Cell(k, m)]
    <3> TAKE k \in 0..Size
    <3>1. CASE k = 0
      BY <3>1
    <3>2. CASE k # 0
      BY <3>2
    <3> QED BY <3>1, <3>2
  <2> HIDE DEF Cell, Row, none
  <2>2. f = [k \in 0..Size |-> [m \in Nodes |-> Cell(k, m)]]
    BY <2>1
  <2> QED BY <2>2 DEF WalkEqn, Cell
<1> HIDE DEF Row, none
<1>2. \E f : Upto(0, f)
  <2> DEFINE f == [k \in 0..0 |-> none]
  <2>1. Upto(0, f)
    OBVIOUS
  <2> QED BY <2>1
<1>3. ASSUME NEW j \in Nat, NEW f, Upto(j, f) PROVE \E g : Upto(j + 1, g)
  <2> DEFINE g == [k \in 0..(j + 1) |-> IF k = 0 THEN none ELSE Row(f[k - 1])]
             h == [k \in 0..(j + 1) |-> IF k = 0 THEN none ELSE Row(g[k - 1])]
  <2>1. ASSUME NEW k \in 0..j PROVE g[k] = f[k]
    <3>1. k \in 0..(j + 1)
      OBVIOUS
    <3>2. f[k] = IF k = 0 THEN none ELSE Row(f[k - 1])
      BY <1>3
    <3> QED BY <3>1, <3>2
  <2>2. ASSUME NEW k \in 0..(j + 1), k # 0 PROVE f[k - 1] = g[k - 1]
    <3>1. k - 1 \in 0..j
      BY <2>2
    <3> QED BY <2>1, <3>1
  <2>3. \A k \in 0..(j + 1) : g[k] = h[k]
    BY <2>2
  <2>4. g = h
    BY <2>3
  <2> QED BY <2>4
<1> HIDE DEF Upto
<1>4. Missing = {}
  <2> SUFFICES ASSUME Missing # {} PROVE FALSE
    OBVIOUS
  <2>1. Missing \in SUBSET Nat
    OBVIOUS
  <2>2. PICK j \in Missing : \A i \in Missing : j <= i
    BY <2>1, LeastNumber
  <2>3. j \in Nat /\ j # 0
    BY <1>2
  <2>4. j - 1 \in Nat /\ j - 1 \notin Missing
    <3> HIDE DEF Missing
    <3>1. j - 1 \in Nat /\ ~ (j <= j - 1)
      BY <2>3
    <3> QED BY <2>2, <3>1
  <2>5. PICK f : Upto(j - 1, f)
    BY <2>4
  <2>6. \E g : Upto((j - 1) + 1, g)
    BY <1>3, <2>4, <2>5
  <2>7. (j - 1) + 1 = j
    BY <2>3
  <2> QED BY <2>6, <2>7
<1>5. \E f : Upto(Size, f)
  BY <1>4, SizeType
<1> QED BY <1>1, <1>5

\* A node, then what its children's walks list.
LEMMA WalkStep ==
    ASSUME NEW u \in Links, Linked(u, {}, {}), Deep(u), NEW rank \in [Nodes -> Nat], Rises(u, {}, rank),
           NEW m \in Nodes, NEW seqs, seqs \in Seq(Seq(Nodes)), Len(seqs) = Len(Kids(u, m)),
           \A i \in 1..Len(seqs) : ListsAll(u, rank, seqs[i], Kids(u, m)[i])
    PROVE  ListsAll(u, rank, <<m>> \o FlattenSeq(seqs), m)
<1> DEFINE R == InOrder(u, rank)
           kids == Kids(u, m)
           flat == FlattenSeq(seqs)
<1>1. kids \in Seq(Nodes) /\ ToSet(kids) = {k \in Nodes : u.parent[k] = m}
  BY KidsAreTheChildren DEF Rising
<1>2. \A i, j \in 1..Len(kids) : i < j => rank[kids[i]] < rank[kids[j]]
  BY KidsRise
<1> HIDE DEF kids
<1>3. Len(seqs) = Len(kids) /\ Len(kids) \in Nat /\ ToSet(kids) = {kids[i] : i \in 1..Len(kids)}
  BY <1>1 DEF ToSet, kids
<1>4. \A i \in 1..Len(seqs) : kids[i] \in Nodes /\ u.parent[kids[i]] = m
  BY <1>1, <1>3
<1>5. \A i \in 1..Len(seqs) : Ordered(R, seqs[i]) /\ ToSet(seqs[i]) = Subtree(u, kids[i])
  BY DEF ListsAll, kids
<1>6. m # Null /\ m \in Subtree(u, m) /\ Subtree(u, m) \subseteq Nodes
  BY NodesAssumption, SubtreeIsClosed
<1>7. \A i \in 1..Len(seqs) : Subtree(u, kids[i]) \subseteq Subtree(u, m) \ {m}
  <2> TAKE i \in 1..Len(seqs)
  <2>1. kids[i] \in Nodes /\ u.parent[kids[i]] = m
    BY <1>4
  <2>2. kids[i] \in Subtree(u, m)
    BY <1>6, <2>1, SubtreeIsClosed DEF Closed
  <2>3. m \notin Subtree(u, kids[i])
    BY <2>1, NotBelowItself
  <2> QED BY <2>2, <2>3, SubtreeIsTransitive
<1>8. ASSUME NEW i \in 1..Len(seqs), NEW j \in 1..Len(seqs), i < j,
             NEW x \in ToSet(seqs[i]), NEW y \in ToSet(seqs[j])
      PROVE  <<x, y>> \in R
  <2>1. Beside(u, rank, kids[i], kids[j])
    BY <1>2, <1>3, <1>4, <1>6, <1>8 DEF Beside
  <2>2. x \in Subtree(u, kids[i]) /\ y \in Subtree(u, kids[j]) /\ x \in Nodes /\ y \in Nodes
    BY <1>5, <1>6, <1>7
  <2>3. Precedes(u, rank, x, y)
    BY <1>4, <2>1, <2>2 DEF Precedes
  <2> QED BY <2>2, <2>3 DEF InOrder
<1> HIDE DEF R
<1>9. flat \in Seq(Nodes) /\ Ordered(R, flat) /\ ToSet(flat) = UNION {ToSet(seqs[i]) : i \in 1..Len(seqs)}
  BY <1>5, <1>8, FlattenIsOrdered
<1> HIDE DEF flat
<1>10. ToSet(flat) = Subtree(u, m) \ {m}
  <2>1. ASSUME NEW y \in ToSet(flat) PROVE y \in Subtree(u, m) \ {m}
    BY <1>5, <1>7, <1>9
  <2>2. ASSUME NEW y \in Subtree(u, m), y # m PROVE y \in ToSet(flat)
    <3>1. PICK a \in Nodes : u.parent[a] = m /\ y \in Subtree(u, a)
      BY <2>2, ChildBetween
    <3>2. a \in ToSet(kids)
      BY <1>1, <3>1 DEF kids
    <3>3. PICK i \in 1..Len(kids) : kids[i] = a
      BY <1>3, <3>2
    <3> QED BY <1>3, <1>5, <1>9, <3>1, <3>3
  <2> QED BY <2>1, <2>2
<1>11. <<m>> \in Seq(Nodes) /\ ToSet(<<m>>) = {m} /\ Ordered(R, <<m>>)
  <2>1. Len(<<m>>) = 1 /\ DOMAIN <<m>> = 1..1 /\ <<m>>[1] = m
    OBVIOUS
  <2>2. ToSet(<<m>>) = {m}
    BY <2>1 DEF ToSet
  <2>3. Ordered(R, <<m>>)
    BY <2>1 DEF Ordered
  <2> QED BY <2>2, <2>3
<1>12. \A x \in ToSet(<<m>>), y \in ToSet(flat) : <<x, y>> \in R
  <2> SUFFICES ASSUME NEW y \in ToSet(flat) PROVE <<m, y>> \in R
    BY <1>11
  <2>1. y \in Subtree(u, m) /\ y # m /\ y \in Nodes
    BY <1>6, <1>10
  <2> QED BY <2>1 DEF R, InOrder, Precedes
<1>13. LET w == <<m>> \o flat
       IN  w \in Seq(Nodes) /\ ToSet(w) = ToSet(<<m>>) \cup ToSet(flat) /\ Ordered(R, w)
  BY <1>9, <1>11, <1>12, ConcatIsOrdered
<1>14. ToSet(<<m>>) \cup ToSet(flat) = Subtree(u, m)
  BY <1>6, <1>10, <1>11
<1> QED BY <1>13, <1>14 DEF ListsAll, R, flat

\* DocumentOrder lists what is below a node, each before what is below it and what comes after that.
LEMMA OrderListsAll ==
    ASSUME NEW u \in Links, Linked(u, {}, {}), Deep(u), NEW rank \in [Nodes -> Nat], Rises(u, {}, rank), NEW n \in Nodes
    PROVE  ListsAll(u, rank, DocumentOrder(u, n), n)
<1> DEFINE walk == CHOOSE walk : WalkEqn(u, walk)
           Weight(m) == Cardinality(Subtree(u, m))
           Good(k) == \A m \in Nodes : Weight(m) <= k => ListsAll(u, rank, walk[k][m], m)
           Bad == {k \in 0..Size : ~ Good(k)}
<1>1. WalkEqn(u, walk)
  BY WalkExists
<1> HIDE DEF walk
<1>2. \A m \in Nodes : Weight(m) \in Nat /\ Weight(m) > 0 /\ Weight(m) <= Size
  BY SubtreeSize
<1>3. \A m, c \in Nodes : u.parent[c] = m => Weight(c) < Weight(m)
  BY SubtreeShrinks
<1> HIDE DEF Weight
<1>4. ASSUME NEW k \in 0..Size, k = 0 \/ (k - 1 \in 0..Size /\ Good(k - 1)), NEW m \in Nodes, Weight(m) <= k
      PROVE  ListsAll(u, rank, walk[k][m], m)
  <2>1. k \in Nat /\ k # 0
    BY <1>2, <1>4, SizeType
  <2> DEFINE kids == Kids(u, m)
             seqs == [i \in DOMAIN Kids(u, m) |-> walk[k - 1][Kids(u, m)[i]]]
  <2>2. walk[k][m] = <<m>> \o FlattenSeq(seqs)
    <3>1. walk[k] = [j \in Nodes |->
               IF k = 0 THEN <<>>
               ELSE <<j>> \o FlattenSeq([i \in DOMAIN Kids(u, j) |-> walk[k - 1][Kids(u, j)[i]]])]
      BY <1>1 DEF WalkEqn
    <3> QED BY <2>1, <3>1
  <2>3. kids \in Seq(Nodes) /\ ToSet(kids) = {c \in Nodes : u.parent[c] = m}
    BY KidsAreTheChildren DEF Rising
  <2>4. \A i \in 1..Len(kids) : kids[i] \in Nodes /\ u.parent[kids[i]] = m
    <3> HIDE DEF kids
    <3>1. \A i \in 1..Len(kids) : kids[i] \in ToSet(kids)
      BY <2>3 DEF ToSet
    <3> QED BY <2>3, <3>1
  <2>5. \A i \in 1..Len(kids) : ListsAll(u, rank, walk[k - 1][kids[i]], kids[i])
    <3> TAKE i \in 1..Len(kids)
    <3>1. Weight(kids[i]) < Weight(m) /\ kids[i] \in Nodes
      BY <1>3, <2>4
    <3>2. Weight(kids[i]) <= k - 1
      <4> HIDE DEF kids
      <4>1. Weight(kids[i]) \in Nat /\ Weight(m) \in Nat
        BY <1>2, <3>1
      <4> QED BY <1>4, <2>1, <3>1, <4>1
    <3> HIDE DEF kids
    <3> QED BY <1>4, <2>1, <3>1, <3>2
  <2>6. DOMAIN kids = 1..Len(kids) /\ Len(kids) \in Nat
    BY <2>3
  <2>7. \A i \in 1..Len(kids) : seqs[i] = walk[k - 1][kids[i]]
    BY <2>6
  <2>8. seqs \in Seq(Seq(Nodes)) /\ Len(seqs) = Len(kids)
    <3>1. DOMAIN seqs = 1..Len(kids)
      BY <2>6
    <3>2. \A i \in 1..Len(kids) : seqs[i] \in Seq(Nodes)
      BY <2>5, <2>7 DEF ListsAll
    <3>3. seqs = [i \in 1..Len(kids) |-> walk[k - 1][kids[i]]]
      BY <2>6
    <3> HIDE DEF kids
    <3>4. seqs \in [1..Len(kids) -> Seq(Nodes)]
      BY <3>2, <3>3
    <3> QED BY <2>6, <3>4
  <2> HIDE DEF seqs
  <2>9. \A i \in 1..Len(seqs) : ListsAll(u, rank, seqs[i], Kids(u, m)[i])
    BY <2>5, <2>7, <2>8
  <2>10. ListsAll(u, rank, <<m>> \o FlattenSeq(seqs), m)
    BY <2>8, <2>9, WalkStep
  <2> QED BY <2>2, <2>10
<1>5. Bad = {}
  <2> SUFFICES ASSUME Bad # {} PROVE FALSE
    OBVIOUS
  <2>1. Bad \in SUBSET Nat
    BY SizeType
  <2>2. PICK k \in Bad : \A j \in Bad : k <= j
    BY <2>1, LeastNumber
  <2>3. k \in 0..Size /\ k \in Nat
    BY SizeType
  <2>4. k = 0 \/ (k - 1 \in 0..Size /\ ~ (k <= k - 1))
    BY <2>3, SizeType
  <2>5. k = 0 \/ (k - 1 \in 0..Size /\ Good(k - 1))
    BY <2>2, <2>4
  <2>6. Good(k)
    BY <1>4, <2>3, <2>5
  <2> QED BY <2>2, <2>6
<1>6. Good(Size)
  BY <1>5, SizeType
<1>7. ListsAll(u, rank, walk[Size][n], n)
  BY <1>2, <1>6
<1> QED BY <1>7, OrderWalk DEF walk

----------------------------------------------------------------------------
\* The ranks that a node gets a new one among.
LEMMA PutRanks ==
    ASSUME NEW u \in Links, NEW F \in SUBSET Nodes, NEW M \in SUBSET Nodes, Linked(u, F, M),
           NEW rank \in [Nodes -> Nat], Rises(u, M, rank),
           NEW n \in Nodes, n \in M \/ Loose(u, n), NEW to \in Nodes \ F, n # to,
           NEW anchor \in Nodes \cup {Null},
           anchor # Null => anchor # n /\ u.parent[anchor] = to
    PROVE  \E later \in [Nodes -> Nat] :
              Rises(Placed(u, to, anchor, n), Less(M, n), later) /\ SameOrder(rank, later, {n})
<1>1. CASE anchor = Null
  BY <1>1, InsertChildRanks DEF Placed, Less
<1>2. CASE anchor # Null
  <2>1. anchor \in Nodes /\ n # anchor /\ u.parent[anchor] \in Nodes \ F
    BY <1>2
  <2> QED BY <1>2, <2>1, InsertBeforeRanks DEF Placed, Less
<1> QED BY <1>1, <1>2

----------------------------------------------------------------------------
\* The iterator's walk: what it owes is below its root, and returned is what comes before the
\* node that was read ahead.
Walked(u, rank, i) ==
    i.root # Null =>
        /\ i.owed \subseteq Subtree(u, i.root)
        /\ i.done = {m \in i.owed : i.next = Null \/ Precedes(u, rank, m, i.next)}

\* A node moves with what is below it: either the whole walk is below it, or that is not owed any more.
LEMMA WalkMoves ==
    ASSUME NEW u \in Links, NEW v \in Links, Deep(u), Deep(v), NEW n \in Nodes, NEW p, Moved(u, v, n, p),
           p \notin Subtree(u, n), NEW rank \in [Nodes -> Nat], NEW later \in [Nodes -> Nat],
           SameOrder(rank, later, {n}), NEW i \in Iters, NEW j, j.root = i.root, j.next = i.next,
           i.root # Null => \/ i.root \in Subtree(u, n) /\ j.owed = i.owed /\ j.done = i.done
                            \/ /\ j.owed = i.owed \ Subtree(u, n) /\ j.done = i.done \ Subtree(u, n)
                               /\ i.next \notin Subtree(u, n),
           i.next # Null => i.next \in Subtree(u, i.root),
           Walked(u, rank, i)
    PROVE  Walked(v, later, j)
<1> DEFINE S == Subtree(u, n)
           root == i.root
           next == i.next
<1> SUFFICES ASSUME root # Null PROVE Walked(v, later, j)
  BY DEF Walked
<1>1. root \in Nodes /\ next \in Nodes \cup {Null} /\ i.owed \subseteq Subtree(u, root) /\ Subtree(u, root) \subseteq Nodes
  BY SubtreeIsClosed DEF Walked, Iters
<1>2. i.done = {m \in i.owed : next = Null \/ Precedes(u, rank, m, next)}
  BY DEF Walked
<1>3. v.parent[n] = p /\ \A k \in Nodes \ {n} : v.parent[k] = u.parent[k]
  BY DEF Moved
<1>4. S \in SUBSET Nodes /\ n \in S /\ Closed(u, S)
  BY SubtreeIsClosed
<1>5. \A a, b \in Nodes \ {n} : later[a] < later[b] <=> rank[a] < rank[b]
  BY DEF SameOrder
<1>6. CASE root \in S /\ j.owed = i.owed /\ j.done = i.done
  <2>1. Subtree(u, root) \subseteq S
    BY <1>6, SubtreeIsTransitive
  <2>2. i.owed \subseteq Subtree(v, root)
    BY <1>1, <1>3, <1>6, <2>1, StaysBelow
  <2>3. \A m \in i.owed : next # Null => (Precedes(v, later, m, next) <=> Precedes(u, rank, m, next))
    <3> TAKE m \in i.owed
    <3> HAVE next # Null
    <3>1. m \in S /\ next \in S
      BY <1>1, <2>1
    <3> QED BY <1>5, <3>1, OrderInside
  <2>4. i.done = {m \in i.owed : next = Null \/ Precedes(v, later, m, next)}
    BY <1>2, <2>3
  <2> QED BY <1>6, <2>2, <2>4 DEF Walked
<1>7. CASE j.owed = i.owed \ S /\ j.done = i.done \ S /\ next \notin S
  <2>1. i.owed \ S \subseteq Subtree(v, root)
    BY <1>1, <1>3, <1>4, SubtreeOutside
  <2>2. \A m \in i.owed \ S : next # Null => (Precedes(v, later, m, next) <=> Precedes(u, rank, m, next))
    <3> TAKE m \in i.owed \ S
    <3> HAVE next # Null
    <3>1. m \in Nodes \ S /\ next \in Nodes \ S
      BY <1>1, <1>7
    <3>2. \A k \in Nodes \ S : v.parent[k] = u.parent[k]
      BY <1>3, <1>4
    <3>3. \A a, b \in Nodes \ S : later[a] < later[b] <=> rank[a] < rank[b]
      BY <1>4, <1>5
    <3> HIDE DEF S
    <3> QED BY <1>4, <3>1, <3>2, <3>3, OrderOutside
  <2>3. i.done \ S = {m \in i.owed \ S : next = Null \/ Precedes(v, later, m, next)}
    BY <1>2, <2>2
  <2> QED BY <1>7, <2>1, <2>3 DEF Walked
<1> QED BY <1>6, <1>7

\* What is below a node is destroyed or replaced; the node that was read ahead is not in there.
LEMMA WalkLoses ==
    ASSUME NEW u \in Links, NEW v \in Links, NEW D \in SUBSET Nodes, Closed(u, D),
           \A k \in Nodes \ D : v.parent[k] = u.parent[k],
           NEW rank \in [Nodes -> Nat], NEW later \in [Nodes -> Nat],
           SameOrder(rank, later, D), NEW i \in Iters, NEW j, j.root = i.root, j.next = i.next,
           j.owed = i.owed \ D, j.done = i.done \ D,
           i.next # Null => i.next \notin D,
           Walked(u, rank, i)
    PROVE  Walked(v, later, j)
<1> DEFINE root == i.root
           next == i.next
<1> SUFFICES ASSUME root # Null PROVE Walked(v, later, j)
  BY DEF Walked
<1>1. root \in Nodes /\ next \in Nodes \cup {Null} /\ i.owed \subseteq Subtree(u, root) /\ Subtree(u, root) \subseteq Nodes
  BY SubtreeIsClosed DEF Walked, Iters
<1>2. i.done = {m \in i.owed : next = Null \/ Precedes(u, rank, m, next)}
  BY DEF Walked
<1>3. i.owed \ D \subseteq Subtree(v, root)
  BY <1>1, SubtreeOutside
<1>4. \A m \in i.owed \ D : next # Null => (Precedes(v, later, m, next) <=> Precedes(u, rank, m, next))
  <2> TAKE m \in i.owed \ D
  <2> HAVE next # Null
  <2>1. m \in Nodes \ D /\ next \in Nodes \ D
    BY <1>1
  <2>2. \A a, b \in Nodes \ D : later[a] < later[b] <=> rank[a] < rank[b]
    BY DEF SameOrder
  <2> QED BY <2>1, <2>2, OrderOutside
<1>5. i.done \ D = {m \in i.owed \ D : next = Null \/ Precedes(v, later, m, next)}
  BY <1>2, <1>4
<1> QED BY <1>3, <1>5 DEF Walked

\* Nothing below a node comes before it, where an iteration starts.
LEMMA WalkStarts ==
    ASSUME NEW u \in Links, Deep(u), NEW rank \in [Nodes -> Nat], NEW n \in Nodes,
           NEW i, i.root = n, i.next = n, i.owed = Subtree(u, n), i.done = {}
    PROVE  Walked(u, rank, i)
<1> SUFFICES ASSUME NEW m \in Subtree(u, n) PROVE ~ Precedes(u, rank, m, n)
  BY NodesAssumption DEF Walked
<1>1. m \in Nodes
  BY SubtreeIsClosed
<1>2. CASE m = n
  BY <1>2, NotBeforeItself
<1>3. CASE m # n
  <2>1. Precedes(u, rank, n, m)
    BY <1>3 DEF Precedes
  <2> QED BY <1>1, <2>1, PrecedesOneWay
<1> QED BY <1>2, <1>3

\* The walk goes on by one node.
LEMMA WalkGoesOn ==
    ASSUME NEW u \in Links, Linked(u, {}, {}), Deep(u), NEW rank \in [Nodes -> Nat], Rises(u, {}, rank),
           NEW i \in Iters, i.root # Null, i.next # Null, i.next \in Subtree(u, i.root),
           NEW j, j.root = i.root, j.owed = i.owed, j.next = Advance(u, i.root, i.next),
           j.done = i.done \cup ({i.next} \cap i.owed),
           Walked(u, rank, i)
    PROVE  Walked(u, rank, j)
<1> DEFINE root == i.root
           n == i.next
           x == Advance(u, root, n)
<1>1. root \in Nodes /\ n \in Subtree(u, root) /\ i.owed \subseteq Subtree(u, root) /\ n # Null
      /\ i.done = {m \in i.owed : Precedes(u, rank, m, n)}
  BY SubtreeIsClosed DEF Walked, Iters
<1>2. \A m \in i.owed : IF x = Null THEN Precedes(u, rank, m, n) \/ m = n
                        ELSE Precedes(u, rank, m, x) <=> Precedes(u, rank, m, n) \/ m = n
  BY <1>1, AdvanceIsNext
<1>3. j.next = x /\ j.root = root
  OBVIOUS
<1> HIDE DEF root, n, x
<1>4. j.done = {m \in i.owed : x = Null \/ Precedes(u, rank, m, x)}
  <2>1. j.done = i.done \cup ({n} \cap i.owed)
    BY DEF n
  <2>2. \A m : m \in j.done <=> m \in i.owed /\ (Precedes(u, rank, m, n) \/ m = n)
    BY <1>1, <2>1
  <2>3. \A m \in i.owed : (x = Null \/ Precedes(u, rank, m, x)) <=> (Precedes(u, rank, m, n) \/ m = n)
    BY <1>2
  <2> QED BY <2>2, <2>3
<1> QED BY <1>1, <1>3, <1>4 DEF Walked

----------------------------------------------------------------------------
\* The iterator's part of the inductive invariant.
IterInv == \E rank \in [Nodes -> Nat] : Rises(t, Moving, rank) /\ Walked(t, rank, it)

\* No call is moving the children of a fragment.
LEMMA NothingMoves ==
    ASSUME TreeInv, call.frag = Null \/ call.moving = <<>>
    PROVE  Moving = {} /\ Deep(t) /\ Linked(t, Emptying, {})
<1>1. call.moving = <<>>
  BY DEF TreeInv, CallInv
<1>2. Moving = {}
  BY <1>1 DEF Moving, ToSet
<1> QED BY <1>2 DEF TreeInv, Shaped, Shape

\* Steps that leave the tree alone, and what the iterator has returned and will return.
LEMMA SameWalk ==
    ASSUME IterInv, t' = t, Moving \subseteq Moving', it'.root = it.root, it'.next = it.next,
           it'.owed = it.owed, it'.done = it.done
    PROVE  IterInv'
BY DEF IterInv, Walked, Rises

LEMMA NoWalk ==
    ASSUME TreeInv', (it').root = Null
    PROVE  IterInv'
BY DEF TreeInv, Shaped, Shape, Rising, IterInv, Walked

\* A node leaves its tree, and the iterator what is below it.
LEMMA LeavesWithWalk ==
    ASSUME Types, NEW n \in Nodes, CarefulMove(n), it' = LeavesWith(n)
    PROVE  /\ it'.root = it.root /\ it'.next = it.next
           /\ it.root # Null =>
                 \/ it.root \in Subtree(t, n) /\ it'.owed = it.owed /\ it'.done = it.done
                 \/ /\ it'.owed = it.owed \ Subtree(t, n) /\ it'.done = it.done \ Subtree(t, n)
                    /\ it.next \notin Subtree(t, n)
<1>1. it'.root = it.root /\ it'.next = it.next
  BY LeavesWithIter
<1>2. CASE it.root \in Subtree(t, n)
  BY <1>1, <1>2 DEF LeavesWith
<1>3. CASE it.root \notin Subtree(t, n) /\ it.root # Null
  <2>1. it # NoIter
    BY <1>3 DEF NoIter
  <2>2. it' = Leaves(Subtree(t, n))
    BY <1>3, <2>1 DEF LeavesWith
  <2>3. it'.owed = it.owed \ Subtree(t, n) /\ it'.done = it.done \ Subtree(t, n)
    BY <2>2 DEF Leaves, Types
  <2>4. it.next \notin Subtree(t, n)
    BY <1>3, SubtreeIsClosed, NodesAssumption DEF CarefulMove, Types
  <2> QED BY <1>1, <2>3, <2>4
<1> QED BY <1>1, <1>2, <1>3

LEMMA UnlinkWalks ==
    ASSUME TreeInv, IterInv, TreeInv', Moving = {}, Emptying = {}, Moving' = {}, NEW n \in Nodes, CarefulMove(n),
           t' = Unlink(t, n), it' = LeavesWith(n)
    PROVE  IterInv'
<1>1. PICK rank \in [Nodes -> Nat] : Rises(t, {}, rank) /\ Walked(t, rank, it)
  BY DEF IterInv
<1>2. Types /\ t \in Links /\ it \in Iters /\ Shape(t, {}, {}) /\ Linked(t, {}, {}) /\ Deep(t)
  BY DEF TreeInv, Types, Shaped, Shape
<1>3. t' \in Links /\ Deep(t') /\ Moved(t, t', n, Null)
  BY <1>2, UnlinkShape DEF Shape
<1>4. Rises(t', {}, rank)
  BY <1>1, <1>2, UnlinkRanks
<1>5. SameOrder(rank, rank, {n})
  BY DEF SameOrder
<1>6. Null \notin Subtree(t, n)
  BY <1>2, SubtreeIsClosed, NodesAssumption
<1>7. /\ it'.root = it.root /\ it'.next = it.next
      /\ it.root # Null => \/ it.root \in Subtree(t, n) /\ it'.owed = it.owed /\ it'.done = it.done
                           \/ /\ it'.owed = it.owed \ Subtree(t, n) /\ it'.done = it.done \ Subtree(t, n)
                              /\ it.next \notin Subtree(t, n)
  BY <1>2, LeavesWithWalk
<1>8. it.next # Null => it.next \in Subtree(t, it.root)
  BY DEF TreeInv, Ahead
<1>9. Walked(t', rank, it')
  BY <1>1, <1>2, <1>3, <1>5, <1>6, <1>7, <1>8, WalkMoves
<1> QED BY <1>4, <1>9 DEF IterInv

\* Where a node is put, and the iterator leaves with it or it was new to the tree.
LEMMA PutWalks ==
    ASSUME TreeInv, IterInv, TreeInv', NEW n \in Nodes, Moving' = Less(Moving, n),
           n \in Moving \/ Loose(t, n), call.to \in Nodes, call.to # call.frag,
           call.to \notin Subtree(t, n),
           call.anchor # Null => call.anchor # n /\ t.parent[call.anchor] = call.to,
           t' = Put(n),
           it'.root = it.root, it'.next = it.next,
           it.root # Null =>
                 \/ it.root \in Subtree(t, n) /\ it'.owed = it.owed /\ it'.done = it.done
                 \/ /\ it'.owed = it.owed \ Subtree(t, n) /\ it'.done = it.done \ Subtree(t, n)
                    /\ it.next \notin Subtree(t, n)
    PROVE  IterInv'
<1>1. PICK rank \in [Nodes -> Nat] : Rises(t, Moving, rank) /\ Walked(t, rank, it)
  BY DEF IterInv
<1>2. t \in Links /\ it \in Iters /\ Shape(t, Emptying, Moving) /\ Linked(t, Emptying, Moving) /\ Deep(t)
      /\ t' \in Links /\ Deep(t')
  BY DEF TreeInv, Types, Shaped, Shape
<1>3. Emptying \in SUBSET Nodes /\ Moving \in SUBSET Nodes /\ call.anchor \in Nodes \cup {Null}
      /\ call.to \in Nodes \ Emptying /\ n # call.to
  <2>1. CallFields
    BY DEF TreeInv, Types
  <2>2. n # call.to
    BY <1>2, SubtreeIsClosed
  <2> QED BY <2>1, <2>2 DEF CallFields, Emptying, Moving, ToSet
<1>4. t' = Placed(t, call.to, call.anchor, n)
  BY DEF Put, Placed
<1>5. PICK to \in Nodes \ Emptying : to = call.to
  BY <1>3
<1>6. PICK anchor \in Nodes \cup {Null} : anchor = call.anchor
  BY <1>3
<1>7. PICK later \in [Nodes -> Nat] : Rises(t', Moving', later) /\ SameOrder(rank, later, {n})
  <2>1. \E later \in [Nodes -> Nat] :
           Rises(Placed(t, to, anchor, n), Less(Moving, n), later) /\ SameOrder(rank, later, {n})
    BY <1>1, <1>2, <1>3, <1>5, <1>6, PutRanks
  <2> QED BY <1>4, <1>5, <1>6, <2>1
<1>8. Moved(t, t', n, to)
  BY <1>2, <1>3, <1>4, <1>5, <1>6, PutShape
<1>9. it.next # Null => it.next \in Subtree(t, it.root)
  BY DEF TreeInv, Ahead
<1>10. to \notin Subtree(t, n)
  BY <1>5
<1>11. Walked(t', later, it')
  BY <1>1, <1>2, <1>7, <1>8, <1>9, <1>10, WalkMoves
<1> QED BY <1>7, <1>11 DEF IterInv

\* What is below a node is destroyed or made anew; the iterator did not read a node in there ahead.
LEMMA LosesWalk ==
    ASSUME TreeInv, IterInv, TreeInv', NEW D \in SUBSET Nodes, Closed(t, D), Moving = {}, Moving' = {},
           \A k \in Nodes \ D : t'.parent[k] = t.parent[k],
           \A rank \in [Nodes -> Nat] : Rises(t, {}, rank) =>
              \E later \in [Nodes -> Nat] : Rises(t', {}, later) /\ SameOrder(rank, later, D),
           it'.root = it.root, it'.next = it.next, it.root # Null => it'.owed = it.owed \ D /\ it'.done = it.done \ D,
           it.next # Null => it.next \notin D
    PROVE  IterInv'
<1>1. PICK rank \in [Nodes -> Nat] : Rises(t, {}, rank) /\ Walked(t, rank, it)
  BY DEF IterInv
<1>2. PICK later \in [Nodes -> Nat] : Rises(t', {}, later) /\ SameOrder(rank, later, D)
  BY <1>1
<1>3. t \in Links /\ it \in Iters /\ t' \in Links
  BY DEF TreeInv, Types
<1>4. Walked(t', later, it')
  <2>1. CASE it.root = Null
    BY <2>1 DEF Walked
  <2>2. CASE it.root # Null
    BY <1>1, <1>2, <1>3, <2>2, WalkLoses
  <2> QED BY <2>1, <2>2
<1> QED BY <1>2, <1>4 DEF IterInv

----------------------------------------------------------------------------
\* Each action keeps the iterator's part.
LEMMA IdleMoves == ASSUME TreeInv, Idle PROVE Moving = {} /\ Emptying = {} /\ Linked(t, {}, {}) /\ Deep(t) /\ t \in Links
BY IdleFacts DEF Idle, NoCall, Moving, Emptying, ToSet, Shape, TreeInv, Types

LEMMA SameMoves == ASSUME call' = call PROVE Moving' = Moving /\ Emptying' = Emptying
BY DEF Moving, Emptying

LEMMA DestroyRanks ==
    ASSUME NEW u \in Links, Linked(u, {}, {}), NEW rank \in [Nodes -> Nat], Rises(u, {}, rank), NEW n \in Nodes
    PROVE  Rises(DestroyDeep(u, n), {}, rank) /\ Rises(DestroyBelow(u, n), {}, rank)
<1>1. Rises(Unlink(u, n), {}, rank)
  BY UnlinkRanks
<1>2. \A m \in Nodes : DestroyDeep(u, n).next[m] \in {Unlink(u, n).next[m], Null}
  BY DEF DestroyDeep, Isolate
<1>3. \A m \in Nodes : DestroyBelow(u, n).next[m] \in {u.next[m], Null}
  BY DEF DestroyBelow, Isolate, ForgetChildren
<1>4. Rises(DestroyDeep(u, n), {}, rank)
  BY <1>1, <1>2 DEF Rises
<1>5. Rises(DestroyBelow(u, n), {}, rank)
  BY <1>3 DEF Rises
<1> QED BY <1>4, <1>5

\* A node is destroyed with what is below it.
LEMMA DestroyWalks ==
    ASSUME TreeInv, IterInv, TreeInv', Idle, call' = call, NEW n \in Nodes, t' = DestroyDeep(t, n), CarefulKill(n),
           it'.root = it.root, it'.next = it.next, it'.owed = it.owed \ Subtree(t, n), it'.done = it.done \ Subtree(t, n)
    PROVE  IterInv'
<1>1. Moving = {} /\ Moving' = {} /\ Linked(t, {}, {}) /\ Shape(t, {}, {}) /\ t \in Links
  BY IdleMoves, IdleFacts, SameMoves
<1>2. \A k \in Nodes \ Subtree(t, n) : t'.parent[k] = t.parent[k]
  BY <1>1, DestroyDeepShape
<1>3. Subtree(t, n) \in SUBSET Nodes /\ Closed(t, Subtree(t, n))
  BY <1>1, SubtreeIsClosed
<1>4. \A rank \in [Nodes -> Nat] : Rises(t, {}, rank) =>
         \E later \in [Nodes -> Nat] : Rises(t', {}, later) /\ SameOrder(rank, later, Subtree(t, n))
  <2> TAKE rank \in [Nodes -> Nat]
  <2> HAVE Rises(t, {}, rank)
  <2>1. Rises(t', {}, rank)
    BY <1>1, DestroyRanks
  <2>2. SameOrder(rank, rank, Subtree(t, n))
    BY DEF SameOrder
  <2> QED BY <2>1, <2>2
<1>5. it.next # Null => it.next \notin Subtree(t, n)
  BY DEF CarefulKill
<1> QED BY <1>1, <1>2, <1>3, <1>4, <1>5, LosesWalk

LEMMA DropHandleWalks ==
    ASSUME TreeInv, IterInv, TreeInv', Idle, call' = call, NEW n \in Nodes,
           NEW next \in Iters, next.root = it.root, next.next = it.next, next.owed = it.owed, next.done = it.done,
           DropHandle(n, next), refs[n] < 2 => CarefulKill(n)
    PROVE  IterInv'
<1>1. CASE t.parent[n] = Null /\ refs[n] < 2
  <2>1. t' = DestroyDeep(t, n) /\ it' = [next EXCEPT !.owed = @ \ Subtree(t, n), !.done = @ \ Subtree(t, n)]
    BY <1>1 DEF DropHandle
  <2>2. it'.root = it.root /\ it'.next = it.next /\ it'.owed = it.owed \ Subtree(t, n) /\ it'.done = it.done \ Subtree(t, n)
    BY <2>1
  <2> QED BY <1>1, <2>1, <2>2, DestroyWalks
<1>2. CASE ~ (t.parent[n] = Null /\ refs[n] < 2)
  <2>1. t' = t /\ it' = next
    BY <1>2 DEF DropHandle
  <2> QED BY <2>1, SameMoves, SameWalk
<1> QED BY <1>1, <1>2

LEMMA DropWalks == ASSUME TreeInv, IterInv, TreeInv', NEW n \in Nodes, Drop(n) PROVE IterInv'
<1>1. Idle /\ call' = call /\ DropHandle(n, it) /\ (refs[n] < 2 => CarefulKill(n))
  BY DEF Drop
<1>2. it \in Iters
  BY DEF TreeInv, Types
<1> QED BY <1>1, <1>2, DropHandleWalks

LEMMA DropItemWalks == ASSUME TreeInv, IterInv, TreeInv', DropItem PROVE IterInv'
<1> DEFINE after == [it EXCEPT !.item = Null]
<1>1. it \in Iters
  BY DEF TreeInv, Types
<1>2. after \in Iters /\ after.root = it.root /\ after.next = it.next /\ after.owed = it.owed /\ after.done = it.done
  BY <1>1
<1>3. PICK n \in Nodes : n = it.item
  BY <1>1 DEF DropItem
<1>4. Idle /\ call' = call /\ DropHandle(n, after) /\ (refs[n] < 2 => CarefulKill(n))
  BY <1>3 DEF DropItem
<1> HIDE DEF after
<1> QED BY <1>2, <1>4, DropHandleWalks

LEMMA DecomposeWalks == ASSUME TreeInv, IterInv, TreeInv', NEW n \in Nodes, Decompose(n) PROVE IterInv'
<1>1. Idle /\ call' = call /\ CarefulKill(n) /\ t' = DestroyDeep(t, n)
  BY DEF Decompose
<1>2. it'.root = it.root /\ it'.next = it.next /\ it'.owed = it.owed \ Subtree(t, n) /\ it'.done = it.done \ Subtree(t, n)
  BY DEF Decompose, Leaves, TreeInv, Types
<1> QED BY <1>1, <1>2, DestroyWalks

LEMMA RemoveNodeWalks == ASSUME TreeInv, IterInv, TreeInv', NEW n \in Nodes, RemoveNode(n) PROVE IterInv'
<1>1. Idle /\ call' = call /\ CarefulMove(n) /\ t' = Unlink(t, n) /\ it' = LeavesWith(n)
  BY DEF RemoveNode
<1> QED BY <1>1, IdleMoves, SameMoves, UnlinkWalks

LEMMA SetContentWalks ==
    ASSUME TreeInv, IterInv, TreeInv', NEW p \in InReach, NEW c \in Nodes \cup {Null}, SetContent(p, c)
    PROVE  IterInv'
<1> DEFINE u == DestroyBelow(t, p)
           B == Subtree(t, p) \ {p}
           D == B \cup ({c} \ {Null})
<1>1. /\ Idle /\ (c # Null => refs[c] = 0) /\ (it.next # p => CarefulKill(p))
      /\ t' = (IF c = Null THEN u ELSE InsertChild(u, p, c))
      /\ it' = Leaves(B) /\ call' = call
  BY DEF SetContent
<1>2. Types /\ Shape(t, {}, {}) /\ Counted /\ Ahead /\ Linked(t, {}, {}) /\ Moving = {} /\ Moving' = {}
  BY <1>1, IdleFacts, IdleMoves, SameMoves
<1>3. /\ it'.root = it.root /\ it'.next = it.next /\ it'.owed = it.owed \ B /\ it'.done = it.done \ B
  BY <1>1, <1>2 DEF Types, Leaves
<1>4. t \in Links /\ p \in Nodes /\ Owned(p)
  BY <1>2, ReachIsOwned DEF Types
<1>5. /\ u \in Links /\ Shape(u, {}, {}) /\ Linked(u, {}, {}) /\ Closed(t, B)
      /\ \A m \in Nodes \ B : u.parent[m] = t.parent[m] /\ (Rooted(u, m) => Rooted(t, m))
  BY <1>2, <1>4, DestroyBelowShape DEF Shape
<1>6. B \in SUBSET Nodes /\ p \notin B /\ \A m \in B : t.parent[m] \in Nodes
  BY <1>4, SubtreeIsClosed, SubtreeUp
<1>7. \A m \in Nodes : m \in B \/ m = p \/ Rooted(t, m) => refs[m] > Handles(m)
  BY <1>2, <1>4, <1>6, NodesAssumption DEF Counted, Owned, Rooted
<1>8. \A m \in Nodes : Handles(m) \in Nat /\ refs[m] \in Nat
  BY <1>2, HandlesType DEF Types
<1>9. c # Null => c \in Nodes /\ c \notin B /\ c # p /\ ~ Rooted(t, c)
  <2> SUFFICES ASSUME c # Null PROVE c \in Nodes /\ c \notin B /\ c # p /\ ~ Rooted(t, c)
    OBVIOUS
  <2>1. c \in Nodes /\ refs[c] = 0 /\ Handles(c) \in Nat
    BY <1>1, <1>8
  <2>2. ~ (refs[c] > Handles(c))
    BY <2>1
  <2> QED BY <1>7, <2>1, <2>2
<1> HIDE DEF u, B
<1>10. D \in SUBSET Nodes /\ Closed(t, D)
  <2>1. c # Null => \A k \in Nodes : t.parent[k] # c
    BY <1>2, <1>4, <1>9, ChildlessIsClosed
  <2> QED BY <1>5, <1>6, <2>1 DEF Closed
<1>11. \A k \in Nodes \ D : t'.parent[k] = t.parent[k]
  <2> TAKE k \in Nodes \ D
  <2>1. k # c /\ k \notin B
    BY NodesAssumption
  <2>2. t'.parent[k] = u.parent[k]
    BY <1>1, <2>1 DEF InsertChild
  <2> QED BY <1>5, <2>1, <2>2
<1>12. it.root # Null => \A m \in Subtree(t, it.root) : m # c
  <2> SUFFICES ASSUME it.root # Null, NEW m \in Subtree(t, it.root) PROVE m # c
    OBVIOUS
  <2>1. m \in Nodes /\ refs[m] > 0
    BY <1>2, BelowIsAlive
  <2> QED BY <1>1, <2>1, NodesAssumption
<1>13. it.root # Null => it'.owed = it.owed \ D /\ it'.done = it.done \ D
  <2>1. it.root # Null => it.owed \subseteq Subtree(t, it.root) /\ it.done \subseteq it.owed
    BY DEF IterInv, Walked
  <2> QED BY <1>3, <1>12, <2>1
<1>14. it.next # Null => it.next \notin D
  <2> SUFFICES ASSUME it.next # Null PROVE it.next \notin D
    OBVIOUS
  <2>1. it.root # Null /\ it.next \in Subtree(t, it.root)
    BY <1>2 DEF Ahead
  <2>2. it.next \notin B
    BY <1>1, <1>6 DEF CarefulKill, B
  <2> QED BY <1>12, <2>1, <2>2
<1>15. \A rank \in [Nodes -> Nat] : Rises(t, {}, rank) =>
          \E later \in [Nodes -> Nat] : Rises(t', {}, later) /\ SameOrder(rank, later, D)
  <2> TAKE rank \in [Nodes -> Nat]
  <2> HAVE Rises(t, {}, rank)
  <2>1. Rises(u, {}, rank)
    BY <1>2, <1>4, DestroyRanks DEF u
  <2>2. CASE c = Null
    <3>1. SameOrder(rank, rank, D)
      BY DEF SameOrder
    <3> QED BY <1>1, <2>1, <2>2, <3>1
  <2>3. CASE c # Null
    <3>1. ~ Rooted(u, c) /\ c \in Nodes /\ c # p
      BY <1>5, <1>9, <2>3
    <3>2. Loose(u, c)
      BY <1>4, <1>5, <3>1, ChildlessIsClosed
    <3>3. p \notin {} /\ {} \in SUBSET Nodes /\ {} \ {c} = {}
      OBVIOUS
    <3>4. \E later \in [Nodes -> Nat] : Rises(InsertChild(u, p, c), {} \ {c}, later) /\ SameOrder(rank, later, {c})
      BY <1>4, <1>5, <2>1, <3>1, <3>2, <3>3, InsertChildRanks
    <3>5. PICK later \in [Nodes -> Nat] : Rises(t', {}, later) /\ SameOrder(rank, later, {c})
      BY <1>1, <2>3, <3>3, <3>4
    <3>6. SameOrder(rank, later, D)
      BY <2>3, <3>5 DEF SameOrder
    <3> QED BY <3>5, <3>6
  <2> QED BY <2>2, <2>3
<1> HIDE DEF D
<1> QED BY <1>2, <1>3, <1>10, <1>11, <1>13, <1>14, <1>15, LosesWalk

----------------------------------------------------------------------------
LEMMA StartIterWalks == ASSUME TreeInv, IterInv, TreeInv', NEW n \in Nodes, StartIter(n) PROVE IterInv'
<1>1. Idle /\ it' = [NoIter EXCEPT !.root = n, !.next = n, !.owed = Subtree(t, n)] /\ t' = t /\ call' = call
  BY DEF StartIter
<1>2. Deep(t) /\ t \in Links /\ Moving' = Moving
  BY <1>1, IdleMoves, SameMoves
<1>3. PICK rank \in [Nodes -> Nat] : Rises(t, Moving, rank)
  BY DEF IterInv
<1>4. it'.root = n /\ it'.next = n /\ it'.owed = Subtree(t, n) /\ it'.done = {}
  BY <1>1 DEF NoIter
<1>5. Walked(t, rank, it')
  BY <1>2, <1>4, WalkStarts
<1> QED BY <1>1, <1>2, <1>3, <1>5 DEF IterInv

LEMMA IterNextWalks == ASSUME TreeInv, IterInv, TreeInv', IterNext PROVE IterInv'
<1>1. /\ Idle /\ it.next # Null /\ t' = t /\ call' = call
      /\ it' = [it EXCEPT !.item = it.next, !.next = Advance(t, it.root, it.next),
                          !.done = @ \cup ({it.next} \cap it.owed)]
  BY DEF IterNext
<1>2. Deep(t) /\ Linked(t, {}, {}) /\ t \in Links /\ Moving = {} /\ Moving' = {}
  BY <1>1, IdleMoves, SameMoves
<1>3. PICK rank \in [Nodes -> Nat] : Rises(t, {}, rank) /\ Walked(t, rank, it)
  BY <1>2 DEF IterInv
<1>4. it \in Iters /\ it.root # Null /\ it.next \in Subtree(t, it.root)
  BY <1>1 DEF TreeInv, Types, Ahead
<1>5. it'.root = it.root /\ it'.owed = it.owed /\ it'.next = Advance(t, it.root, it.next)
      /\ it'.done = it.done \cup ({it.next} \cap it.owed)
  BY <1>1, <1>4
<1>6. Walked(t, rank, it')
  BY <1>1, <1>2, <1>3, <1>4, <1>5, WalkGoesOn
<1> QED BY <1>1, <1>2, <1>3, <1>6 DEF IterInv

LEMMA TakeFirstWalks == ASSUME TreeInv, IterInv, TreeInv', TakeFirst PROVE IterInv'
<1> DEFINE c == t.first_child[call.to]
<1>1. /\ call.emptying /\ t' = Unlink(t, c) /\ it' = LeavesWith(c)
      /\ call' = [call EXCEPT !.emptying = t.next[c] # Null]
  BY DEF TakeFirst
<1>2. Types /\ CallInv /\ CallFields /\ t \in Links
  BY DEF TreeInv, Types
<1>3. call.frag = Null /\ call.moving = <<>> /\ call.to \in Nodes /\ c # Null
  BY <1>1, <1>2 DEF CallInv, CallFields
<1>4. call'.frag = Null /\ call'.moving = <<>>
  BY <1>1, <1>2, <1>3 DEF CallFields
<1>5. Emptying = {} /\ Moving = {} /\ Emptying' = {} /\ Moving' = {}
  BY <1>3, <1>4 DEF Emptying, Moving, ToSet
<1>6. c \in Nodes /\ CarefulMove(c)
  <2>1. Linked(t, {}, {})
    BY <1>5 DEF TreeInv, Shaped, Shape
  <2>2. c \in Nodes /\ t.parent[c] = call.to
    BY <1>2, <1>3, <2>1 DEF Linked, ParentsAgree, Links, Pointers
  <2> QED BY <1>1, <1>2, <2>2 DEF CallInv
<1> QED BY <1>1, <1>5, <1>6, UnlinkWalks

LEMMA ReturnWalks == ASSUME TreeInv, IterInv, TreeInv', Return PROVE IterInv'
<1>1. /\ call.frag = Null /\ call' = NoCall
      /\ t' = (IF call.drop = Null THEN t ELSE Unlink(t, call.drop))
      /\ it' = (IF call.drop = Null THEN it ELSE LeavesWith(call.drop))
  BY DEF Return
<1>2. Moving = {} /\ Emptying = {} /\ Moving' = {}
  BY <1>1, NothingMoves, NoCallFields DEF Emptying
<1>3. CASE call.drop = Null
  BY <1>1, <1>2, <1>3, SameWalk
<1>4. CASE call.drop # Null
  <2>1. PICK d \in Nodes : d = call.drop
    BY <1>4 DEF TreeInv, Types, CallFields
  <2>2. CarefulMove(d) /\ t' = Unlink(t, d) /\ it' = LeavesWith(d)
    BY <1>1, <1>4, <2>1 DEF TreeInv, CallInv
  <2> QED BY <1>2, <2>2, UnlinkWalks
<1> QED BY <1>3, <1>4

LEMMA FinishFragmentWalks == ASSUME TreeInv, IterInv, TreeInv', FinishFragment PROVE IterInv'
<1>1. /\ call.frag # Null /\ call.moving = <<>> /\ t' = ForgetChildren(t, call.frag)
      /\ call' = [call EXCEPT !.frag = Null] /\ it' = it
  BY DEF FinishFragment
<1>2. t \in Links /\ t' \in Links /\ CallFields
  BY DEF TreeInv, Types
<1>3. call'.moving = <<>>
  BY <1>1, <1>2 DEF CallFields
<1>4. Moving = {} /\ Moving' = {}
  BY <1>1, <1>3 DEF Moving, ToSet
<1>5. t'.parent = t.parent /\ t'.next = t.next
  BY <1>1, <1>2 DEF ForgetChildren, Links
<1>6. Closed(t, {}) /\ \A k \in Nodes \ {} : t'.parent[k] = t.parent[k]
  BY <1>5, NodesAssumption DEF Closed, Links, Pointers
<1>7. \A rank \in [Nodes -> Nat] : Rises(t, {}, rank) =>
         \E later \in [Nodes -> Nat] : Rises(t', {}, later) /\ SameOrder(rank, later, {})
  BY <1>5 DEF Rises, SameOrder
<1>8. it.owed \ {} = it.owed /\ it.done \ {} = it.done
  BY DEF TreeInv, Types
<1> QED BY <1>1, <1>4, <1>6, <1>7, <1>8, LosesWalk

LEMMA MoveKidWalks == ASSUME TreeInv, IterInv, TreeInv', MoveKid PROVE IterInv'
<1>1. PICK n : n = Head(call.moving)
  OBVIOUS
<1>2. /\ call.moving # <<>> /\ t' = Put(n) /\ it' = LeavesWith(n)
      /\ call' = [call EXCEPT !.moving = Tail(@)]
  BY <1>1 DEF MoveKid
<1>3. Types /\ CallInv /\ CallFields /\ t \in Links /\ Deep(t)
  BY DEF TreeInv, Types, Shaped, Shape
<1>4. PICK f \in Nodes : f = call.frag
  BY <1>2, <1>3 DEF CallInv, CallFields
<1>5. call.to \in Nodes /\ call.to \notin Subtree(t, f) /\ (call.anchor # Null => t.parent[call.anchor] = call.to)
  BY <1>3, <1>4, NodesAssumption DEF CallInv, CallFields
<1>6. ToSet(Tail(call.moving)) = Moving \ {n} /\ n \in Nodes /\ n \in Moving
  BY <1>1, <1>2, <1>3, TailFacts DEF CallInv, CallFields, Moving
<1>7. t.parent[n] = f /\ CarefulMove(n)
  BY <1>3, <1>4, <1>6 DEF CallInv
<1>8. f \in Subtree(t, f) /\ Closed(t, Subtree(t, f)) /\ call.to # f
  BY <1>3, <1>4, <1>5, SubtreeIsClosed
<1>9. call.to \notin Subtree(t, n)
  <2>1. n \in Subtree(t, f)
    BY <1>6, <1>7, <1>8 DEF Closed
  <2> QED BY <1>3, <1>4, <1>5, <2>1, SubtreeIsTransitive
<1>10. Moving' = Less(Moving, n)
  <2>1. call'.moving = Tail(call.moving)
    BY <1>2, <1>3 DEF CallFields
  <2> QED BY <1>6, <2>1 DEF Moving, Less
<1>11. call.anchor # Null => call.anchor # n /\ t.parent[call.anchor] = call.to
  BY <1>5, <1>7, <1>8
<1>12. /\ it'.root = it.root /\ it'.next = it.next
       /\ it.root # Null => \/ it.root \in Subtree(t, n) /\ it'.owed = it.owed /\ it'.done = it.done
                            \/ /\ it'.owed = it.owed \ Subtree(t, n) /\ it'.done = it.done \ Subtree(t, n)
                               /\ it.next \notin Subtree(t, n)
  BY <1>2, <1>3, <1>6, <1>7, LeavesWithWalk
<1> QED BY <1>2, <1>4, <1>5, <1>6, <1>8, <1>9, <1>10, <1>11, <1>12, PutWalks

\* A node that has no parent: the walk is below it, or nothing of the walk is.
LEMMA LooseWalk ==
    ASSUME TreeInv, IterInv, NEW n \in Nodes, t.parent[n] = Null, it.root # Null, it.root \notin Subtree(t, n)
    PROVE  it.owed \cap Subtree(t, n) = {} /\ it.done \cap Subtree(t, n) = {} /\ it.next \notin Subtree(t, n)
<1>1. t \in Links /\ it.root \in Nodes
  BY DEF TreeInv, Types
<1>2. ASSUME NEW m \in Subtree(t, it.root), m \in Subtree(t, n) PROVE FALSE
  <2>1. n \in Subtree(t, it.root)
    BY <1>1, <1>2, OneIsAbove
  <2>2. n = it.root
    BY <1>1, <2>1, RootAlone
  <2> QED BY <1>1, <2>2, SubtreeIsClosed
<1>3. it.owed \subseteq Subtree(t, it.root) /\ it.done \subseteq it.owed
  BY DEF IterInv, Walked
<1>4. it.next # Null => it.next \in Subtree(t, it.root)
  BY DEF TreeInv, Ahead
<1>5. Null \notin Subtree(t, n)
  BY <1>1, SubtreeIsClosed, NodesAssumption
<1> QED BY <1>2, <1>3, <1>4, <1>5

LEMMA InsertNextWalks == ASSUME TreeInv, IterInv, TreeInv', InsertNext PROVE IterInv'
<1>1. PICK n : n = Head(call.todo)
  OBVIOUS
<1>2. AtNode(n) /\ (MayInsert(call.to, n, call.anchor) => call.to \notin Subtree(t, n))
  BY <1>1, InsertNextStarts
<1>3. it' = it /\ Moving = {}
  BY <1>2 DEF InsertNext, AtNode
<1>4. CASE ~ (MayInsert(call.to, n, call.anchor) /\ n \notin Fragments)
  <2>1. t' = t
    BY <1>1, <1>4 DEF InsertNext
  <2> QED BY <1>3, <2>1, SameWalk
<1>5. CASE MayInsert(call.to, n, call.anchor) /\ n \notin Fragments
  <2>1. call' = [call EXCEPT !.todo = Tail(@)] /\ t' = Put(n)
    BY <1>1, <1>5 DEF InsertNext
  <2>2. n \in Nodes /\ call.to \in Nodes /\ call.frag = Null /\ Loose(t, n) /\ t.parent[n] = Null
    BY <1>2 DEF AtNode, Listed, Loose
  <2>3. Moving' = Less(Moving, n)
    <3>1. call'.moving = <<>>
      BY <1>2, <2>1 DEF AtNode, Types, CallFields
    <3> QED BY <1>3, <3>1 DEF Moving, ToSet, Less
  <2>4. call.anchor # Null => call.anchor # n /\ t.parent[call.anchor] = call.to
    BY <1>5 DEF MayInsert
  <2>5. it.root # Null => \/ it.root \in Subtree(t, n) /\ it'.owed = it.owed /\ it'.done = it.done
                          \/ /\ it'.owed = it.owed \ Subtree(t, n) /\ it'.done = it.done \ Subtree(t, n)
                             /\ it.next \notin Subtree(t, n)
    <3> SUFFICES ASSUME it.root # Null, it.root \notin Subtree(t, n)
                 PROVE  /\ it.owed = it.owed \ Subtree(t, n) /\ it.done = it.done \ Subtree(t, n)
                        /\ it.next \notin Subtree(t, n)
      BY <1>3
    <3>1. it.owed \cap Subtree(t, n) = {} /\ it.done \cap Subtree(t, n) = {} /\ it.next \notin Subtree(t, n)
      BY <2>2, LooseWalk
    <3> QED BY <3>1
  <2>6. call.to # call.frag
    BY <2>2, NodesAssumption
  <2> QED BY <1>2, <1>3, <1>5, <2>1, <2>2, <2>3, <2>4, <2>5, <2>6, PutWalks
<1> QED BY <1>4, <1>5

LEMMA CallStepWalks == ASSUME TreeInv, IterInv, TreeInv', CallStep PROVE IterInv'
BY TakeFirstWalks, InsertNextWalks, MoveKidWalks, FinishFragmentWalks, ReturnWalks DEF CallStep

\* The beginning of a call touches neither the tree nor the iterator.
LEMMA BeginWalks ==
    ASSUME TreeInv, IterInv, Idle, t' = t, it' = it
    PROVE  IterInv'
BY IdleMoves, SameWalk

LEMMA MutationWalks == ASSUME TreeInv, IterInv, TreeInv', Mutation PROVE IterInv'
<1>1. CASE CallStep
  BY <1>1, CallStepWalks
<1>2. CASE \E n \in Nodes : Create(n) \/ Drop(n) \/ Decompose(n)
  <2>1. ASSUME NEW n \in Nodes, Create(n) PROVE IterInv'
    BY <2>1, BeginWalks DEF Create
  <2> QED BY <1>2, <2>1, DropWalks, DecomposeWalks
<1>3. CASE \E n \in InReach : RemoveNode(n)
  BY <1>3, ReachIsOwned, RemoveNodeWalks
<1>4. CASE \E p \in InReach, n \in Movable : AppendChild(p, n)
  BY <1>4, BeginWalks DEF AppendChild, Begin
<1>5. CASE \E p \in InReach, c \in InReach, n \in Movable : InsertBeforeChild(p, n, c) \/ ReplaceChild(p, n, c)
  BY <1>5, BeginWalks DEF InsertBeforeChild, ReplaceChild, Begin, BeginAndDrop
<1>6. CASE \E p \in InReach, ns \in Lists : \/ AppendNodes(p, ns) \/ PrependNodes(p, ns) \/ ReplaceChildren(p, ns)
                                            \/ After(p, ns) \/ Before(p, ns) \/ ReplaceWith(p, ns)
  BY <1>6, BeginWalks DEF AppendNodes, PrependNodes, ReplaceChildren, After, Before, ReplaceWith, Begin, BeginAndDrop
<1>7. CASE \E p \in InReach, c \in Nodes \cup {Null} : SetContent(p, c)
  BY <1>7, SetContentWalks
<1>8. CASE CloseDocument
  <2>1. (it').root = Null
    BY <1>8 DEF CloseDocument, NoIter
  <2> QED BY <2>1, NoWalk
<1> QED BY <1>1, <1>2, <1>3, <1>4, <1>5, <1>6, <1>7, <1>8 DEF Mutation

LEMMA NextWalks == ASSUME TreeInv, IterInv, [Next]_vars PROVE TreeInv' /\ IterInv'
<1>0. TreeInv'
  BY NextGives
<1> SUFFICES IterInv'
  BY <1>0
<1>1. CASE Mutation
  BY <1>0, <1>1, MutationWalks
<1>2. CASE \E n \in InReach \cup {m \in Nodes : held[m] > 0} : Wrap(n)
  <2>1. Idle /\ t' = t /\ it' = it
    BY <1>2 DEF Wrap
  <2> QED BY <2>1, BeginWalks
<1>3. CASE \E n \in InReach : StartIter(n)
  BY <1>0, <1>3, ReachIsOwned, StartIterWalks
<1>4. CASE IterNext \/ DropItem
  BY <1>0, <1>4, IterNextWalks, DropItemWalks
<1>5. CASE EndIter
  <2>1. DropHandle(it.root, NoIter) /\ NoIter.root = Null /\ NoIter \in Iters
    BY <1>5 DEF EndIter, NoIter
  <2>2. (it').root = Null
    BY <2>1, DropHandleIter
  <2> QED BY <1>0, <2>2, NoWalk
<1>6. CASE UNCHANGED vars
  <2>1. t' = t /\ it' = it /\ call' = call
    BY <1>6 DEF vars
  <2>2. Moving' = Moving
    BY <2>1, SameMoves
  <2> QED BY <2>1, <2>2, SameWalk
<1> QED BY <1>0, <1>1, <1>2, <1>3, <1>4, <1>5, <1>6 DEF Next

\* Where the node that was read ahead stands in the document's order.
LEMMA WalkGivesOrder == ASSUME TreeInv, IterInv PROVE VisitsInOrder
<1> SUFFICES ASSUME Idle, it.root # Null PROVE VisitsInOrder
  BY DEF VisitsInOrder
<1> DEFINE order == DocumentOrder(t, it.root)
           ahead == IF it.next = Null THEN 1 + Len(order) ELSE CHOOSE i \in DOMAIN order : order[i] = it.next
<1>1. Deep(t) /\ Linked(t, {}, {}) /\ t \in Links /\ Moving = {} /\ it.root \in Nodes
  BY IdleMoves DEF TreeInv, Types
<1>2. PICK rank \in [Nodes -> Nat] : Rises(t, {}, rank) /\ Walked(t, rank, it)
  BY <1>1 DEF IterInv
<1>3. /\ it.owed \subseteq Subtree(t, it.root) /\ Subtree(t, it.root) \subseteq Nodes
      /\ it.done = {m \in it.owed : it.next = Null \/ Precedes(t, rank, m, it.next)}
  BY <1>1, <1>2, SubtreeIsClosed DEF Walked
<1>4. order \in Seq(Nodes) /\ Ordered(InOrder(t, rank), order) /\ ToSet(order) = Subtree(t, it.root)
  BY <1>1, <1>2, OrderListsAll DEF ListsAll
<1>5. it.next # Null => it.next \in Subtree(t, it.root)
  BY DEF TreeInv, Ahead
<1> HIDE DEF order
<1>6. Len(order) \in Nat /\ DOMAIN order = 1..Len(order) /\ Subtree(t, it.root) = {order[i] : i \in 1..Len(order)}
  BY <1>4 DEF ToSet
<1>7. CASE it.next = Null
  <2>1. ahead - 1 = Len(order)
    BY <1>6, <1>7
  <2>2. it.done = it.owed \cap {order[i] : i \in 1..(ahead - 1)}
    BY <1>3, <1>6, <1>7, <2>1
  <2> QED BY <2>2 DEF VisitsInOrder, order
<1>8. CASE it.next # Null
  <2>1. ahead \in DOMAIN order /\ order[ahead] = it.next
    BY <1>5, <1>6, <1>8
  <2> HIDE DEF ahead
  <2>2. ahead \in 1..Len(order) /\ ahead \in Nat
    BY <1>6, <2>1
  <2>3. \A i, j \in 1..Len(order) : i < j => Precedes(t, rank, order[i], order[j])
    BY <1>4 DEF Ordered, InOrder
  <2>4. ASSUME NEW i \in 1..Len(order)
        PROVE  i \in 1..(ahead - 1) <=> Precedes(t, rank, order[i], it.next)
    <3>1. order[i] \in Nodes /\ it.next \in Nodes
      BY <1>3, <1>5, <1>6, <1>8
    <3>2. CASE i < ahead
      <4>1. Precedes(t, rank, order[i], it.next)
        BY <2>1, <2>2, <2>3, <3>2
      <4>2. i \in 1..(ahead - 1)
        BY <1>6, <2>2, <3>2
      <4> QED BY <4>1, <4>2
    <3>3. CASE i = ahead
      <4>1. ~ Precedes(t, rank, order[i], it.next)
        BY <1>1, <2>1, <3>1, <3>3, NotBeforeItself
      <4>2. i \notin 1..(ahead - 1)
        BY <1>6, <2>2, <3>3
      <4> QED BY <4>1, <4>2
    <3>4. CASE i > ahead
      <4>1. Precedes(t, rank, it.next, order[i])
        BY <2>1, <2>2, <2>3, <3>4
      <4>2. ~ Precedes(t, rank, order[i], it.next)
        BY <1>1, <3>1, <4>1, PrecedesOneWay
      <4>3. i \notin 1..(ahead - 1)
        BY <1>6, <2>2, <3>4
      <4> QED BY <4>2, <4>3
    <3>5. i < ahead \/ i = ahead \/ i > ahead
      BY <1>6, <2>2
    <3> QED BY <3>2, <3>3, <3>4, <3>5
  <2>5. 1..(ahead - 1) \subseteq 1..Len(order)
    BY <1>6, <2>2
  <2>6. it.done = it.owed \cap {order[i] : i \in 1..(ahead - 1)}
    BY <1>3, <1>6, <1>8, <2>4, <2>5
  <2> QED BY <2>6 DEF VisitsInOrder, order, ahead
<1> QED BY <1>7, <1>8

(***************************************************************************)
(* An iteration returns every node that stays below its root from start to *)
(* end exactly once and in document order, whatever the loop body inserts, *)
(* moves, removes or destroys meanwhile: of these nodes, it has returned   *)
(* those before the node it read ahead and no other.                       *)
(***************************************************************************)
THEOREM VisitsInDocumentOrder == Spec => []VisitsInOrder
<1>1. Init => TreeInv /\ IterInv
  <2> SUFFICES ASSUME Init PROVE TreeInv /\ IterInv
    OBVIOUS
  <2>1. TreeInv
    BY InitGives
  <2>2. it.root = Null
    BY DEF Init, NoIter
  <2> QED BY <2>1, <2>2 DEF TreeInv, Shaped, Shape, Rising, IterInv, Walked
<1>2. TreeInv /\ IterInv /\ [Next]_vars => TreeInv' /\ IterInv'
  BY NextWalks
<1>3. TreeInv /\ IterInv => VisitsInOrder
  BY WalkGivesOrder
<1> QED BY <1>1, <1>2, <1>3, PTL DEF Spec
=============================================================================
