------------------------------ MODULE DomTree ------------------------------
(***************************************************************************)
(* The DOM of resiliparse-rs as a client sees it: handles that count       *)
(* references to nodes, calls that insert, move, replace and remove nodes  *)
(* one after the other, decompose(), and an iterator that reads the node   *)
(* after the next one ahead while the loop body changes the tree.          *)
(*                                                                         *)
(* The client is one that heeds the manual: it inserts nodes that have no  *)
(* place in a tree yet, does not use a node that was destroyed, and does   *)
(* not take away the node the iterator is about to return.                 *)
(***************************************************************************)
EXTENDS NodeLinks, SequencesExt

CONSTANTS Document,     \* the node that stands for the document; it is never inserted
          Fragments,    \* the cells that hold document fragments
          Texts,        \* the cells that hold nodes without children
          MaxHandles,   \* bound on the handles a client holds of one node
          MaxHeld,      \* bound on the nodes a client holds handles of, and iterators
          MaxList       \* bound on the nodes passed to one call

ASSUME DomAssumption ==
    /\ Document \in Nodes /\ Fragments \subseteq Nodes /\ Texts \subseteq Nodes
    /\ Document \notin Fragments \cup Texts /\ Fragments \cap Texts = {}
    /\ MaxHandles \in Nat /\ MaxHeld \in Nat /\ MaxList \in Nat \ {0}

VARIABLES
    t,      \* the links of all nodes
    refs,   \* ref_count of each node, 0 for a free cell
    held,   \* how many handles of each node the client holds
    call,   \* the call that inserts nodes, or NoCall
    it      \* the iterator, or NoIter

vars == <<t, refs, held, call, it>>

----------------------------------------------------------------------------
KidsOf(u) == [p \in Nodes |-> Kids(u, p)]

NoCall == [to |-> Null, anchor |-> Null, todo |-> <<>>, frag |-> Null,
           moving |-> <<>>, emptying |-> FALSE, drop |-> Null, promise |-> <<>>]
NoIter == [root |-> Null, next |-> Null, item |-> Null, owed |-> {}, done |-> {}]

Idle == call = NoCall

\* What the calls promise: the children of each node, at the end of the call under way.
kidsBar == IF Idle THEN KidsOf(t) ELSE call.promise

Forest == INSTANCE OrderedForest WITH kids <- kidsBar

----------------------------------------------------------------------------
\* The handles of a node: the client's, the iterator's and the loop variable's.
One(b) == IF b THEN 1 ELSE 0
Handles(n) == held[n] + One(it.root = n) + One(it.item = n)

\* A node that survived its destruction has only handles; any other has an owner in the tree.
Owned(n) == refs[n] > Handles(n)

\* What the client comes to from its handles, with others that it drops at once.
Root(n) ==
    LET up[k \in 0..Cardinality(Nodes), m \in Nodes] ==
            IF k = 0 \/ t.parent[m] = Null THEN m ELSE up[k - 1, t.parent[m]]
    IN  up[Cardinality(Nodes), n]
InReach ==
    LET roots == {Document} \cup {Root(m) : m \in {k \in Nodes : held[k] > 0}}
    IN  {n \in Nodes : Owned(n) /\ Root(n) \in roots}

\* The nodes that a careful client inserts: those with no place in a tree yet.
Movable == {n \in InReach \ {Document} : Loose(t, n)}

\* What counts for the bound: nodes besides the document with handles, and the iterator.
Busy == Cardinality({n \in Nodes \ {Document} : held[n] > 0}) + One(it.root # Null)

MayHold(n) == held[n] < MaxHandles /\ (held[n] > 0 \/ n = Document \/ Busy < MaxHeld)

CanHaveChildren(n) == n \notin Texts

\* Destroying nodes takes one reference of each; those of handles stay.
Release(D) == [m \in Nodes |-> IF m \in D THEN refs[m] - 1 ELSE refs[m]]

\* The nodes the iterator will not come by any more where the loop left them.
Leaves(D) == [it EXCEPT !.owed = @ \ D, !.done = @ \ D]
LeavesWith(n) == IF it = NoIter \/ it.root \in Subtree(t, n) THEN it ELSE Leaves(Subtree(t, n))

\* The client does not take the node away that the iterator read ahead.
CarefulMove(n) == it.next # Null /\ it.next \in Subtree(t, n) => it.root \in Subtree(t, n)
CarefulKill(n) == it.next # Null => it.next \notin Subtree(t, n)

----------------------------------------------------------------------------
Init ==
    /\ t = NoLinks
    /\ refs = [n \in Nodes |-> IF n = Document THEN 2 ELSE 0]
    /\ held = [n \in Nodes |-> IF n = Document THEN 1 ELSE 0]
    /\ call = NoCall
    /\ it = NoIter

\* create_element(), create_text_node(), create_document_fragment(), ...
Create(n) ==
    /\ Idle /\ refs[n] = 0 /\ MayHold(n)
    /\ refs' = [refs EXCEPT ![n] = 2]
    /\ held' = [held EXCEPT ![n] = @ + 1]
    /\ UNCHANGED <<t, call, it>>

\* Mutant of Wrap: a clone does not count its reference.
WrapUncounted(n) ==
    /\ Idle /\ MayHold(n)
    /\ held' = [held EXCEPT ![n] = @ + 1]
    /\ UNCHANGED <<t, refs, call, it>>

\* wrap_any_raw_node() of a neighbour and clone() of a handle
Wrap(n) ==
    /\ Idle /\ MayHold(n)
    /\ refs' = [refs EXCEPT ![n] = @ + 1]
    /\ held' = [held EXCEPT ![n] = @ + 1]
    /\ UNCHANGED <<t, call, it>>

\* The last handle of an orphan destroys it, if nobody else has a reference.
DropHandle(n, next) ==
    IF t.parent[n] = Null /\ refs[n] < 2
    THEN /\ t' = DestroyDeep(t, n)
         /\ refs' = Release(Subtree(t, n))
         /\ it' = [next EXCEPT !.owed = @ \ Subtree(t, n), !.done = @ \ Subtree(t, n)]
    ELSE /\ refs' = [refs EXCEPT ![n] = @ - 1]
         /\ it' = next
         /\ t' = t

Drop(n) ==
    /\ Idle /\ held[n] > 0 /\ n # Document
    /\ (refs[n] < 2 => CarefulKill(n))
    /\ DropHandle(n, it)
    /\ held' = [held EXCEPT ![n] = @ - 1]
    /\ UNCHANGED call

\* The last handle of any node frees the document and every cell that is left.
CloseDocument ==
    /\ Idle /\ it = NoIter
    /\ \A n \in Nodes \ {Document} : held[n] = 0
    /\ t' = NoLinks
    /\ refs' = [n \in Nodes |-> IF n = Document THEN 2 ELSE 0]
    /\ held' = [n \in Nodes |-> IF n = Document THEN 1 ELSE 0]
    /\ UNCHANGED <<call, it>>

----------------------------------------------------------------------------
(***************************************************************************)
(* Calls that insert nodes.  insert_before_unchecked() with the checks of  *)
(* insert_before(), and append_child_unchecked() where there is no anchor. *)
(***************************************************************************)
MayInsert(p, n, c) ==
    /\ n # p
    /\ CanHaveChildren(p)
    /\ c # Null => /\ c # n /\ c # p
                   /\ t.parent[c] = p
                   /\ c \notin Subtree(t, n)

\* Mutant of Put: the anchor is forgotten.
PutLast(n) == InsertChild(t, call.to, n)

Put(n) ==
    IF call.anchor = Null THEN InsertChild(t, call.to, n) ELSE InsertBefore(t, call.anchor, n)

\* Nodes a careful client passes: new to the tree and not above the place they go to.
Offers(p, c, ns) ==
    /\ IsInjective(ns)
    /\ \A i \in DOMAIN ns :
          /\ c = Null => p = ns[i] \/ p \notin Subtree(t, ns[i])
          /\ ns[i] \in Fragments => \A k \in ToSet(Kids(t, ns[i])) : CarefulMove(k)

Position(p, c) == IF c = Null THEN Len(Kids(t, p))
                              ELSE (CHOOSE i \in DOMAIN Kids(t, p) : Kids(t, p)[i] = c) - 1

\* The nodes of the list that are in S.
Only(ns, S) == FlattenSeq([i \in DOMAIN ns |-> IF ns[i] \in S THEN <<ns[i]>> ELSE <<>>])

\* The children as they will be: the nodes that may be inserted are there.
AfterInsert(p, c, ns) ==
    LET put == Only(ns, {n \in Nodes : MayInsert(p, n, c)})
    IN  IF put = <<>> THEN KidsOf(t) ELSE Forest!Inserted(KidsOf(t), p, Position(p, c), put)

Begin(p, c, ns) ==
    /\ Idle /\ Offers(p, c, ns)
    /\ call' = [NoCall EXCEPT !.to = p, !.anchor = c, !.todo = ns,
                              !.promise = AfterInsert(p, c, ns)]
    /\ UNCHANGED <<t, refs, held, it>>

AppendChild(p, n) == Begin(p, Null, <<n>>)
InsertBeforeChild(p, n, c) == Begin(p, c, <<n>>)
AppendNodes(p, ns) == CanHaveChildren(p) /\ Begin(p, Null, ns)
PrependNodes(p, ns) == CanHaveChildren(p) /\ Begin(p, t.first_child[p], Reverse(ns))

After(n, ns) ==
    /\ t.parent[n] # Null
    /\ Begin(t.parent[n], t.next[n], ns)

\* The anchor is the parent itself: nothing is inserted before it.
Before(n, ns) ==
    /\ t.parent[n] # Null
    /\ Begin(t.parent[n], t.parent[n], ns)

BeginAndDrop(p, c, ns, n) ==
    /\ Idle /\ Offers(p, c, ns) /\ CarefulMove(n)
    /\ call' = [NoCall EXCEPT !.to = p, !.anchor = c, !.todo = ns, !.drop = n,
                              !.promise = Forest!Without(AfterInsert(p, c, ns), n)]
    /\ UNCHANGED <<t, refs, held, it>>

ReplaceChild(p, n, c) ==
    /\ MayInsert(p, n, c)
    /\ BeginAndDrop(p, c, <<n>>, c)

ReplaceWith(n, ns) ==
    /\ t.parent[n] # Null
    /\ BeginAndDrop(t.parent[n], t.parent[n], ns, n)

ReplaceChildren(p, ns) ==
    /\ Idle /\ CanHaveChildren(p) /\ Offers(p, Null, ns)
    /\ \A k \in ToSet(Kids(t, p)) : CarefulMove(k)
    /\ LET put == Only(ns, {n \in Nodes : MayInsert(p, n, Null)})
       IN  call' = [NoCall EXCEPT
              !.to = p, !.todo = ns, !.emptying = t.first_child[p] # Null,
              !.promise = Forest!Inserted(Forest!Emptied(KidsOf(t), {p}), p, 0, put)]
    /\ UNCHANGED <<t, refs, held, it>>

----------------------------------------------------------------------------
\* The steps of such a call.
TakeFirst ==
    /\ call.emptying
    /\ LET c == t.first_child[call.to]
       IN  /\ t' = Unlink(t, c)
           /\ it' = LeavesWith(c)
           /\ call' = [call EXCEPT !.emptying = t.next[c] # Null]
    /\ UNCHANGED <<refs, held>>

InsertNext ==
    /\ ~call.emptying /\ call.frag = Null /\ call.todo # <<>>
    /\ LET n == Head(call.todo)
       IN  /\ call' = IF MayInsert(call.to, n, call.anchor) /\ n \in Fragments
                      THEN [call EXCEPT !.todo = Tail(@), !.frag = n, !.moving = Kids(t, n)]
                      ELSE [call EXCEPT !.todo = Tail(@)]
           /\ t' = IF MayInsert(call.to, n, call.anchor) /\ n \notin Fragments THEN Put(n) ELSE t
    /\ UNCHANGED <<refs, held, it>>

MoveKid ==
    /\ call.moving # <<>>
    /\ t' = Put(Head(call.moving))
    /\ it' = LeavesWith(Head(call.moving))
    /\ call' = [call EXCEPT !.moving = Tail(@)]
    /\ UNCHANGED <<refs, held>>

\* Mutant of FinishFragment: the fragment keeps the pointers to what was moved away.
FinishFragmentAsIs ==
    /\ call.frag # Null /\ call.moving = <<>>
    /\ call' = [call EXCEPT !.frag = Null]
    /\ UNCHANGED <<t, refs, held, it>>

FinishFragment ==
    /\ call.frag # Null /\ call.moving = <<>>
    /\ t' = ForgetChildren(t, call.frag)
    /\ call' = [call EXCEPT !.frag = Null]
    /\ UNCHANGED <<refs, held, it>>

Return ==
    /\ ~Idle /\ ~call.emptying /\ call.frag = Null /\ call.todo = <<>>
    /\ t' = IF call.drop = Null THEN t ELSE Unlink(t, call.drop)
    /\ it' = IF call.drop = Null THEN it ELSE LeavesWith(call.drop)
    /\ call' = NoCall
    /\ UNCHANGED <<refs, held>>

CallStep == TakeFirst \/ InsertNext \/ MoveKid \/ FinishFragment \/ Return

----------------------------------------------------------------------------
\* remove(), and remove_child() by the parent
RemoveNode(n) ==
    /\ Idle /\ n # Document /\ CarefulMove(n)
    /\ t' = Unlink(t, n)
    /\ it' = LeavesWith(n)
    /\ UNCHANGED <<refs, held, call>>

\* The handle, or the loop variable, is reset without giving its reference back.
Decompose(n) ==
    /\ Idle /\ n # Document /\ CarefulKill(n)
    /\ t' = DestroyDeep(t, n)
    /\ refs' = Release(Subtree(t, n))
    /\ \/ /\ held[n] > 0
          /\ held' = [held EXCEPT ![n] = @ - 1]
          /\ it' = Leaves(Subtree(t, n))
       \/ /\ it.item = n
          /\ it' = [Leaves(Subtree(t, n)) EXCEPT !.item = Null]
          /\ held' = held
    /\ UNCHANGED call

\* set_text_content(), set_inner_html(): c stands for what is new, Null for nothing
SetContent(p, c) ==
    /\ Idle /\ CanHaveChildren(p)
    /\ c # Null => refs[c] = 0 /\ c # Document /\ c \notin Fragments
    /\ (it.next # p => CarefulKill(p))
    /\ LET u == DestroyBelow(t, p)
       IN  t' = IF c = Null THEN u ELSE InsertChild(u, p, c)
    /\ refs' = [n \in Nodes |-> IF n = c THEN 1 ELSE Release(Subtree(t, p) \ {p})[n]]
    /\ it' = Leaves(Subtree(t, p) \ {p})
    /\ UNCHANGED <<held, call>>

----------------------------------------------------------------------------
\* Mutant of Advance: from the last child back to its parent.
AdvanceBack(u, root, n) ==
    CASE u.first_child[n] # Null -> u.first_child[n]
      [] u.first_child[n] = Null /\ n = root -> Null
      [] u.first_child[n] = Null /\ n # root /\ u.next[n] # Null -> u.next[n]
      [] OTHER -> IF u.parent[n] = root THEN Null ELSE u.parent[n]

\* The next node in document order below root: down, else on, else up and on.
Advance(u, root, n) ==
    LET on[k \in 0..Cardinality(Nodes)] ==
            [m \in Nodes \cup {Null} |->
                IF m = root \/ m = Null \/ k = 0 THEN Null
                ELSE IF u.next[m] # Null THEN u.next[m] ELSE on[k - 1][u.parent[m]]]
    IN  IF u.first_child[n] # Null THEN u.first_child[n] ELSE on[Cardinality(Nodes)][n]

StartIter(n) ==
    /\ Idle /\ it = NoIter /\ Busy < MaxHeld
    /\ it' = [NoIter EXCEPT !.root = n, !.next = n, !.owed = Subtree(t, n)]
    /\ refs' = [refs EXCEPT ![n] = @ + 1]
    /\ UNCHANGED <<t, held, call>>

IterNext ==
    /\ Idle /\ it.next # Null /\ it.item = Null
    /\ it' = [it EXCEPT !.item = it.next, !.next = Advance(t, it.root, it.next),
                        !.done = @ \cup ({it.next} \cap it.owed)]
    /\ refs' = [refs EXCEPT ![it.next] = @ + 1]
    /\ UNCHANGED <<t, held, call>>

\* The end of the loop body, and the end of the loop.
DropItem ==
    /\ Idle /\ it.item # Null
    /\ (refs[it.item] < 2 => CarefulKill(it.item))
    /\ DropHandle(it.item, [it EXCEPT !.item = Null])
    /\ UNCHANGED <<held, call>>

EndIter ==
    /\ Idle /\ it.root # Null /\ it.item = Null
    /\ DropHandle(it.root, NoIter)
    /\ UNCHANGED <<held, call>>

----------------------------------------------------------------------------
Lists == BoundedSeq(Movable, MaxList) \ {<<>>}

Mutation ==
    \/ CallStep
    \/ \E n \in Nodes : Create(n) \/ Drop(n) \/ Decompose(n)
    \/ \E n \in InReach : RemoveNode(n)
    \/ \E p \in InReach, n \in Movable : AppendChild(p, n)
    \/ \E p \in InReach, c \in InReach, n \in Movable : InsertBeforeChild(p, n, c) \/ ReplaceChild(p, n, c)
    \/ \E p \in InReach, ns \in Lists : \/ AppendNodes(p, ns) \/ PrependNodes(p, ns)
                                        \/ ReplaceChildren(p, ns)
                                        \/ After(p, ns) \/ Before(p, ns) \/ ReplaceWith(p, ns)
    \/ \E p \in InReach, c \in Nodes \cup {Null} : SetContent(p, c)
    \/ CloseDocument

Next ==
    \/ Mutation
    \/ \E n \in InReach \cup {m \in Nodes : held[m] > 0} : Wrap(n)
    \/ \E n \in InReach : StartIter(n)
    \/ IterNext \/ DropItem \/ EndIter

Spec == Init /\ [][Next]_vars

----------------------------------------------------------------------------
CallType == [to : Nodes \cup {Null}, anchor : Nodes \cup {Null}, todo : Seq(Nodes),
             frag : Nodes \cup {Null}, moving : Seq(Nodes), emptying : BOOLEAN,
             drop : Nodes \cup {Null}, promise : [Nodes -> Seq(Nodes)] \cup {<<>>}]

\* Every variable is of its type.
TypeOK ==
    /\ t \in Links
    /\ refs \in [Nodes -> Nat]
    /\ held \in [Nodes -> Nat]
    /\ call \in CallType
    /\ it \in [root : Nodes \cup {Null}, next : Nodes \cup {Null}, item : Nodes \cup {Null},
               owed : SUBSET Nodes, done : SUBSET Nodes]

(***************************************************************************)
(* The five pointers of all nodes agree with each other whenever no call   *)
(* is under way; while a fragment's children are moved, all but the        *)
(* fragment's to them and those of the ones still to be moved.             *)
(* This is what insertions, removals and destructions together keep        *)
(* although Lexbor's insertion does not look at where a node was.          *)
(***************************************************************************)
Emptying == {call.frag} \ {Null}
WellLinked == Linked(t, Emptying, ToSet(call.moving))

(***************************************************************************)
(* No handle outlives its node: each is counted, what is in a tree has a   *)
(* reference besides those of its handles, so that the drop of a handle    *)
(* never destroys it, a free cell is in no tree, and the node the iterator *)
(* read ahead is alive and still below its root.                           *)
(***************************************************************************)
InTree(n) == t.parent[n] # Null \/ t.first_child[n] # Null

NoDangling ==
    /\ \A n \in Nodes : refs[n] >= Handles(n)
    /\ \A n \in Nodes : InTree(n) => Owned(n)
    /\ it.next # Null => refs[it.next] > 0 /\ it.next \in Subtree(t, it.root)

(***************************************************************************)
(* An iteration returns every node that stays below its root from start to *)
(* end exactly once and in document order, whatever else the loop body     *)
(* inserts, removes or destroys: of these nodes it has returned those      *)
(* before the node it read ahead, and no other.                            *)
(***************************************************************************)
DocumentOrder(u, n) ==
    LET walk[k \in 0..Cardinality(Nodes)] ==
            [m \in Nodes |->
                IF k = 0 THEN <<>>
                ELSE <<m>> \o FlattenSeq([i \in DOMAIN Kids(u, m) |-> walk[k - 1][Kids(u, m)[i]]])]
    IN  walk[Cardinality(Nodes)][n]

VisitsInOrder ==
    Idle /\ it.root # Null =>
        LET order  == DocumentOrder(t, it.root)
            ahead  == IF it.next = Null THEN 1 + Len(order)
                      ELSE CHOOSE i \in DOMAIN order : order[i] = it.next
        IN  it.done = it.owed \cap {order[i] : i \in 1..(ahead - 1)}

(***************************************************************************)
(* Each call does to the children of the nodes what it promises, as if in  *)
(* one step.                                                               *)
(***************************************************************************)
ImplementsForest == Forest!Spec
=============================================================================
