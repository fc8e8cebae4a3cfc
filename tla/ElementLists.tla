---------------------------- MODULE ElementLists ----------------------------
(***************************************************************************)
(* Elements with their attributes, the lists that the DOM gives of them,   *)
(* and a loop over such a list whose body changes the tree, attributes and *)
(* classes.  Lists are live: each look at one makes it anew from the tree. *)
(* The tree changes as OrderedForest says, which DomTree implements.        *)
(*                                                                         *)
(* A loop of a Python program asks for item 0, 1, 2, ... of a live list    *)
(* until it is refused one.  A loop of a Rust program, or over values(),   *)
(* attrs or the result of a selector, has a list that does not change.     *)
(***************************************************************************)
EXTENDS ClassTokens, Integers, FiniteSets

CONSTANTS Null,         \* no node, no value
          Document, Elements,
          Words,        \* words of class names and ids
          Names,        \* names of attributes, "class", "id" and "name" among them
          Strings,      \* the strings that the client passes: sequences of words
          MaxWords,     \* bound on the words of all attributes
          MaxAttrs,     \* bound on the attributes of all elements
          MaxChanges    \* bound on the changes made in one loop

ASSUME ListsAssumption ==
    /\ Null \notin Elements \cup {Document} /\ Document \notin Elements
    /\ {"class", "id"} \subseteq Names /\ Strings \subseteq Seq(Words)
    /\ MaxWords \in Nat /\ MaxAttrs \in Nat /\ MaxChanges \in Nat

VARIABLES
    kids,   \* the children of each node
    attrs,  \* the attributes of each element in their order: name and value
    loop    \* the loop, or NoLoop

vars == <<kids, attrs, loop>>

Nodes == Elements \cup {Document}
Forest == INSTANCE OrderedForest WITH Fragments <- {}, MaxList <- 1

----------------------------------------------------------------------------
(***************************************************************************)
(* Attributes.  One may have no value: <input checked>, create_attribute() *)
(***************************************************************************)
HasAttribute(a, e, n) == \E i \in DOMAIN a[e] : a[e][i].name = n
AttributeNames(a, e) == [i \in DOMAIN a[e] |-> a[e][i].name]

\* attribute(): Null for one that is not there and for one without a value
Attribute(a, e, n) ==
    IF HasAttribute(a, e, n) THEN a[e][SelectInSeq(a[e], LAMBDA x : x.name = n)].value ELSE Null
AttributeOrDefault(a, e, n) == IF Attribute(a, e, n) = Null THEN <<>> ELSE Attribute(a, e, n)

WithAttribute(a, e, n, v) ==
    [a EXCEPT ![e] = IF HasAttribute(a, e, n)
                     THEN [i \in DOMAIN @ |-> IF @[i].name = n THEN [name |-> n, value |-> v] ELSE @[i]]
                     ELSE Append(@, [name |-> n, value |-> v])]
WithoutAttribute(a, e, n) == [a EXCEPT ![e] = SelectSeq(@, LAMBDA x : x.name # n)]

ClassValue(a, e) == AttributeOrDefault(a, e, "class")
ClassList(a, e) == Values(ClassValue(a, e))

----------------------------------------------------------------------------
(***************************************************************************)
(* The lists.                                                              *)
(***************************************************************************)
Parent(k, n) == IF \E p \in Nodes : n \in ToSet(k[p]) THEN CHOOSE p \in Nodes : n \in ToSet(k[p]) ELSE Null

\* The elements below a node, in the order of the document
Descendants(k, n) ==
    LET walk[i \in 0..Cardinality(Nodes), m \in Nodes] ==
            IF i = 0 THEN <<>>
            ELSE FlattenSeq([j \in DOMAIN k[m] |-> <<k[m][j]>> \o walk[i - 1, k[m][j]]])
    IN  walk[Cardinality(Nodes), n]

\* All elements have the same tag.
ElementsByTagName(k, n) == Descendants(k, n)
ElementsByClassName(k, a, n, w) == SelectSeq(Descendants(k, n), LAMBDA e : w \in ToSet(ClassList(a, e)))
ElementsByAttr(k, a, n, name, v) ==
    SelectSeq(Descendants(k, n), LAMBDA e : HasAttribute(a, e, name) /\ AttributeOrDefault(a, e, name) = v)
FirstOf(s) == SubSeq(s, 1, IF s = <<>> THEN 0 ELSE 1)
ElementById(k, a, n, w) == FirstOf(ElementsByAttr(k, a, n, "id", <<w>>))

NoItems == <<>>
LiveLists ==
    [kind : {"tokens", "attributes"}, of : Elements, word : {Null}, items : {NoItems}]
        \cup [kind : {"children", "tag"}, of : {Document}, word : {Null}, items : {NoItems}]
        \cup [kind : {"class"}, of : {Document}, word : Words, items : {NoItems}]

\* A list that keeps its items: iter(), values(), attrs, query_selector_all()
Snapshot(s) == [kind |-> "static", of |-> Document, word |-> Null, items |-> s]

\* NodeListGeneric::iter(): live lists are made anew
Listed(k, a, l) ==
    CASE l.kind = "children"   -> k[l.of]
      [] l.kind = "attributes" -> AttributeNames(a, l.of)
      [] l.kind = "tokens"     -> ClassList(a, l.of)
      [] l.kind = "tag"        -> ElementsByTagName(k, l.of)
      [] l.kind = "class"      -> ElementsByClassName(k, a, l.of, l.word)
      [] l.kind = "static"     -> l.items

\* Mutant of ItemAt: counts from 1.
ItemAtFromOne(s, i) == IF i + 1 < Len(s) THEN s[i + 2] ELSE Null

\* item(), __getitem__(): Null stands for None and for IndexError.
ItemAt(s, i) == IF i < Len(s) THEN s[i + 1] ELSE Null

----------------------------------------------------------------------------
(***************************************************************************)
(* Selectors and lookups.  A selector asks for a class; Null is one that   *)
(* does not parse.                                                         *)
(***************************************************************************)
Refused == <<Null>>

\* match_elements(): what is below n, never n itself
Matched(k, a, n, sel) == ElementsByClassName(k, a, n, sel)

QuerySelectorAll(k, a, n, sel) == IF sel = Null THEN Refused ELSE Matched(k, a, n, sel)
QuerySelector(k, a, n, sel) == FirstOf(QuerySelectorAll(k, a, n, sel))

Matches(k, a, e, sel) == e \in ToSet(QuerySelectorAll(k, a, Document, sel))

\* Mutant of Climb: begins above the element.
Up(k, n) == Parent(k, n)
ClimbFromAbove(k, found, e) ==
    LET up[i \in 0..Cardinality(Nodes), m \in Nodes \cup {Null}] ==
            IF m \notin Elements THEN Null
            ELSE IF m \in found THEN m
            ELSE IF i = 0 THEN Null ELSE up[i - 1, Up(k, m)]
    IN  up[Cardinality(Nodes), Up(k, e)]

\* The first of e, its parent, ... that is among the found ones
Climb(k, found, e) ==
    LET up[i \in 0..Cardinality(Nodes), m \in Nodes \cup {Null}] ==
            IF m \notin Elements THEN Null
            ELSE IF m \in found THEN m
            ELSE IF i = 0 THEN Null ELSE up[i - 1, Up(k, m)]
    IN  up[Cardinality(Nodes), e]
Closest(k, a, e, sel) ==
    LET found == QuerySelectorAll(k, a, Document, sel)
    IN  IF found = Refused THEN Refused
        ELSE IF Climb(k, ToSet(found), e) = Null THEN <<>> ELSE <<Climb(k, ToSet(found), e)>>

\* ElementNodeList: a query of a list asks its items one after the other.
ListByClassName(k, a, items, w) ==
    FlattenSeq([i \in DOMAIN items |-> ElementsByClassName(k, a, items[i], w)])
ListByAttr(k, a, items, name, v) ==
    FlattenSeq([i \in DOMAIN items |-> ElementsByAttr(k, a, items[i], name, v)])
ListQuerySelectorAll(k, a, items, sel) ==
    IF items # <<>> /\ sel = Null THEN Refused ELSE ListByClassName(k, a, items, sel)
ListQuerySelector(k, a, items, sel) ==
    FlattenSeq(FirstOf(SelectSeq([i \in DOMAIN items |-> QuerySelector(k, a, items[i], sel)],
                                 LAMBDA found : found # <<>>)))
ListMatches(k, a, items, sel) ==
    IF items # <<>> /\ sel = Null THEN Refused ELSE \E i \in DOMAIN items : Matches(k, a, items[i], sel)
ListElementById(k, a, items, w) == FirstOf(ListByAttr(k, a, items, "id", <<w>>))
NamedItem(a, items, w) ==
    FirstOf(SelectSeq(items, LAMBDA e : <<w>> \in {Attribute(a, e, "id"), Attribute(a, e, "name")}))

----------------------------------------------------------------------------
NoLoop == [list |-> Null, seen |-> <<>>, stays |-> {}, lost |-> FALSE, gained |-> FALSE,
           shuffled |-> FALSE, changes |-> 0, over |-> FALSE]

\* A parsed document of elements that have no attributes yet
Init ==
    /\ \E order \in SetToSeqs(Elements) :
          kids = [n \in Nodes |-> IF n = Document THEN order ELSE <<>>]
    /\ attrs = [e \in Elements |-> <<>>]
    /\ loop = NoLoop

\* What a change of the list from old to new means for a loop that has seen some of it
Watch(old, new) ==
    LET at == Len(loop.seen)
        common == ToSet(old) \cap ToSet(new)
        Only(s) == SelectSeq(s, LAMBDA x : x \in common)
        Visited(s) == {s[i] : i \in DOMAIN s \cap 1..at}
    IN  [loop EXCEPT !.stays = @ \cap ToSet(new),
                     !.lost = @ \/ Visited(old) \ ToSet(new) # {},
                     !.gained = @ \/ Visited(new) \ ToSet(old) # {},
                     !.shuffled = @ \/ Only(old) # Only(new),
                     !.changes = @ + 1]

\* The client changes the tree or the attributes, in a loop or not.
Change(k, a) ==
    /\ ~loop.over /\ loop.changes < MaxChanges
    /\ MapThenSumSet(LAMBDA e : Len(a[e]), Elements) <= MaxAttrs
    /\ MapThenSumSet(LAMBDA x : Len(AttributeOrDefault(a, x[1], x[2])), Elements \X Names) <= MaxWords
    /\ kids' = k
    /\ attrs' = a
    /\ IF loop # NoLoop
       THEN loop' = Watch(Listed(kids, attrs, loop.list), Listed(k, a, loop.list))
       ELSE loop' = loop

----------------------------------------------------------------------------
\* set_attribute(), set_id(), set_class_name(), e[n] = v
SetAttribute(e, n, v) == Change(kids, WithAttribute(attrs, e, n, v))

RemoveAttribute(e, n) == Change(kids, WithoutAttribute(attrs, e, n))

\* del e[n] raises IndexError where there is none
DelItem(e, n) == HasAttribute(attrs, e, n) /\ RemoveAttribute(e, n)

ToggleAttribute(e, n, force) ==
    IF force = "on" \/ (force = "auto" /\ ~HasAttribute(attrs, e, n))
    THEN SetAttribute(e, n, AttributeOrDefault(attrs, e, n))
    ELSE RemoveAttribute(e, n)

\* create_attribute() and set_attribute_node(); the client does not give an element
\* a second attribute of a name.
SetAttributeNode(e, n) ==
    ~HasAttribute(attrs, e, n) /\ Change(kids, WithAttribute(attrs, e, n, Null))

\* attribute_node(n).set_value(v)
SetAttributeNodeValue(e, n, v) == HasAttribute(attrs, e, n) /\ SetAttribute(e, n, v)

SetClassValue(e, v) == SetAttribute(e, "class", v)
AddTokens(e, tokens) == SetClassValue(e, WithTokens(ClassValue(attrs, e), tokens))
RemoveTokens(e, tokens) == SetClassValue(e, WithoutTokens(ClassValue(attrs, e), tokens))
ReplaceToken(e, old, new) == SetClassValue(e, WithReplaced(ClassValue(attrs, e), old, new))
ToggleToken(e, token, force) == SetClassValue(e, WithToggled(ClassValue(attrs, e), token, force))

\* remove(), and append_child() and insert_before() of an element without a parent
Detach(e) == Parent(kids, e) # Null /\ Change(Forest!Without(kids, e), attrs)
Attach(p, i, e) ==
    /\ Parent(kids, e) = Null /\ p \notin Forest!Below(kids, e)
    /\ Change(Forest!Inserted(kids, p, i, <<e>>), attrs)

----------------------------------------------------------------------------
\* for x in list, or over a list made of it; one kind stands for all that are made.
StartLoop(l, live) ==
    /\ loop = NoLoop
    /\ live \/ l.kind = "tag"
    /\ LET s == Listed(kids, attrs, l)
       IN  loop' = [NoLoop EXCEPT !.list = IF live THEN l ELSE Snapshot(s), !.stays = ToSet(s)]
    /\ UNCHANGED <<kids, attrs>>

LoopNext ==
    /\ loop # NoLoop /\ ~loop.over
    /\ LET x == ItemAt(Listed(kids, attrs, loop.list), Len(loop.seen))
       IN  loop' = IF x = Null THEN [loop EXCEPT !.over = TRUE] ELSE [loop EXCEPT !.seen = Append(@, x)]
    /\ UNCHANGED <<kids, attrs>>

\* The loop has come to its end, or its body leaves it.
LeaveLoop == loop # NoLoop /\ loop' = NoLoop /\ UNCHANGED <<kids, attrs>>

Next ==
    \/ \E e \in Elements, n \in Names :
          \/ \E v \in Strings : SetAttribute(e, n, v) \/ SetAttributeNodeValue(e, n, v)
          \/ RemoveAttribute(e, n)
          \/ DelItem(e, n)
          \/ SetAttributeNode(e, n)
          \/ \E force \in {"on", "off", "auto"} : ToggleAttribute(e, n, force)
    \/ \E e \in Elements : Detach(e)
    \/ \E e \in Elements, t \in Strings :
          \/ AddTokens(e, <<t>>)
          \/ RemoveTokens(e, <<t>>)
    \/ \E e \in Elements, w \in Words :
          \/ \E u \in Strings : ReplaceToken(e, <<w>>, u)
          \/ \E force \in {"on", "off", "auto"} : ToggleToken(e, <<w>>, force)
    \/ \E p \in Nodes, e \in Elements : \E i \in 0..Len(kids[p]) : Attach(p, i, e)
    \/ \E l \in LiveLists, live \in BOOLEAN : StartLoop(l, live)
    \/ LoopNext
    \/ LeaveLoop

Spec == Init /\ [][Next]_vars

----------------------------------------------------------------------------
(* Class lists behave as ordered sets of words whatever the class          *)
(* attribute holds (repeated words, other white space, nothing), as long   *)
(* as tokens are single words; the list has no word twice.  (That a loop   *)
(* is under way changes nothing of it.)                                    *)
ClassListsAreSets ==
    loop = NoLoop => \A e \in Elements :
       /\ IsInjective(ClassList(attrs, e))
       /\ \A w, u \in Words : ActsAsSet(ClassValue(attrs, e), w, u)

(* A loop that came to its end has seen every item that was in the list    *)
(* all the time, unless an item that it had seen left the list; and none   *)
(* of them twice, unless one came in at or before the place where it was.  *)
(* Only a class list can be reordered: set_value() may do that.            *)
Times(x) == Cardinality({i \in DOMAIN loop.seen : loop.seen[i] = x})
LoopsMissNothing ==
    loop.over /\ ~loop.shuffled =>
       \A x \in loop.stays : (loop.lost \/ Times(x) >= 1) /\ (loop.gained \/ Times(x) <= 1)

(* matches() and closest() agree with the class lists of the element and   *)
(* the elements above it, but find nothing for an element that is not in   *)
(* the document.  A query of a list finds what is below its items, once    *)
(* for each item that it is below, and refuses a selector that does not    *)
(* parse unless the list is empty.  get_element_by_id() and named_item()   *)
(* of all elements find the same one.                                      *)
Above(k, e) == {m \in Elements : e \in Forest!Below(k, m)}
InDocument(k, e) == e \in Forest!Below(k, Document)
WithClass(a, w) == {e \in Elements : w \in ToSet(ClassValue(a, e))}
LookupsAgree ==
    loop = NoLoop => \A w \in Words :
       LET C == WithClass(attrs, w)
       IN  /\ \A e \in Elements :
                 LET near == {m \in C \cap Above(kids, e) : \A x \in C \cap Above(kids, e) : x \in Above(kids, m)}
                 IN  /\ ToSet(Closest(kids, attrs, e, w)) = IF InDocument(kids, e) THEN near ELSE {}
                     /\ Matches(kids, attrs, e, w) <=> e \in C /\ InDocument(kids, e)
           /\ \A l \in {x \in LiveLists : x.kind \in {"children", "tag", "class"}} :
                 LET items == Listed(kids, attrs, l)
                     found == ListQuerySelectorAll(kids, attrs, items, w)
                 IN  /\ \A e \in Elements :
                           Cardinality({i \in DOMAIN found : found[i] = e})
                             = IF e \in C THEN Cardinality({m \in Above(kids, e) \ {e} : m \in ToSet(items)}) ELSE 0
                     /\ ListQuerySelector(kids, attrs, items, w) = FirstOf(found)
                     /\ (ListQuerySelectorAll(kids, attrs, items, Null) = Refused) = (items # <<>>)
                     /\ ListByAttr(kids, attrs, items, "class", <<w>>)
                           = SelectSeq(found, LAMBDA e : ClassValue(attrs, e) = <<w>>)
                     /\ ListMatches(kids, attrs, items, w) <=> \E e \in ToSet(items) : e \in C
                     /\ (ListElementById(kids, attrs, items, w) # <<>>)
                           = \E e \in Elements, m \in ToSet(items) :
                                 m \in Above(kids, e) \ {e} /\ Attribute(attrs, e, "id") = <<w>>
                     /\ l.kind = "tag" /\ (\A e \in Elements : Attribute(attrs, e, "name") # <<w>>)
                           => NamedItem(attrs, items, w) = ElementById(kids, attrs, Document, w)
=============================================================================
