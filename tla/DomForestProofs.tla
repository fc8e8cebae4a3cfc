-------------------------- MODULE DomForestProofs --------------------------
(***************************************************************************)
(* For any number of nodes and nodes in a list: the lists of children that *)
(* the pointers of a DomTree give change as OrderedForest says.            *)
(*                                                                         *)
(* The proof goes in four parts: what each function of Lexbor's does to    *)
(* the lists of children; what the forest's operators make of a list from  *)
(* its head on; that the steps of a call lead to what it promised when it  *)
(* began; and that what is promised, and every other action, is a step of  *)
(* the forest.                                                             *)
(***************************************************************************)
EXTENDS DomTreeProofs

----------------------------------------------------------------------------
(***************************************************************************)
(* The lists of children, as the pointers give them, and what Lexbor's     *)
(* functions do to them.                                                   *)
(***************************************************************************)
\* The operators of the community modules have a name here and one in OrderedForest.
LEMMA SameNames ==
    ASSUME NEW s, NEW n
    PROVE  /\ Forest!ToSet(s) = ToSet(s)
           /\ Forest!FlattenSeq(s) = FlattenSeq(s)
           /\ Forest!SeqOf(s, n) = SeqOf(s, n)
           /\ Forest!IsInjective(s) = IsInjective(s)
           /\ Forest!RemoveFirst(s, n) = RemoveFirst(s, n)
<1>1. Forest!ToSet(s) = ToSet(s)
  BY DEF Forest!ToSet, ToSet
<1>2. Forest!FlattenSeq(s) = FlattenSeq(s)
  BY DEF Forest!FlattenSeq, FlattenSeq
<1>3. Forest!SeqOf(s, n) = SeqOf(s, n)
  BY DEF Forest!SeqOf, SeqOf
<1>4. Forest!IsInjective(s) = IsInjective(s)
  BY DEF Forest!IsInjective, IsInjective
<1>5. Forest!RemoveFirst(s, n) = RemoveFirst(s, n)
  BY DEF Forest!RemoveFirst, RemoveFirst, Forest!RemoveAt, RemoveAt, Forest!SelectInSeq, SelectInSeq, Forest!Min, Min
<1> QED BY <1>1, <1>2, <1>3, <1>4, <1>5

LEMMA SequencesEqual ==
    ASSUME NEW s \in Seq(Nodes), NEW r \in Seq(Nodes), Len(s) = Len(r), \A i \in 1..Len(s) : s[i] = r[i]
    PROVE  s = r
<1>1. s = [i \in 1..Len(s) |-> s[i]]
  OBVIOUS
<1>2. r = [i \in 1..Len(r) |-> r[i]]
  OBVIOUS
<1> QED BY <1>1, <1>2, Zenon

\* RemoveFirst of an element that is there once, and of one that is not.
LEMMA RemoveInside ==
    ASSUME NEW a \in Seq(Nodes), NEW b \in Seq(Nodes), NEW n \in Nodes, n \notin ToSet(a)
    PROVE  RemoveFirst(a \o <<n>> \o b, n) = a \o b
<1> DEFINE s == a \o <<n>> \o b
           k == Len(a) + 1
           I == {i \in 1..Len(s) : s[i] = n}
<1>1. /\ s \in Seq(Nodes) /\ Len(s) = k + Len(b) /\ k \in 1..Len(s)
      /\ s[k] = n /\ k \in Nat /\ Len(a) = k - 1 /\ Len(b) \in Nat
  OBVIOUS
<1>2. \A i \in 1..Len(s) : i < k => s[i] = a[i] /\ i \in DOMAIN a
  OBVIOUS
<1>3. \A i \in 1..Len(b) : s[k + i] = b[i]
  OBVIOUS
<1> HIDE DEF s, k
<1>4. \A i \in 1..Len(s) : i < k => s[i] # n
  BY <1>2 DEF ToSet
<1>5. SelectInSeq(s, LAMBDA v : v = n) = k
  <2>1. k \in I /\ \A i \in I : k <= i /\ i \in Int
    BY <1>1, <1>4
  <2>2. \A x \in I : (\A y \in I : x <= y) => x = k
    BY <2>1
  <2>3. Min(I) = k
    <3> HIDE DEF I
    <3> QED BY <2>1, <2>2 DEF Min
  <2>4. SelectInSeq(s, LAMBDA v : v = n) = IF I # {} THEN Min(I) ELSE 0
    BY DEF SelectInSeq
  <2> QED BY <2>1, <2>3, <2>4
<1>6. RemoveFirst(s, n) = SubSeq(s, 1, k - 1) \o SubSeq(s, k + 1, Len(s))
  BY <1>1, <1>5 DEF RemoveFirst, RemoveAt
<1>7. SubSeq(s, 1, k - 1) = a
  <2> DEFINE w == SubSeq(s, 1, k - 1)
  <2>1. w \in Seq(Nodes) /\ Len(w) = Len(a) /\ \A i \in 1..Len(a) : w[i] = s[i] /\ s[i] = a[i]
    <3>1. \A i \in 1..(k - 1) : i \in 1..Len(s) /\ i < k /\ s[i] \in Nodes
      BY <1>1
    <3>2. Len(w) = IF 1 <= k - 1 THEN (k - 1) - 1 + 1 ELSE 0
      BY <3>1, <1>1, SubSeqProperties
    <3>3. w \in Seq(Nodes) /\ \A i \in 1..((k - 1) - 1 + 1) : w[i] = s[1 + i - 1]
      BY <3>1, <1>1, SubSeqProperties
    <3>4. Len(w) = k - 1 /\ (k - 1) - 1 + 1 = k - 1 /\ \A i \in 1..(k - 1) : 1 + i - 1 = i
      BY <3>2, <1>1
    <3> HIDE DEF w
    <3>5. \A i \in 1..(k - 1) : w[i] = s[i]
      BY <3>3, <3>4
    <3> QED BY <3>1, <3>3, <3>4, <3>5, <1>1, <1>2
  <2> HIDE DEF w
  <2>2. w \in Seq(Nodes) /\ Len(w) = Len(a) /\ \A i \in 1..Len(w) : w[i] = a[i]
    BY <2>1
  <2>3. w = a
    BY <2>2, SequencesEqual
  <2> QED BY <2>3 DEF w
<1>8. SubSeq(s, k + 1, Len(s)) = b
  <2> DEFINE w == SubSeq(s, k + 1, Len(s))
  <2>1. w \in Seq(Nodes) /\ Len(w) = Len(b) /\ \A i \in 1..Len(b) : w[i] = s[k + i]
    <3>1. \A i \in (k + 1)..Len(s) : s[i] \in Nodes
      BY <1>1
    <3>2. Len(w) = IF k + 1 <= Len(s) THEN Len(s) - (k + 1) + 1 ELSE 0
      BY <3>1, <1>1, SubSeqProperties
    <3>3. w \in Seq(Nodes) /\ \A i \in 1..(Len(s) - (k + 1) + 1) : w[i] = s[(k + 1) + i - 1]
      BY <3>1, <1>1, SubSeqProperties
    <3>4. Len(w) = Len(b) /\ Len(s) - (k + 1) + 1 = Len(b) /\ \A i \in 1..Len(b) : (k + 1) + i - 1 = k + i
      BY <3>2, <1>1
    <3> HIDE DEF w
    <3> QED BY <3>3, <3>4
  <2> HIDE DEF w
  <2>2. w \in Seq(Nodes) /\ Len(w) = Len(b) /\ \A i \in 1..Len(w) : w[i] = b[i]
    BY <2>1, <1>3
  <2>3. w = b
    BY <2>2, SequencesEqual
  <2> QED BY <2>3 DEF w
<1> QED BY <1>6, <1>7, <1>8 DEF s

LEMMA RemoveElsewhere ==
    ASSUME NEW s \in Seq(Nodes), NEW n, n \notin ToSet(s)
    PROVE  RemoveFirst(s, n) = s
<1>1. ~ \E i \in 1..Len(s) : s[i] = n
  BY DEF ToSet
<1> QED BY <1>1 DEF RemoveFirst

\* The concatenation of three sequences, from either end.
Joined(x, y, z) == (x \o y) \o z = x \o (y \o z)

LEMMA ConcatsJoin ==
    ASSUME NEW S, NEW x \in Seq(S), NEW y \in Seq(S), NEW z \in Seq(S)
    PROVE  Joined(x, y, z)
BY ConcatAssociative DEF Joined

\* FlattenSeq, from its head on.
LEMMA FlattenHead ==
    ASSUME NEW S, NEW seqs \in Seq(Seq(S)), seqs # <<>>
    PROVE  FlattenSeq(seqs) = Head(seqs) \o FlattenSeq(Tail(seqs))
<1> DEFINE rest == Tail(seqs)
           n == Len(rest)
           f == CHOOSE f : FlattenEqn(seqs, f)
           g == CHOOSE g : FlattenEqn(rest, g)
           Right(i) == f[i + 1] = seqs[1] \o g[i]
           Bad == {i \in 1..n : ~ Right(i)}
<1>1. rest \in Seq(Seq(S)) /\ n \in Nat /\ Len(seqs) = n + 1 /\ \A i \in 1..n : rest[i] = seqs[i + 1]
  OBVIOUS
<1>2. seqs[1] \in Seq(S) /\ Head(seqs) = seqs[1]
  OBVIOUS
<1>3. FlattenEqn(seqs, f) /\ FlattenEqn(rest, g)
  BY <1>1, FlattenExists
<1> HIDE DEF f, g, rest
<1>4. \A i \in 1..(n + 1) : f[i] = IF i = 1 THEN seqs[i] ELSE f[i - 1] \o seqs[i]
  BY <1>1, <1>3 DEF FlattenEqn
<1>5. \A i \in 1..n : g[i] = IF i = 1 THEN rest[i] ELSE g[i - 1] \o rest[i]
  BY <1>3 DEF FlattenEqn
<1>6. \A i \in 1..n : g[i] \in Seq(S)
  <2> DEFINE Odd == {i \in 1..n : g[i] \notin Seq(S)}
  <2> SUFFICES ASSUME Odd # {} PROVE FALSE
    OBVIOUS
  <2>1. Odd \in SUBSET Nat
    OBVIOUS
  <2>2. PICK i \in Odd : \A j \in Odd : i <= j
    BY <2>1, LeastNumber
  <2>3. i \in 1..n /\ g[i] \notin Seq(S) /\ rest[i] \in Seq(S)
    BY <1>1
  <2>4. i # 1 /\ g[i] = g[i - 1] \o rest[i]
    BY <1>5, <2>3
  <2>5. i - 1 \in 1..n /\ ~ (i <= i - 1)
    BY <1>1, <2>3, <2>4
  <2>6. g[i - 1] \in Seq(S)
    BY <2>2, <2>5
  <2> QED BY <2>3, <2>4, <2>6
<1>7. Bad = {}
  <2> SUFFICES ASSUME Bad # {} PROVE FALSE
    OBVIOUS
  <2>1. Bad \in SUBSET Nat
    <3> HIDE DEF Right
    <3> QED OBVIOUS
  <2>2. PICK i \in Bad : \A j \in Bad : i <= j
    BY <2>1, LeastNumber
  <2>3. i \in 1..n /\ ~ Right(i)
    <3> HIDE DEF Right
    <3> QED BY <2>2
  <2>4. i + 1 \in 1..(n + 1) /\ i + 1 # 1 /\ (i + 1) - 1 = i /\ i \in Nat
    BY <1>1, <2>3
  <2>5. f[i + 1] = f[i] \o rest[i] /\ rest[i] \in Seq(S)
    <3>1. f[i + 1] = f[i] \o seqs[i + 1]
      BY <1>4, <2>4
    <3>2. seqs[i + 1] = rest[i] /\ rest[i] \in Seq(S)
      BY <1>1, <2>3
    <3> QED BY <3>1, <3>2
  <2>6. CASE i = 1
    <3>1. 1 \in 1..(n + 1)
      BY <1>1
    <3>2. f[1] = seqs[1] /\ g[i] = rest[i]
      BY <1>4, <1>5, <2>3, <2>6, <3>1
    <3> QED BY <2>3, <2>5, <2>6, <3>2
  <2>7. CASE i # 1
    <3>1. i - 1 \in 1..n /\ ~ (i <= i - 1) /\ (i - 1) + 1 = i
      BY <1>1, <2>3, <2>7
    <3>2. Right(i - 1)
      <4> HIDE DEF Right
      <4> QED BY <2>2, <3>1
    <3>3. f[i] = seqs[1] \o g[i - 1]
      BY <3>1, <3>2
    <3>4. g[i] = g[i - 1] \o rest[i] /\ g[i - 1] \in Seq(S)
      BY <1>5, <1>6, <2>3, <2>7, <3>1
    <3>5. (seqs[1] \o g[i - 1]) \o rest[i] = seqs[1] \o (g[i - 1] \o rest[i])
      <4> DEFINE x == seqs[1]  y == g[i - 1]  z == rest[i]
      <4>1. x \in Seq(S) /\ y \in Seq(S) /\ z \in Seq(S)
        BY <1>2, <2>5, <3>4
      <4> HIDE DEF x, y, z
      <4>2. Joined(x, y, z)
        BY <4>1, ConcatsJoin
      <4> QED BY <4>2 DEF Joined, x, y, z
    <3> QED BY <2>3, <2>5, <3>3, <3>4, <3>5
  <2> QED BY <2>6, <2>7
<1>8. FlattenSeq(seqs) = f[n + 1]
  BY <1>1, FlattenIs DEF f
<1>9. CASE n = 0
  <2>1. 1 \in 1..(n + 1) /\ n + 1 = 1
    BY <1>9
  <2>2. f[n + 1] = seqs[1]
    BY <1>4, <2>1
  <2>3. FlattenSeq(rest) = rest
    BY <1>9, FlattenIs
  <2>4. rest = <<>>
    BY <1>1, <1>9
  <2>5. seqs[1] \o <<>> = seqs[1]
    BY <1>2, ConcatEmptySeq
  <2> QED BY <1>2, <1>8, <2>2, <2>3, <2>4, <2>5 DEF rest
<1>10. CASE n # 0
  <2>1. n \in 1..n
    BY <1>1, <1>10
  <2>2. FlattenSeq(rest) = g[n]
    BY <1>10, FlattenIs DEF g
  <2>3. Right(n)
    <3> HIDE DEF Right
    <3> QED BY <1>7, <2>1
  <2> QED BY <1>2, <1>8, <2>2, <2>3 DEF rest
<1> QED BY <1>9, <1>10

\* The sequences that g gives for the elements of ns, one after another.
Spread(g, ns) == FlattenSeq([i \in DOMAIN ns |-> g[ns[i]]])

LEMMA SpreadHead ==
    ASSUME NEW g \in [Nodes -> Seq(Nodes)], NEW ns \in Seq(Nodes)
    PROVE  /\ ns = <<>> => Spread(g, ns) = <<>>
           /\ ns # <<>> => Spread(g, ns) = g[Head(ns)] \o Spread(g, Tail(ns))
<1> DEFINE seqs == [i \in DOMAIN ns |-> g[ns[i]]]
<1>1. Len(ns) \in Nat /\ DOMAIN ns = 1..Len(ns) /\ \A i \in 1..Len(ns) : ns[i] \in Nodes
  OBVIOUS
<1>2. seqs \in Seq(Seq(Nodes)) /\ Len(seqs) = Len(ns)
  <2>1. seqs \in [1..Len(ns) -> Seq(Nodes)]
    BY <1>1
  <2> QED BY <2>1, <1>1
<1>3. CASE ns = <<>>
  <2>1. FlattenSeq(seqs) = seqs /\ seqs = <<>>
    <3>1. Len(seqs) = 0
      BY <1>2, <1>3
    <3> HIDE DEF seqs
    <3> QED BY <1>2, <3>1, FlattenIs
  <2> QED BY <1>3, <2>1 DEF Spread
<1>4. CASE ns # <<>>
  <2>1. seqs # <<>> /\ Len(ns) # 0
    BY <1>2, <1>4
  <2>2. FlattenSeq(seqs) = Head(seqs) \o FlattenSeq(Tail(seqs))
    <3> HIDE DEF seqs
    <3> QED BY <1>2, <2>1, FlattenHead
  <2>3. Head(ns) = ns[1] /\ 1 \in 1..Len(ns)
    BY <1>1, <2>1
  <2>4. Head(seqs) = g[Head(ns)]
    <3>1. seqs[1] = g[ns[1]]
      BY <1>1, <2>3
    <3>2. Head(seqs) = seqs[1]
      <4> HIDE DEF seqs
      <4> QED BY <1>2, <2>1
    <3> QED BY <2>3, <3>1, <3>2
  <2>5. /\ Tail(ns) \in Seq(Nodes) /\ Len(Tail(ns)) = Len(ns) - 1
        /\ \A i \in 1..Len(Tail(ns)) : Tail(ns)[i] = ns[i + 1]
    BY <1>4, HeadTailProperties
  <2>6. Tail(seqs) = [i \in DOMAIN Tail(ns) |-> g[Tail(ns)[i]]]
    <3>1. /\ Tail(seqs) \in Seq(Seq(Nodes)) /\ Len(Tail(seqs)) = Len(ns) - 1
          /\ \A i \in 1..Len(Tail(seqs)) : Tail(seqs)[i] = seqs[i + 1]
      <4> HIDE DEF seqs
      <4> QED BY <1>2, <2>1, HeadTailProperties
    <3>2. \A i \in 1..(Len(ns) - 1) : i + 1 \in 1..Len(ns)
      BY <1>1
    <3>3. \A i \in 1..(Len(ns) - 1) : seqs[i + 1] = g[ns[i + 1]]
      BY <3>2, <1>1
    <3> HIDE DEF seqs
    <3>4. \A i \in 1..(Len(ns) - 1) : Tail(seqs)[i] = g[Tail(ns)[i]]
      BY <2>5, <3>1, <3>3
    <3>5. DOMAIN Tail(ns) = 1..(Len(ns) - 1)
      BY <2>5
    <3>6. Tail(seqs) = [i \in 1..(Len(ns) - 1) |-> Tail(seqs)[i]]
      <4> DEFINE w == Tail(seqs)
      <4>1. w \in Seq(Seq(Nodes)) /\ Len(w) = Len(ns) - 1
        BY <3>1
      <4> HIDE DEF w
      <4>2. w = [i \in 1..(Len(ns) - 1) |-> w[i]]
        BY <4>1
      <4> QED BY <4>2 DEF w
    <3>7. [i \in 1..(Len(ns) - 1) |-> Tail(seqs)[i]] = [i \in 1..(Len(ns) - 1) |-> g[Tail(ns)[i]]]
      BY <3>4
    <3> QED BY <3>5, <3>6, <3>7
  <2> QED BY <1>4, <2>2, <2>4, <2>6 DEF Spread
<1> QED BY <1>3, <1>4

LEMMA SpreadType ==
    ASSUME NEW g \in [Nodes -> Seq(Nodes)], NEW ns \in Seq(Nodes)
    PROVE  /\ Spread(g, ns) \in Seq(Nodes)
           /\ ToSet(Spread(g, ns)) = UNION {ToSet(g[ns[i]]) : i \in 1..Len(ns)}
<1> DEFINE seqs == [i \in DOMAIN ns |-> g[ns[i]]]
           All == Nodes \X Nodes
<1>1. Len(ns) \in Nat /\ DOMAIN ns = 1..Len(ns) /\ \A i \in 1..Len(ns) : ns[i] \in Nodes
  OBVIOUS
<1>2. seqs \in Seq(Seq(Nodes)) /\ Len(seqs) = Len(ns)
  <2>1. seqs \in [1..Len(ns) -> Seq(Nodes)]
    BY <1>1
  <2> QED BY <2>1, <1>1
<1>3. \A i \in 1..Len(ns) : seqs[i] = g[ns[i]]
  BY <1>1
<1>4. \A i \in 1..Len(seqs) : seqs[i] \in Seq(Nodes)
  BY <1>1, <1>2, <1>3
<1> HIDE DEF seqs
<1>5. ASSUME NEW s \in Seq(Nodes) PROVE Ordered(All, s) /\ \A x \in ToSet(s) : x \in Nodes
  BY DEF Ordered, ToSet
<1>6. \A i \in 1..Len(seqs) : Ordered(All, seqs[i]) /\ \A x \in ToSet(seqs[i]) : x \in Nodes
  BY <1>4, <1>5
<1>7. \A i, j \in 1..Len(seqs) : i < j => \A x \in ToSet(seqs[i]), y \in ToSet(seqs[j]) : <<x, y>> \in All
  BY <1>6
<1>8. /\ FlattenSeq(seqs) \in Seq(Nodes)
      /\ ToSet(FlattenSeq(seqs)) = UNION {ToSet(seqs[i]) : i \in 1..Len(seqs)}
  <2> HIDE DEF All
  <2> QED BY <1>2, <1>6, <1>7, FlattenIsOrdered
<1>9. FlattenSeq(seqs) = Spread(g, ns)
  BY DEF seqs, Spread
<1>10. UNION {ToSet(seqs[i]) : i \in 1..Len(seqs)} = UNION {ToSet(g[ns[i]]) : i \in 1..Len(ns)}
  BY <1>2, <1>3
<1> QED BY <1>8, <1>9, <1>10

\* Spread depends on what g gives for the elements of ns only.
LEMMA SpreadSame ==
    ASSUME NEW g \in [Nodes -> Seq(Nodes)], NEW h \in [Nodes -> Seq(Nodes)], NEW ns \in Seq(Nodes),
           \A n \in ToSet(ns) : g[n] = h[n]
    PROVE  Spread(g, ns) = Spread(h, ns)
<1>1. \A i \in DOMAIN ns : g[ns[i]] = h[ns[i]]
  BY DEF ToSet
<1>2. [i \in DOMAIN ns |-> g[ns[i]]] = [i \in DOMAIN ns |-> h[ns[i]]]
  BY <1>1
<1> QED BY <1>2 DEF Spread

Keeps(A) == [n \in Nodes |-> IF n \in A THEN <<n>> ELSE <<>>]
Fills(k) == [n \in Nodes |-> IF n \in Fragments THEN k[n] ELSE <<n>>]

\* What is kept of a list, and what a list stands for, are both such sequences.
LEMMA OnlyIsSpread ==
    ASSUME NEW ns \in Seq(Nodes), NEW A
    PROVE  Only(ns, A) = Spread(Keeps(A), ns) /\ Keeps(A) \in [Nodes -> Seq(Nodes)]
<1>1. \A i \in DOMAIN ns : Keeps(A)[ns[i]] = IF ns[i] \in A THEN <<ns[i]>> ELSE <<>>
  BY DEF Keeps
<1>2. [i \in DOMAIN ns |-> Keeps(A)[ns[i]]] = [i \in DOMAIN ns |-> IF ns[i] \in A THEN <<ns[i]>> ELSE <<>>]
  BY <1>1
<1>3. Keeps(A) \in [Nodes -> Seq(Nodes)]
  BY DEF Keeps
<1> QED BY <1>2, <1>3 DEF Only, Spread

LEMMA ContentsIsSpread ==
    ASSUME NEW ns \in Seq(Nodes), NEW k \in [Nodes -> Seq(Nodes)]
    PROVE  Forest!Contents(k, ns) = Spread(Fills(k), ns) /\ Fills(k) \in [Nodes -> Seq(Nodes)]
<1>1. \A i \in DOMAIN ns : Fills(k)[ns[i]] = IF ns[i] \in Fragments THEN k[ns[i]] ELSE <<ns[i]>>
  BY DEF Fills
<1>2. [i \in DOMAIN ns |-> Fills(k)[ns[i]]] = [i \in DOMAIN ns |-> IF ns[i] \in Fragments THEN k[ns[i]] ELSE <<ns[i]>>]
  BY <1>1
<1>3. Fills(k) \in [Nodes -> Seq(Nodes)]
  BY DEF Fills
<1>4. Forest!Contents(k, ns) = FlattenSeq([i \in DOMAIN ns |-> IF ns[i] \in Fragments THEN k[ns[i]] ELSE <<ns[i]>>])
  BY SameNames DEF Forest!Contents
<1> QED BY <1>2, <1>3, <1>4 DEF Spread

\* Only keeps the elements in A, each once if it was there once.
LEMMA OnlyFacts ==
    ASSUME NEW ns \in Seq(Nodes), NEW A, IsInjective(ns)
    PROVE  /\ Only(ns, A) \in Seq(Nodes) /\ IsInjective(Only(ns, A)) /\ Len(Only(ns, A)) <= Len(ns)
           /\ ToSet(Only(ns, A)) = ToSet(ns) \cap A
<1> DEFINE g == Keeps(A)
           R == {p \in Nodes \X Nodes : p[1] # p[2]}
           seqs == [i \in DOMAIN ns |-> g[ns[i]]]
<1>1. Only(ns, A) = Spread(g, ns) /\ g \in [Nodes -> Seq(Nodes)]
  BY OnlyIsSpread
<1>2. Len(ns) \in Nat /\ DOMAIN ns = 1..Len(ns) /\ \A i \in 1..Len(ns) : ns[i] \in Nodes
  OBVIOUS
<1>3. \A i \in 1..Len(ns) : g[ns[i]] = IF ns[i] \in A THEN <<ns[i]>> ELSE <<>>
  BY <1>2 DEF Keeps
<1> HIDE DEF g
<1>4. seqs \in Seq(Seq(Nodes)) /\ Len(seqs) = Len(ns) /\ \A i \in 1..Len(ns) : seqs[i] = g[ns[i]]
  <2>1. seqs \in [1..Len(ns) -> Seq(Nodes)]
    BY <1>1, <1>2
  <2> QED BY <2>1, <1>2
<1>5. FlattenSeq(seqs) = Only(ns, A)
  BY <1>1 DEF Spread
<1> HIDE DEF seqs
<1>6. \A i \in 1..Len(ns) : ToSet(seqs[i]) = {ns[i]} \cap A /\ Len(seqs[i]) <= 1 /\ Len(seqs[i]) \in Nat
  <2> SUFFICES ASSUME NEW i \in 1..Len(ns)
               PROVE  ToSet(seqs[i]) = {ns[i]} \cap A /\ Len(seqs[i]) <= 1 /\ Len(seqs[i]) \in Nat
    OBVIOUS
  <2>1. CASE ns[i] \in A
    <3>1. seqs[i] = <<ns[i]>>
      BY <1>3, <1>4, <2>1
    <3> QED BY <2>1, <3>1 DEF ToSet
  <2>2. CASE ns[i] \notin A
    <3>1. seqs[i] = <<>>
      BY <1>3, <1>4, <2>2
    <3> QED BY <2>2, <3>1 DEF ToSet
  <2> QED BY <2>1, <2>2
<1>7. \A i \in 1..Len(seqs) : Ordered(R, seqs[i])
  <2> SUFFICES ASSUME NEW i \in 1..Len(seqs), NEW a \in 1..Len(seqs[i]), NEW b \in 1..Len(seqs[i]), a < b PROVE FALSE
    BY DEF Ordered
  <2>1. Len(seqs[i]) <= 1 /\ Len(seqs[i]) \in Nat
    BY <1>4, <1>6
  <2> QED BY <2>1
<1>8. \A i, j \in 1..Len(seqs) : i < j => \A x \in ToSet(seqs[i]), y \in ToSet(seqs[j]) : <<x, y>> \in R
  <2> SUFFICES ASSUME NEW i \in 1..Len(seqs), NEW j \in 1..Len(seqs), i < j,
                      NEW x \in ToSet(seqs[i]), NEW y \in ToSet(seqs[j])
               PROVE  <<x, y>> \in R
    OBVIOUS
  <2>1. x = ns[i] /\ y = ns[j]
    BY <1>4, <1>6
  <2>2. i \in DOMAIN ns /\ j \in DOMAIN ns /\ i # j
    BY <1>2, <1>4
  <2>3. x # y /\ x \in Nodes /\ y \in Nodes
    BY <1>2, <1>4, <2>1, <2>2 DEF IsInjective
  <2> QED BY <2>3
<1>9. /\ FlattenSeq(seqs) \in Seq(Nodes) /\ Ordered(R, FlattenSeq(seqs))
      /\ ToSet(FlattenSeq(seqs)) = UNION {ToSet(seqs[i]) : i \in 1..Len(seqs)}
  <2> HIDE DEF R
  <2> QED BY <1>4, <1>7, <1>8, FlattenIsOrdered
<1>10. ToSet(Only(ns, A)) = ToSet(ns) \cap A
  <2>1. UNION {ToSet(seqs[i]) : i \in 1..Len(seqs)} = {ns[i] : i \in 1..Len(ns)} \cap A
    BY <1>4, <1>6
  <2> QED BY <1>2, <1>5, <1>9, <2>1 DEF ToSet
<1>11. IsInjective(Only(ns, A))
  <2> DEFINE s == Only(ns, A)
  <2>1. s \in Seq(Nodes) /\ \A i, j \in 1..Len(s) : i < j => <<s[i], s[j]>> \in R
    BY <1>5, <1>9 DEF Ordered
  <2>2. \A i, j \in 1..Len(s) : i < j => s[i] # s[j]
    BY <2>1
  <2>3. DOMAIN s = 1..Len(s) /\ Len(s) \in Nat
    BY <2>1
  <2> HIDE DEF s
  <2>4. \A i, j \in DOMAIN s : i # j => i < j \/ j < i
    BY <2>3
  <2>5. \A i, j \in DOMAIN s : s[i] = s[j] => i = j
    BY <2>2, <2>3, <2>4
  <2>6. IsInjective(s)
    BY <2>5 DEF IsInjective
  <2> QED BY <2>6 DEF s
<1>12. Len(Only(ns, A)) <= Len(ns)
  <2> DEFINE s == Only(ns, A)
  <2>1. s \in Seq(Nodes) /\ IsInjective(s) /\ ToSet(s) \subseteq ToSet(ns) /\ DOMAIN s = 1..Len(s) /\ Len(s) \in Nat
    BY <1>5, <1>9, <1>10, <1>11
  <2> HIDE DEF s
  <2>2. \A i \in 1..Len(s) : \E j \in 1..Len(ns) : ns[j] = s[i]
    BY <1>2, <2>1 DEF ToSet
  <2> DEFINE f == [i \in 1..Len(s) |-> CHOOSE j \in 1..Len(ns) : ns[j] = s[i]]
  <2>3. \A i \in 1..Len(s) : f[i] \in 1..Len(ns) /\ ns[f[i]] = s[i]
    BY <2>2
  <2>4. f \in [1..Len(s) -> 1..Len(ns)]
    BY <2>3
  <2> HIDE DEF f
  <2>5. \A i, j \in 1..Len(s) : f[i] = f[j] => i = j
    BY <2>1, <2>3 DEF IsInjective
  <2>6. f \in Injection(1..Len(s), 1..Len(ns))
    BY <2>4, <2>5 DEF Injection, IsInjective
  <2>7. /\ IsFiniteSet(1..Len(ns)) /\ Cardinality(1..Len(ns)) = Len(ns)
        /\ IsFiniteSet(1..Len(s)) /\ Cardinality(1..Len(s)) = Len(s)
    <3>1. \A n \in Nat : IsFiniteSet(1..n) /\ Cardinality(1..n) = n
      <4> SUFFICES ASSUME NEW n \in Nat PROVE IsFiniteSet(1..n) /\ Cardinality(1..n) = n
        OBVIOUS
      <4>1. 1..n = 1..n /\ (1 <= n => n - 1 + 1 = n) /\ (1 > n => n = 0)
        OBVIOUS
      <4> QED BY <4>1, FS_Interval
    <3> QED BY <3>1, <1>2, <2>1
  <2>8. Len(s) <= Len(ns)
    BY <2>6, <2>7, FS_Injection
  <2> QED BY <2>8 DEF s
<1> QED BY <1>5, <1>9, <1>10, <1>11, <1>12

\* Two lists of the children of p agree where both are defined, so that they are one.
LEMMA KidsStart ==
    ASSUME NEW u \in Links, NEW p, NEW s, NEW r, IsKids(u, p, s), IsKids(u, p, r)
    PROVE  /\ s \in Seq(Nodes) /\ r \in Seq(Nodes)
           /\ \A i \in 1..Len(s) : i \in 1..Len(r) /\ s[i] = r[i]
<1> DEFINE Good(i) == i \in 1..Len(r) /\ s[i] = r[i]
           Bad == {i \in 1..Len(s) : ~ Good(i)}
<1>1. /\ s \in Seq(Nodes) /\ r \in Seq(Nodes) /\ Len(s) \in Nat /\ Len(r) \in Nat
      /\ s # <<>> => s[1] = u.first_child[p]
      /\ r = <<>> => u.first_child[p] = Null
      /\ r # <<>> => r[1] = u.first_child[p] /\ u.next[r[Len(r)]] = Null
      /\ \A i \in 1..(Len(s) - 1) : u.next[s[i]] = s[i + 1]
      /\ \A i \in 1..(Len(r) - 1) : u.next[r[i]] = r[i + 1]
  BY DEF IsKids
<1>2. \A i \in 1..Len(s) : s[i] \in Nodes /\ s[i] # Null
  BY <1>1, NodesAssumption
<1>3. Bad = {}
  <2> SUFFICES ASSUME Bad # {} PROVE FALSE
    OBVIOUS
  <2>1. Bad \in SUBSET Nat
    <3> HIDE DEF Good
    <3> QED OBVIOUS
  <2>2. PICK i \in Bad : \A j \in Bad : i <= j
    BY <2>1, LeastNumber
  <2>3. i \in 1..Len(s) /\ ~ Good(i) /\ i \in Nat
    <3> HIDE DEF Good
    <3> QED BY <2>1, <2>2
  <2>4. CASE i = 1
    <3>1. s # <<>>
      BY <1>1, <2>3, <2>4
    <3>2. r # <<>>
      BY <1>1, <1>2, <2>3, <2>4, <3>1
    <3>3. 1 \in 1..Len(r)
      BY <1>1, <3>2
    <3> QED BY <1>1, <2>3, <2>4, <3>1, <3>2, <3>3
  <2>5. CASE i # 1
    <3>1. i - 1 \in 1..Len(s) /\ i - 1 \in 1..(Len(s) - 1) /\ (i - 1) + 1 = i /\ ~ (i <= i - 1)
      BY <1>1, <2>3, <2>5
    <3>2. Good(i - 1)
      <4> HIDE DEF Good
      <4> QED BY <2>2, <3>1
    <3>3. u.next[r[i - 1]] = s[i] /\ s[i] # Null
      BY <1>1, <1>2, <2>3, <3>1, <3>2
    <3>4. r # <<>> /\ i - 1 # Len(r)
      BY <1>1, <3>2, <3>3
    <3>5. i - 1 \in 1..(Len(r) - 1) /\ i \in 1..Len(r)
      BY <1>1, <2>3, <3>2, <3>4
    <3>6. r[i] = s[i]
      BY <1>1, <3>1, <3>3, <3>5
    <3> QED BY <2>3, <3>5, <3>6
  <2> QED BY <2>4, <2>5
<1> QED BY <1>1, <1>3

LEMMA KidsUnique ==
    ASSUME NEW u \in Links, NEW p, NEW s, NEW r, IsKids(u, p, s), IsKids(u, p, r)
    PROVE  s = r
<1>1. /\ s \in Seq(Nodes) /\ r \in Seq(Nodes)
      /\ \A i \in 1..Len(s) : i \in 1..Len(r) /\ s[i] = r[i]
  BY KidsStart
<1>2. \A i \in 1..Len(r) : i \in 1..Len(s)
  BY KidsStart
<1>3. Len(s) = Len(r)
  <2> DEFINE m == Len(s)  n == Len(r)
  <2>1. m \in Nat /\ n \in Nat /\ (\A i \in 1..m : i \in 1..n) /\ (\A i \in 1..n : i \in 1..m)
    BY <1>1, <1>2
  <2> HIDE DEF m, n
  <2>2. (m = 0 \/ m \in 1..m) /\ (n = 0 \/ n \in 1..n)
    BY <2>1
  <2>3. m <= n /\ n <= m
    BY <2>1, <2>2
  <2>4. m = n
    BY <2>1, <2>3
  <2> QED BY <2>4 DEF m, n
<1> QED BY <1>1, <1>3, SequencesEqual

\* The children of p are s where they are so by their pointers.
LEMMA KidsAre ==
    ASSUME NEW u \in Links, NEW F \in SUBSET Nodes, NEW M \in SUBSET Nodes, Shape(u, F, M), NEW p \in Nodes \ F,
           NEW s, IsKids(u, p, s)
    PROVE  Kids(u, p) = s
<1>1. Linked(u, F, M) /\ Rising(u, M)
  BY DEF Shape
<1>2. IsKids(u, p, Kids(u, p))
  BY <1>1, KidsInOrder
<1> QED BY <1>2, KidsUnique

\* The children of p are the same where p's and their own pointers are.
LEMMA SameKids ==
    ASSUME NEW u \in Links, NEW F \in SUBSET Nodes, NEW M \in SUBSET Nodes, Shape(u, F, M),
           NEW v \in Links, NEW G \in SUBSET Nodes, NEW N \in SUBSET Nodes, Shape(v, G, N),
           NEW p \in Nodes \ (F \cup G), v.first_child[p] = u.first_child[p],
           \A k \in Nodes : u.parent[k] = p => v.parent[k] = p /\ v.next[k] = u.next[k]
    PROVE  Kids(v, p) = Kids(u, p)
<1> DEFINE s == Kids(u, p)
<1>1. Linked(u, F, M) /\ Rising(u, M) /\ p \in Nodes \ F /\ p \in Nodes \ G
  BY DEF Shape
<1>2. IsKids(u, p, s)
  BY <1>1, KidsInOrder
<1> HIDE DEF s
<1>3. s \in Seq(Nodes) /\ Len(s) \in Nat /\ \A i \in 1..Len(s) : s[i] \in Nodes /\ u.parent[s[i]] = p
  BY <1>2 DEF IsKids
<1>4. \A i \in 1..Len(s) : v.parent[s[i]] = p /\ v.next[s[i]] = u.next[s[i]]
  BY <1>3
<1>5. (s # <<>> => Len(s) \in 1..Len(s)) /\ \A i \in 1..(Len(s) - 1) : i \in 1..Len(s)
  BY <1>3
<1>6. IsKids(v, p, s)
  BY <1>2, <1>3, <1>4, <1>5 DEF IsKids
<1>7. Kids(v, p) = s
  BY <1>1, <1>6, KidsAre
<1> QED BY <1>7 DEF s

\* The lengths and elements of a sequence and of one with n put into it.
LEMMA Pieces ==
    ASSUME NEW a \in Seq(Nodes), NEW b \in Seq(Nodes), NEW n \in Nodes, NEW s, s = a \o b, NEW w, w = a \o <<n>> \o b
    PROVE  /\ s \in Seq(Nodes) /\ Len(s) = Len(a) + Len(b) /\ Len(a) \in Nat /\ Len(b) \in Nat
           /\ w \in Seq(Nodes) /\ Len(w) = Len(a) + 1 + Len(b)
           /\ \A i \in 1..Len(a) : s[i] = a[i] /\ w[i] = a[i]
           /\ \A i \in 1..Len(b) : s[Len(a) + i] = b[i] /\ w[Len(a) + 1 + i] = b[i]
           /\ w[Len(a) + 1] = n
OBVIOUS

\* What the pointers say of the children of a node that gets one more.
LEMMA KidsWithOneMore ==
    ASSUME NEW u \in Links, NEW v \in Links, NEW to \in Nodes, NEW n \in Nodes,
           NEW a \in Seq(Nodes), NEW b \in Seq(Nodes), IsKids(u, to, a \o b), IsInjective(a \o b),
           v.parent[n] = to, \A k \in Nodes : u.parent[k] = to => v.parent[k] = to,
           v.next[n] = IF b = <<>> THEN Null ELSE b[1],
           v.first_child[to] = IF a = <<>> THEN n ELSE a[1],
           a # <<>> => v.next[a[Len(a)]] = n,
           \A k \in Nodes : u.parent[k] = to /\ (a = <<>> \/ k # a[Len(a)]) => v.next[k] = u.next[k]
    PROVE  IsKids(v, to, a \o <<n>> \o b)
<1> DEFINE s == a \o b
           w == a \o <<n>> \o b
           la == Len(a)
           lb == Len(b)
<1>1. /\ s \in Seq(Nodes) /\ Len(s) = la + lb /\ la \in Nat /\ lb \in Nat
      /\ w \in Seq(Nodes) /\ Len(w) = la + 1 + lb
      /\ \A i \in 1..la : s[i] = a[i] /\ w[i] = a[i]
      /\ \A i \in 1..lb : s[la + i] = b[i] /\ w[la + 1 + i] = b[i]
      /\ w[la + 1] = n
  BY Pieces
<1>2. /\ s # <<>> => s[1] = u.first_child[to] /\ u.next[s[Len(s)]] = Null
      /\ \A i \in 1..(Len(s) - 1) : u.next[s[i]] = s[i + 1]
      /\ \A i \in 1..Len(s) : u.parent[s[i]] = to
  BY DEF IsKids
<1>3. \A i, j \in 1..Len(s) : s[i] = s[j] => i = j
  <2>1. DOMAIN s = 1..Len(s)
    BY <1>1
  <2> QED BY <2>1 DEF IsInjective
<1>4. a = <<>> <=> la = 0
  OBVIOUS
<1>5. b = <<>> <=> lb = 0
  OBVIOUS
<1> DEFINE x == a[la]
           y == b[1]
           Turns(k) == v.next[k] = u.next[k]
<1>6. v.next[n] = (IF lb = 0 THEN Null ELSE y) /\ (la # 0 => v.next[x] = n)
  BY <1>4, <1>5
<1>7. \A k \in Nodes : u.parent[k] = to /\ (la = 0 \/ k # x) => Turns(k)
  BY <1>4
<1>8. v.first_child[to] = IF la = 0 THEN n ELSE a[1]
  BY <1>4
<1>9. \A i \in 1..Len(s) : s[i] \in Nodes
  BY <1>1
<1> HIDE DEF s, w, la, lb, y
<1>10. \A i \in 1..Len(s) : la = 0 \/ i # la => Turns(s[i])
  <2> SUFFICES ASSUME NEW i \in 1..Len(s), la = 0 \/ i # la PROVE Turns(s[i])
    OBVIOUS
  <2>1. la = 0 \/ s[i] # x
    <3> SUFFICES ASSUME la # 0 PROVE s[i] # x
      OBVIOUS
    <3>1. la \in 1..la /\ la \in 1..Len(s)
      BY <1>1
    <3>2. s[la] = x
      BY <1>1, <3>1
    <3> QED BY <1>3, <3>1, <3>2
  <2>2. s[i] \in Nodes /\ u.parent[s[i]] = to
    BY <1>2, <1>9
  <2> HIDE DEF Turns, x
  <2> QED BY <1>7, <2>1, <2>2
<1> HIDE DEF x
<1>11. ASSUME NEW i \in 1..(Len(w) - 1) PROVE v.next[w[i]] = w[i + 1]
  <2>1. CASE i < la
    <3>1. i \in 1..la /\ i + 1 \in 1..la /\ i \in 1..Len(s) /\ i \in 1..(Len(s) - 1) /\ i # la
      BY <1>1, <2>1
    <3>2. w[i] = s[i] /\ w[i + 1] = s[i + 1]
      BY <1>1, <3>1
    <3>3. Turns(s[i])
      <4> HIDE DEF Turns
      <4> QED BY <1>10, <3>1
    <3>4. u.next[s[i]] = s[i + 1]
      BY <1>2, <3>1
    <3> QED BY <3>2, <3>3, <3>4
  <2>2. CASE i = la
    <3>1. la # 0 /\ la \in 1..la
      BY <1>1, <2>2
    <3>2. w[i] = x
      BY <1>1, <2>2, <3>1 DEF x
    <3>3. w[i + 1] = n
      BY <1>1, <2>2
    <3> QED BY <1>6, <3>1, <3>2, <3>3
  <2>3. CASE i = la + 1
    <3>1. lb # 0 /\ 1 \in 1..lb /\ i + 1 = la + 1 + 1
      BY <1>1, <2>3
    <3>2. w[la + 1 + 1] = y
      BY <1>1, <3>1 DEF y
    <3>3. w[i] = n
      BY <1>1, <2>3
    <3> QED BY <1>6, <3>1, <3>2, <3>3
  <2>4. CASE i > la + 1
    <3> DEFINE j == i - (la + 1)
    <3>1. /\ j \in 1..lb /\ j + 1 \in 1..lb /\ la + 1 + j = i /\ la + 1 + (j + 1) = i + 1
          /\ la + j \in 1..Len(s) /\ la + j \in 1..(Len(s) - 1) /\ la + (j + 1) = (la + j) + 1 /\ la + j # la
      BY <1>1, <2>4
    <3> HIDE DEF j
    <3>2. w[la + 1 + j] = b[j] /\ w[la + 1 + (j + 1)] = b[j + 1] /\ s[la + j] = b[j] /\ s[la + (j + 1)] = b[j + 1]
      BY <1>1, <3>1
    <3>3. w[i] = s[la + j] /\ w[i + 1] = s[(la + j) + 1]
      BY <3>1, <3>2
    <3>4. Turns(s[la + j])
      <4> HIDE DEF Turns
      <4> QED BY <1>10, <3>1
    <3>5. u.next[s[la + j]] = s[(la + j) + 1]
      BY <1>2, <3>1
    <3> QED BY <3>3, <3>4, <3>5
  <2>5. i < la \/ i = la \/ i = la + 1 \/ i > la + 1
    <3>1. i \in Int /\ la \in Int
      BY <1>1
    <3> QED BY <3>1
  <2> QED BY <2>1, <2>2, <2>3, <2>4, <2>5
<1>12. ASSUME NEW i \in 1..Len(w) PROVE v.parent[w[i]] = to
  <2>1. CASE i <= la
    <3>1. i \in 1..la /\ i \in 1..Len(s)
      BY <1>1, <2>1
    <3>2. w[i] = s[i]
      BY <1>1, <3>1
    <3> QED BY <1>2, <1>9, <3>1, <3>2
  <2>2. CASE i = la + 1
    BY <1>1, <2>2
  <2>3. CASE i > la + 1
    <3> DEFINE j == i - (la + 1)
    <3>1. j \in 1..lb /\ la + 1 + j = i /\ la + j \in 1..Len(s)
      BY <1>1, <2>3
    <3> HIDE DEF j
    <3>2. w[i] = s[la + j]
      <4>1. w[la + 1 + j] = b[j] /\ s[la + j] = b[j]
        BY <1>1, <3>1
      <4> QED BY <3>1, <4>1
    <3> QED BY <1>2, <1>9, <3>1, <3>2
  <2>4. i <= la \/ i = la + 1 \/ i > la + 1
    BY <1>1
  <2> QED BY <2>1, <2>2, <2>3, <2>4
<1>13. w # <<>>
  BY <1>1
<1>14. w[1] = v.first_child[to]
  <2>1. CASE la = 0
    <3>1. la + 1 = 1
      BY <2>1
    <3> QED BY <1>1, <1>8, <2>1, <3>1
  <2>2. CASE la # 0
    <3>1. 1 \in 1..la
      BY <1>1, <2>2
    <3> QED BY <1>1, <1>8, <2>2, <3>1
  <2> QED BY <2>1, <2>2
<1>15. v.next[w[Len(w)]] = Null
  <2>1. CASE lb = 0
    <3>1. Len(w) = la + 1
      BY <1>1, <2>1
    <3> QED BY <1>1, <1>6, <2>1, <3>1
  <2>2. CASE lb # 0
    <3>1. lb \in 1..lb /\ Len(w) = la + 1 + lb /\ Len(s) = la + lb /\ Len(s) \in 1..Len(s) /\ Len(s) # la
      BY <1>1, <2>2
    <3>2. w[Len(w)] = s[Len(s)]
      <4>1. w[la + 1 + lb] = b[lb] /\ s[la + lb] = b[lb]
        BY <1>1, <3>1
      <4> QED BY <3>1, <4>1
    <3>3. Turns(s[Len(s)])
      <4> HIDE DEF Turns
      <4> QED BY <1>10, <3>1
    <3>4. s # <<>>
      BY <3>1
    <3>5. u.next[s[Len(s)]] = Null
      BY <1>2, <3>4
    <3> QED BY <3>2, <3>3, <3>5
  <2> QED BY <2>1, <2>2
<1>16. IsKids(v, to, w)
  BY <1>1, <1>11, <1>12, <1>13, <1>14, <1>15 DEF IsKids
<1> QED BY <1>16 DEF w

\* The children of p are a, then b; in v with n between them, and the others as they are.
KidsAround(u, p, a, b) == IsKids(u, p, a \o b)
KidsWith(u, v, F, p, a, n, b) ==
    /\ IsKids(v, p, a \o <<n>> \o b)
    /\ \A m \in Nodes \ F : m # p => Kids(v, m) = Kids(u, m)

\* Lexbor's insertion puts n between the children before its place and those after it.
LEMMA PutKids ==
    ASSUME NEW u \in Links, NEW F \in SUBSET Nodes, NEW M \in SUBSET Nodes, Shape(u, F, M),
           NEW n \in Nodes, n \in M \/ Loose(u, n), NEW to \in Nodes \ F, to \notin Subtree(u, n),
           NEW anchor \in Nodes \cup {Null},
           anchor # Null => anchor # n /\ u.parent[anchor] = to,
           NEW v, v = Placed(u, to, anchor, n),
           NEW a \in Seq(Nodes), NEW b \in Seq(Nodes), KidsAround(u, to, a, b),
           anchor = Null => b = <<>>, anchor # Null => b # <<>> /\ b[1] = anchor
    PROVE  KidsWith(u, v, F, to, a, n, b)
<1>0. IsKids(u, to, a \o b)
  BY DEF KidsAround
<1> DEFINE N == Less(M, n)
           s == a \o b
           la == Len(a)
<1>1. v \in Links /\ Shape(v, F, N) /\ Moved(u, v, n, to) /\ N \in SUBSET Nodes
  BY PutShape DEF Less
<1>2. Linked(u, F, M) /\ Rising(u, M)
  BY DEF Shape
<1>3. n # to /\ u.parent[n] \in F \cup {Null}
  <2>1. n \in Subtree(u, n)
    BY SubtreeIsClosed
  <2>2. u.parent[n] \in F \cup {Null}
    BY <1>2 DEF Linked, EndsAgree, Loose
  <2> QED BY <2>1, <2>2
<1>4. IsKids(u, to, s) /\ IsInjective(s)
  <2>1. Kids(u, to) = s
    BY <1>0, KidsAre
  <2> QED BY <1>2, <2>1, KidsInOrder
<1>5. \A k \in Nodes \ F : k # Null
  BY NodesAssumption
<1>7. \A k \in Nodes : u.parent[k] \in Nodes \ F => k \notin M /\ k # n
  BY <1>2, <1>3, <1>5 DEF Linked, EndsAgree
<1>8. /\ s \in Seq(Nodes) /\ la \in Nat /\ Len(b) \in Nat /\ Len(s) = la + Len(b)
      /\ \A i \in 1..la : s[i] = a[i]
      /\ \A i \in 1..Len(b) : s[la + i] = b[i]
  OBVIOUS
<1>9. /\ s = <<>> => u.first_child[to] = Null
      /\ s # <<>> => s[1] = u.first_child[to] /\ u.next[s[Len(s)]] = Null
      /\ \A i \in 1..(Len(s) - 1) : u.next[s[i]] = s[i + 1]
      /\ \A i \in 1..Len(s) : u.parent[s[i]] = to /\ s[i] \in Nodes
  BY <1>4, <1>8 DEF IsKids
<1>10. v.parent[n] = to /\ \A k \in Nodes : u.parent[k] = to => v.parent[k] = to
  BY <1>1 DEF Moved
<1> DEFINE before == IF a = <<>> THEN Null ELSE a[la]
<1>11. before # Null => a # <<>>
  OBVIOUS
<1>12. a # <<>> => la \in 1..Len(s) /\ s[la] = a[la] /\ s # <<>> /\ s[1] = a[1] /\ before = a[la] /\ a[la] \in Nodes
  <2> SUFFICES ASSUME a # <<>>
               PROVE  la \in 1..Len(s) /\ s[la] = a[la] /\ s # <<>> /\ s[1] = a[1] /\ a[la] \in Nodes
    OBVIOUS
  <2>1. la \in 1..la /\ 1 \in 1..la /\ la \in 1..Len(s)
    BY <1>8
  <2>2. s # <<>>
    BY <1>8, <2>1
  <2> QED BY <1>8, <2>1, <2>2
<1>13. a # <<>> => u.parent[before] = to /\ before # Null /\ before # n /\ before \notin M /\ u.first_child[to] = a[1]
  <2> SUFFICES ASSUME a # <<>>
               PROVE u.parent[before] = to /\ before # Null /\ before # n /\ before \notin M /\ u.first_child[to] = a[1]
    OBVIOUS
  <2>1. u.parent[s[la]] = to /\ s[la] \in Nodes
    BY <1>9, <1>12
  <2>2. before = s[la]
    BY <1>12
  <2> HIDE DEF before
  <2> QED BY <1>7, <1>9, <1>12, <2>1, <2>2, NodesAssumption
<1> HIDE DEF before, s, la
<1>14. /\ v.next = [m \in Nodes |-> IF m = n THEN (IF b = <<>> THEN Null ELSE b[1])
                                   ELSE IF m = before THEN n ELSE u.next[m]]
       /\ v.first_child = IF a = <<>> THEN [u.first_child EXCEPT ![to] = n] ELSE u.first_child
  <2>1. CASE anchor = Null
    <3>1. v = InsertChild(u, to, n) /\ b = <<>> /\ s = a
      <4>1. a \o <<>> = a
        BY ConcatEmptySeq
      <4> QED BY <2>1, <4>1 DEF Placed, s
    <3>2. u.last_child[to] = before
      <4>1. CASE a = <<>>
        <5>1. u.first_child[to] = Null
          BY <1>9, <3>1, <4>1
        <5>2. u.last_child[to] = Null
          BY <1>2, <5>1 DEF Linked, ParentsAgree
        <5> QED BY <4>1, <5>2 DEF before
      <4>2. CASE a # <<>>
        <5>1. u.next[before] = Null
          BY <1>9, <1>12, <3>1, <4>2 DEF la
        <5>2. before \in Nodes
          BY <1>12, <4>2
        <5> QED BY <1>2, <1>5, <1>13, <4>2, <5>1, <5>2, NodesAssumption DEF Linked, EndsAgree
      <4> QED BY <4>1, <4>2
    <3>3. a = <<>> <=> before = Null
      BY <1>13 DEF before
    <3> QED BY <3>1, <3>2, <3>3 DEF InsertChild
  <2>2. CASE anchor # Null
    <3>1. v = InsertBefore(u, anchor, n) /\ b # <<>> /\ b[1] = anchor /\ u.parent[anchor] = to /\ anchor \in Nodes
      BY <2>2 DEF Placed
    <3>2. anchor \notin M
      BY <1>7, <3>1
    <3>3. 1 \in 1..Len(b) /\ s[la + 1] = anchor
      BY <1>8, <3>1
    <3>4. u.prev[anchor] = before
      <4>1. CASE a = <<>>
        <5>1. la = 0
          BY <4>1 DEF la
        <5>2. s[1] = anchor /\ s # <<>>
          BY <1>8, <3>3, <5>1
        <5>3. u.first_child[to] = anchor
          BY <1>9, <5>2
        <5>4. u.prev[anchor] = Null
          BY <1>2, <2>2, <5>3 DEF Linked, ParentsAgree
        <5> QED BY <4>1, <5>4 DEF before
      <4>2. CASE a # <<>>
        <5>1. la \in 1..(Len(s) - 1)
          BY <1>8, <1>12, <3>3, <4>2
        <5>2. u.next[s[la]] = anchor
          BY <1>9, <3>3, <5>1
        <5>3. u.next[before] = anchor /\ before \in Nodes /\ before \notin M
          BY <1>12, <1>13, <4>2, <5>2
        <5> QED BY <1>2, <2>2, <5>3 DEF Linked, SiblingsAgree
      <4> QED BY <4>1, <4>2
    <3>5. a = <<>> <=> before = Null
      BY <1>13 DEF before
    <3>6. to # Null
      BY <1>5
    <3> QED BY <3>1, <3>4, <3>5, <3>6 DEF InsertBefore
  <2> QED BY <2>1, <2>2
<1>15. IsKids(v, to, a \o <<n>> \o b)
  <2>1. v.next[n] = IF b = <<>> THEN Null ELSE b[1]
    BY <1>14
  <2>2. v.first_child[to] = IF a = <<>> THEN n ELSE a[1]
    BY <1>13, <1>14 DEF Links, Pointers
  <2>3. a # <<>> => v.next[a[Len(a)]] = n
    BY <1>12, <1>13, <1>14 DEF la
  <2>4. \A k \in Nodes : u.parent[k] = to /\ (a = <<>> \/ k # a[Len(a)]) => v.next[k] = u.next[k]
    <3>1. \A k \in Nodes : u.parent[k] = to => k # n /\ k # Null
      BY <1>7, NodesAssumption
    <3>2. \A k \in Nodes : (a = <<>> \/ k # a[Len(a)]) => k # before
      BY NodesAssumption DEF before, la
    <3> QED BY <1>14, <3>1, <3>2
  <2>5. IsKids(u, to, a \o b) /\ IsInjective(a \o b)
    BY <1>4 DEF s
  <2> QED BY <1>1, <1>10, <2>1, <2>2, <2>3, <2>4, <2>5, KidsWithOneMore
<1>16. ASSUME NEW m \in Nodes \ F, m # to PROVE Kids(v, m) = Kids(u, m)
  <2>1. v.first_child[m] = u.first_child[m]
    BY <1>14, <1>16 DEF Links, Pointers
  <2>2. ASSUME NEW k \in Nodes, u.parent[k] = m PROVE v.parent[k] = m /\ v.next[k] = u.next[k]
    <3>1. k # n /\ k # before
      <4>1. k # n
        BY <1>7, <2>2
      <4>2. k # before
        BY <1>13, <1>16, <2>2, NodesAssumption DEF before
      <4> QED BY <4>1, <4>2
    <3> QED BY <1>1, <1>14, <2>2, <3>1 DEF Moved
  <2>3. m \in Nodes \ (F \cup F)
    OBVIOUS
  <2> QED BY <1>1, <2>1, <2>2, <2>3, SameKids
<1> QED BY <1>15, <1>16 DEF KidsWith

\* A sequence with what is before one of its elements and what is after it.
LEMMA SplitAt ==
    ASSUME NEW s \in Seq(Nodes), NEW k \in 1..Len(s)
    PROVE  \E a, b \in Seq(Nodes) : /\ s = a \o <<s[k]>> \o b
                                    /\ Len(a) = k - 1 /\ a = SubSeq(s, 1, k - 1) /\ b = SubSeq(s, k + 1, Len(s))
<1> DEFINE a == SubSeq(s, 1, k - 1)
           b == SubSeq(s, k + 1, Len(s))
           w == a \o <<s[k]>> \o b
<1>1. Len(s) \in Nat /\ k \in Nat /\ 1 <= k /\ k <= Len(s) /\ \A i \in 1..Len(s) : s[i] \in Nodes
  OBVIOUS
<1>2. a \in Seq(Nodes) /\ Len(a) = k - 1 /\ \A i \in 1..(k - 1) : a[i] = s[i]
  <2>1. \A i \in 1..(k - 1) : s[i] \in Nodes
    BY <1>1
  <2>2. Len(a) = IF 1 <= k - 1 THEN (k - 1) - 1 + 1 ELSE 0
    BY <2>1, <1>1, SubSeqProperties
  <2>3. a \in Seq(Nodes) /\ \A i \in 1..((k - 1) - 1 + 1) : a[i] = s[1 + i - 1]
    BY <2>1, <1>1, SubSeqProperties
  <2>4. Len(a) = k - 1 /\ (k - 1) - 1 + 1 = k - 1 /\ \A i \in 1..(k - 1) : 1 + i - 1 = i
    BY <2>2, <1>1
  <2> HIDE DEF a
  <2> QED BY <2>3, <2>4
<1>3. b \in Seq(Nodes) /\ Len(b) = Len(s) - k /\ \A i \in 1..(Len(s) - k) : b[i] = s[k + i]
  <2>1. \A i \in (k + 1)..Len(s) : s[i] \in Nodes
    BY <1>1
  <2>2. Len(b) = IF k + 1 <= Len(s) THEN Len(s) - (k + 1) + 1 ELSE 0
    BY <2>1, <1>1, SubSeqProperties
  <2>3. b \in Seq(Nodes) /\ \A i \in 1..(Len(s) - (k + 1) + 1) : b[i] = s[(k + 1) + i - 1]
    BY <2>1, <1>1, SubSeqProperties
  <2>4. Len(b) = Len(s) - k /\ Len(s) - (k + 1) + 1 = Len(s) - k /\ \A i \in 1..(Len(s) - k) : (k + 1) + i - 1 = k + i
    BY <2>2, <1>1
  <2> HIDE DEF b
  <2> QED BY <2>3, <2>4
<1> HIDE DEF a, b
<1>4. s[k] \in Nodes
  BY <1>1
<1> DEFINE n == s[k]
<1>5. /\ w \in Seq(Nodes) /\ Len(w) = Len(a) + 1 + Len(b)
      /\ \A i \in 1..Len(a) : w[i] = a[i]
      /\ \A i \in 1..Len(b) : w[Len(a) + 1 + i] = b[i]
      /\ w[Len(a) + 1] = s[k]
  <2> DEFINE x == a \o b
  <2>1. w = a \o <<n>> \o b /\ x = a \o b /\ n \in Nodes /\ n = s[k]
    BY <1>4
  <2> HIDE DEF w, x, n
  <2>2. a \in Seq(Nodes) /\ b \in Seq(Nodes)
    BY <1>2, <1>3
  <2>3. /\ w \in Seq(Nodes) /\ Len(w) = Len(a) + 1 + Len(b)
        /\ \A i \in 1..Len(a) : x[i] = a[i] /\ w[i] = a[i]
        /\ \A i \in 1..Len(b) : x[Len(a) + i] = b[i] /\ w[Len(a) + 1 + i] = b[i]
        /\ w[Len(a) + 1] = n
    BY <2>1, <2>2, Pieces, SMTT(40)
  <2> QED BY <2>1, <2>3
<1> HIDE DEF w, n
<1>6. Len(w) = Len(s) /\ Len(a) + 1 = k
  BY <1>1, <1>2, <1>3, <1>5
<1>7. ASSUME NEW i \in 1..Len(w) PROVE w[i] = s[i]
  <2>1. CASE i < k
    <3>1. i \in 1..(k - 1)
      BY <1>1, <2>1
    <3> QED BY <1>2, <1>5, <3>1
  <2>2. CASE i = k
    BY <1>5, <1>6, <2>2
  <2>3. CASE i > k
    <3> DEFINE j == i - k
    <3>1. j \in 1..(Len(s) - k) /\ k + j = i
      BY <1>1, <1>6, <2>3
    <3> HIDE DEF j
    <3>2. w[Len(a) + 1 + j] = b[j]
      BY <1>3, <1>5, <3>1
    <3> QED BY <1>3, <1>6, <3>1, <3>2
  <2>4. i < k \/ i = k \/ i > k
    <3>1. i \in Int /\ k \in Int
      OBVIOUS
    <3> QED BY <3>1
  <2> QED BY <2>1, <2>2, <2>3, <2>4
<1>8. w = s
  BY <1>5, <1>6, <1>7, SequencesEqual
<1> QED BY <1>2, <1>3, <1>8 DEF a, b, w

\* What the pointers say of the children of a node that loses one.
LEMMA KidsWithOneLess ==
    ASSUME NEW u \in Links, NEW v \in Links, NEW p \in Nodes, NEW n \in Nodes,
           NEW a \in Seq(Nodes), NEW b \in Seq(Nodes), IsKids(u, p, a \o <<n>> \o b), IsInjective(a \o <<n>> \o b),
           \A k \in Nodes : u.parent[k] = p /\ k # n => v.parent[k] = p,
           v.first_child[p] = IF a # <<>> THEN u.first_child[p] ELSE IF b = <<>> THEN Null ELSE b[1],
           a # <<>> => v.next[a[Len(a)]] = (IF b = <<>> THEN Null ELSE b[1]),
           \A k \in Nodes : u.parent[k] = p /\ k # n /\ (a = <<>> \/ k # a[Len(a)]) => v.next[k] = u.next[k]
    PROVE  IsKids(v, p, a \o b) /\ n \notin ToSet(a) /\ n \notin ToSet(a \o b)
<1> DEFINE s == a \o b
           w == a \o <<n>> \o b
           la == Len(a)
           lb == Len(b)
<1>1. /\ s \in Seq(Nodes) /\ Len(s) = la + lb /\ la \in Nat /\ lb \in Nat
      /\ w \in Seq(Nodes) /\ Len(w) = la + 1 + lb
      /\ \A i \in 1..la : s[i] = a[i] /\ w[i] = a[i]
      /\ \A i \in 1..lb : s[la + i] = b[i] /\ w[la + 1 + i] = b[i]
      /\ w[la + 1] = n
  BY Pieces
<1>2. /\ w # <<>> => w[1] = u.first_child[p] /\ u.next[w[Len(w)]] = Null
      /\ \A i \in 1..(Len(w) - 1) : u.next[w[i]] = w[i + 1]
      /\ \A i \in 1..Len(w) : u.parent[w[i]] = p
  BY DEF IsKids
<1>3. \A i, j \in 1..Len(w) : w[i] = w[j] => i = j
  <2>1. DOMAIN w = 1..Len(w)
    BY <1>1
  <2> QED BY <2>1 DEF IsInjective
<1>4. a = <<>> <=> la = 0
  OBVIOUS
<1>5. b = <<>> <=> lb = 0
  OBVIOUS
<1> DEFINE x == a[la]
           y == b[1]
           Turns(k) == v.next[k] = u.next[k]
<1>6. la # 0 => v.next[x] = (IF lb = 0 THEN Null ELSE y)
  BY <1>4, <1>5
<1>7. \A k \in Nodes : u.parent[k] = p /\ k # n /\ (la = 0 \/ k # x) => Turns(k)
  BY <1>4
<1>8. v.first_child[p] = IF la # 0 THEN u.first_child[p] ELSE IF lb = 0 THEN Null ELSE y
  BY <1>4, <1>5
<1>9. \A i \in 1..Len(w) : w[i] \in Nodes
  BY <1>1
<1>10. DOMAIN a = 1..la /\ DOMAIN s = 1..Len(s)
  BY <1>1
<1> HIDE DEF s, w, la, lb, y
<1>11. la + 1 \in 1..Len(w)
  BY <1>1
<1>12. \A i \in 1..Len(w) : i # la + 1 => w[i] # n /\ v.parent[w[i]] = p
  <2> SUFFICES ASSUME NEW i \in 1..Len(w), i # la + 1 PROVE w[i] # n /\ v.parent[w[i]] = p
    OBVIOUS
  <2>1. w[i] # w[la + 1]
    BY <1>3, <1>11
  <2>2. w[i] # n
    BY <1>1, <2>1
  <2> QED BY <1>2, <1>9, <2>2
<1>13. \A i \in 1..Len(w) : i # la + 1 /\ i # la => Turns(w[i])
  <2> SUFFICES ASSUME NEW i \in 1..Len(w), i # la + 1, i # la PROVE Turns(w[i])
    OBVIOUS
  <2>1. la = 0 \/ w[i] # x
    <3> SUFFICES ASSUME la # 0 PROVE w[i] # x
      OBVIOUS
    <3>1. la \in 1..la /\ la \in 1..Len(w)
      BY <1>1
    <3>2. w[la] = x
      BY <1>1, <3>1
    <3> QED BY <1>3, <3>1, <3>2
  <2>2. w[i] \in Nodes /\ u.parent[w[i]] = p /\ w[i] # n
    BY <1>2, <1>9, <1>12
  <2> HIDE DEF Turns, x
  <2> QED BY <1>7, <2>1, <2>2
<1> HIDE DEF x
<1>14. ASSUME NEW i \in 1..(Len(s) - 1) PROVE v.next[s[i]] = s[i + 1]
  <2>1. CASE i < la
    <3>1. i \in 1..la /\ i + 1 \in 1..la /\ i \in 1..Len(w) /\ i \in 1..(Len(w) - 1) /\ i # la /\ i # la + 1
      BY <1>1, <2>1
    <3>2. w[i] = s[i] /\ w[i + 1] = s[i + 1]
      BY <1>1, <3>1
    <3>3. Turns(w[i])
      <4> HIDE DEF Turns
      <4> QED BY <1>13, <3>1
    <3>4. u.next[w[i]] = w[i + 1]
      BY <1>2, <3>1
    <3> QED BY <3>2, <3>3, <3>4
  <2>2. CASE i = la
    <3>1. la # 0 /\ la \in 1..la /\ lb # 0 /\ 1 \in 1..lb
      BY <1>1, <2>2
    <3>2. s[i] = x
      BY <1>1, <2>2, <3>1 DEF x
    <3>3. s[la + 1] = y
      BY <1>1, <3>1 DEF y
    <3> QED BY <1>6, <2>2, <3>1, <3>2, <3>3
  <2>3. CASE i > la
    <3> DEFINE j == i - la
    <3>1. /\ j \in 1..lb /\ j + 1 \in 1..lb /\ la + j = i /\ la + (j + 1) = i + 1
          /\ la + 1 + j \in 1..Len(w) /\ la + 1 + j \in 1..(Len(w) - 1) /\ la + 1 + (j + 1) = (la + 1 + j) + 1
          /\ la + 1 + j # la + 1 /\ la + 1 + j # la
      BY <1>1, <2>3
    <3> HIDE DEF j
    <3>2. w[la + 1 + j] = b[j] /\ w[la + 1 + (j + 1)] = b[j + 1] /\ s[la + j] = b[j] /\ s[la + (j + 1)] = b[j + 1]
      BY <1>1, <3>1
    <3>3. s[i] = w[la + 1 + j] /\ s[i + 1] = w[(la + 1 + j) + 1]
      BY <3>1, <3>2
    <3>4. Turns(w[la + 1 + j])
      <4> HIDE DEF Turns
      <4> QED BY <1>13, <3>1
    <3>5. u.next[w[la + 1 + j]] = w[(la + 1 + j) + 1]
      BY <1>2, <3>1
    <3> QED BY <3>3, <3>4, <3>5
  <2>4. i < la \/ i = la \/ i > la
    <3>1. i \in Int /\ la \in Int
      BY <1>1
    <3> QED BY <3>1
  <2> QED BY <2>1, <2>2, <2>3, <2>4
<1>15. ASSUME NEW i \in 1..Len(s) PROVE v.parent[s[i]] = p /\ s[i] # n
  <2>1. CASE i <= la
    <3>1. i \in 1..la /\ i \in 1..Len(w) /\ i # la + 1
      BY <1>1, <2>1
    <3>2. w[i] = s[i]
      BY <1>1, <3>1
    <3> QED BY <1>12, <3>1, <3>2
  <2>2. CASE i > la
    <3> DEFINE j == i - la
    <3>1. j \in 1..lb /\ la + j = i /\ la + 1 + j \in 1..Len(w) /\ la + 1 + j # la + 1
      BY <1>1, <2>2
    <3> HIDE DEF j
    <3>2. s[i] = w[la + 1 + j]
      <4>1. w[la + 1 + j] = b[j] /\ s[la + j] = b[j]
        BY <1>1, <3>1
      <4> QED BY <3>1, <4>1
    <3> QED BY <1>12, <3>1, <3>2
  <2>3. i <= la \/ i > la
    <3>1. i \in Int /\ la \in Int
      BY <1>1
    <3> QED BY <3>1
  <2> QED BY <2>1, <2>2, <2>3
<1>16. s = <<>> => v.first_child[p] = Null
  <2> SUFFICES ASSUME s = <<>> PROVE v.first_child[p] = Null
    OBVIOUS
  <2>1. la = 0 /\ lb = 0
    BY <1>1
  <2> QED BY <1>8, <2>1
<1>17. s # <<>> => s[1] = v.first_child[p]
  <2> SUFFICES ASSUME s # <<>> PROVE s[1] = v.first_child[p]
    OBVIOUS
  <2>1. CASE la # 0
    <3>1. 1 \in 1..la /\ w # <<>>
      BY <1>1, <2>1
    <3>2. s[1] = w[1]
      BY <1>1, <3>1
    <3> QED BY <1>2, <1>8, <2>1, <3>1, <3>2
  <2>2. CASE la = 0
    <3>1. lb # 0
      BY <1>1, <2>2
    <3>2. 1 \in 1..lb /\ la + 1 = 1
      BY <1>1, <2>2, <3>1
    <3>3. s[la + 1] = b[1]
      BY <1>1, <3>2
    <3> QED BY <1>8, <2>2, <3>1, <3>2, <3>3 DEF y
  <2> QED BY <2>1, <2>2
<1>18. s # <<>> => v.next[s[Len(s)]] = Null
  <2> SUFFICES ASSUME s # <<>> PROVE v.next[s[Len(s)]] = Null
    OBVIOUS
  <2>1. CASE lb = 0
    <3>1. Len(s) = la /\ la # 0 /\ la \in 1..la
      BY <1>1, <2>1
    <3>2. s[Len(s)] = x
      BY <1>1, <3>1 DEF x
    <3> QED BY <1>6, <2>1, <3>1, <3>2
  <2>2. CASE lb # 0
    <3>1. /\ lb \in 1..lb /\ Len(w) = la + 1 + lb /\ Len(s) = la + lb /\ Len(w) \in 1..Len(w)
          /\ Len(w) # la /\ Len(w) # la + 1
      BY <1>1, <2>2
    <3>2. w[Len(w)] = s[Len(s)]
      <4>1. w[la + 1 + lb] = b[lb] /\ s[la + lb] = b[lb]
        BY <1>1, <3>1
      <4> QED BY <3>1, <4>1
    <3>3. Turns(w[Len(w)])
      <4> HIDE DEF Turns
      <4> QED BY <1>13, <3>1
    <3>4. w # <<>>
      BY <3>1
    <3>5. u.next[w[Len(w)]] = Null
      BY <1>2, <3>4
    <3> QED BY <3>2, <3>3, <3>5
  <2> QED BY <2>1, <2>2
<1>19. IsKids(v, p, s)
  BY <1>1, <1>14, <1>15, <1>16, <1>17, <1>18 DEF IsKids
<1>20. n \notin ToSet(s)
  BY <1>10, <1>15 DEF ToSet
<1>21. n \notin ToSet(a)
  <2>1. \A i \in 1..la : i \in 1..Len(s) /\ s[i] = a[i]
    BY <1>1
  <2>2. \A i \in 1..la : a[i] # n
    BY <1>15, <2>1
  <2> QED BY <1>10, <2>2 DEF ToSet
<1> QED BY <1>19, <1>20, <1>21 DEF s

LEMMA KidsAreNodes ==
    ASSUME NEW u \in Links, NEW F \in SUBSET Nodes, NEW M \in SUBSET Nodes, Shape(u, F, M), NEW p \in Nodes \ F
    PROVE  /\ IsKids(u, p, Kids(u, p)) /\ Kids(u, p) \in Seq(Nodes) /\ IsInjective(Kids(u, p))
           /\ ToSet(Kids(u, p)) = {k \in Nodes : u.parent[k] = p}
<1>1. Linked(u, F, M) /\ Rising(u, M)
  BY DEF Shape
<1>2. /\ IsKids(u, p, Kids(u, p)) /\ IsInjective(Kids(u, p))
      /\ ToSet(Kids(u, p)) = {k \in Nodes : u.parent[k] = p}
  BY <1>1, KidsInOrder
<1> QED BY <1>2 DEF IsKids

\* A removal takes n out of the list that it is in.
LEMMA UnlinkKids ==
    ASSUME NEW u \in Links, Shape(u, {}, {}), NEW n \in Nodes, NEW v, v = Unlink(u, n)
    PROVE  KidsOf(v) = Forest!Without(KidsOf(u), n)
<1>1. v \in Links /\ Shape(v, {}, {}) /\ Moved(u, v, n, Null)
  BY UnlinkShape
<1>2. Linked(u, {}, {})
  BY DEF Shape
<1>3. \A k \in Nodes : v.next[k] = IF k = n THEN Null ELSE IF k = u.prev[n] THEN u.next[n] ELSE u.next[k]
  BY DEF Unlink
<1>4. \A k \in Nodes : v.first_child[k] = IF k = u.parent[n] /\ u.first_child[k] = n THEN u.next[n] ELSE u.first_child[k]
  BY DEF Unlink
<1>5. ASSUME NEW p \in Nodes PROVE Kids(v, p) = RemoveFirst(Kids(u, p), n)
  <2> DEFINE s == Kids(u, p)
  <2>1. {} \in SUBSET Nodes /\ p \in Nodes \ {} /\ p \in Nodes \ ({} \cup {})
    OBVIOUS
  <2>2. /\ IsKids(u, p, s) /\ s \in Seq(Nodes) /\ IsInjective(s)
        /\ ToSet(s) = {k \in Nodes : u.parent[k] = p}
    BY <2>1, KidsAreNodes
  <2> HIDE DEF s
  <2>3. CASE u.parent[n] = p
    <3>1. PICK k \in 1..Len(s) : s[k] = n
      BY <2>2, <2>3 DEF ToSet
    <3>2. PICK a, b \in Seq(Nodes) : s = a \o <<s[k]>> \o b /\ Len(a) = k - 1
      BY <2>2, SplitAt
    <3>3. s = a \o <<n>> \o b
      BY <3>1, <3>2
    <3> DEFINE la == Len(a)
               lb == Len(b)
               x == a[la]
               y == b[1]
    <3>4. /\ Len(s) = la + 1 + lb /\ la \in Nat /\ lb \in Nat
          /\ \A i \in 1..la : s[i] = a[i] /\ a[i] \in Nodes
          /\ \A i \in 1..lb : s[la + 1 + i] = b[i]
          /\ s[la + 1] = n
      <4>1. PICK z : z = a \o b
        OBVIOUS
      <4> QED BY <3>3, <4>1, Pieces
    <3>5. (a = <<>> <=> la = 0) /\ (b = <<>> <=> lb = 0)
      OBVIOUS
    <3>6. /\ s # <<>> => s[1] = u.first_child[p] /\ u.next[s[Len(s)]] = Null
          /\ \A i \in 1..(Len(s) - 1) : u.next[s[i]] = s[i + 1]
      BY <2>2 DEF IsKids
    <3>7. \A i, j \in 1..Len(s) : s[i] = s[j] => i = j
      <4>1. DOMAIN s = 1..Len(s)
        BY <2>2
      <4> QED BY <2>2, <4>1 DEF IsInjective
    <3> HIDE DEF la, lb
    <3>8. u.next[n] = IF lb = 0 THEN Null ELSE y
      <4>1. CASE lb = 0
        <5>1. Len(s) = la + 1 /\ s # <<>>
          BY <3>4, <4>1
        <5> QED BY <3>4, <3>6, <4>1, <5>1
      <4>2. CASE lb # 0
        <5>1. la + 1 \in 1..(Len(s) - 1) /\ 1 \in 1..lb /\ (la + 1) + 1 = la + 1 + 1
          BY <3>4, <4>2
        <5>2. u.next[s[la + 1]] = s[la + 1 + 1]
          BY <3>6, <5>1
        <5> QED BY <3>4, <4>2, <5>1, <5>2
      <4> QED BY <4>1, <4>2
    <3>9. u.prev[n] = (IF la = 0 THEN Null ELSE x) /\ (la # 0 => x \in Nodes /\ x # n)
      <4>1. CASE la = 0
        <5>1. s[1] = n /\ s # <<>>
          BY <3>4, <4>1
        <5>2. u.first_child[p] = n
          BY <3>6, <5>1
        <5> QED BY <1>2, <4>1, <5>2, NodesAssumption DEF Linked, ParentsAgree
      <4>2. CASE la # 0
        <5>1. la \in 1..(Len(s) - 1) /\ la \in 1..la /\ la \in 1..Len(s) /\ la + 1 \in 1..Len(s) /\ la # la + 1
          BY <3>4, <4>2
        <5>2. s[la] = x /\ x \in Nodes
          BY <3>4, <5>1
        <5>3. u.next[x] = n
          BY <3>4, <3>6, <5>1, <5>2
        <5>4. x # n
          BY <3>4, <3>7, <5>1, <5>2
        <5> QED BY <1>2, <4>2, <5>2, <5>3, <5>4, NodesAssumption DEF Linked, SiblingsAgree
      <4> QED BY <4>1, <4>2
    <3>10. u.first_child[p] = n <=> la = 0
      <4>1. s # <<>> /\ 1 \in 1..Len(s) /\ la + 1 \in 1..Len(s)
        BY <3>4
      <4>2. s[1] = u.first_child[p]
        BY <3>6, <4>1
      <4>3. s[1] = s[la + 1] <=> 1 = la + 1
        BY <3>7, <4>1
      <4> QED BY <3>4, <4>2, <4>3
    <3> HIDE DEF x, y
    <3>11. v.first_child[p] = IF a # <<>> THEN u.first_child[p] ELSE IF b = <<>> THEN Null ELSE b[1]
      BY <1>4, <2>3, <3>5, <3>8, <3>10 DEF y
    <3>12. a # <<>> => v.next[a[Len(a)]] = (IF b = <<>> THEN Null ELSE b[1])
      <4>1. la # 0 => v.next[x] = u.next[n]
        BY <1>3, <3>9
      <4> QED BY <3>5, <3>8, <4>1 DEF x, y, la
    <3>13. \A j \in Nodes : u.parent[j] = p /\ j # n => v.parent[j] = p
      BY <1>1 DEF Moved
    <3>14. \A j \in Nodes : u.parent[j] = p /\ j # n /\ (a = <<>> \/ j # a[Len(a)]) => v.next[j] = u.next[j]
      <4>1. \A j \in Nodes : (la = 0 \/ j # x) => j # u.prev[n]
        BY <3>9, NodesAssumption
      <4> QED BY <1>3, <3>5, <4>1 DEF x, la
    <3>15. IsKids(u, p, a \o <<n>> \o b) /\ IsInjective(a \o <<n>> \o b)
      BY <2>2, <3>3
    <3>16. IsKids(v, p, a \o b) /\ n \notin ToSet(a)
      BY <1>1, <3>11, <3>12, <3>13, <3>14, <3>15, KidsWithOneLess
    <3>17. Kids(v, p) = a \o b
      BY <1>1, <2>1, <3>16, KidsAre
    <3>18. RemoveFirst(a \o <<n>> \o b, n) = a \o b
      BY <3>16, RemoveInside
    <3> QED BY <3>3, <3>17, <3>18 DEF s
  <2>4. CASE u.parent[n] # p
    <3>1. RemoveFirst(s, n) = s
      BY <2>2, <2>4, RemoveElsewhere
    <3>2. v.first_child[p] = u.first_child[p]
      BY <1>4, <2>4
    <3>3. ASSUME NEW k \in Nodes, u.parent[k] = p PROVE v.parent[k] = p /\ v.next[k] = u.next[k]
      <4>1. k # n
        BY <2>4, <3>3
      <4>2. k # u.prev[n]
        BY <1>2, <2>4, <3>3, NodesAssumption DEF Linked, SiblingsAgree
      <4> QED BY <1>1, <1>3, <3>3, <4>1, <4>2 DEF Moved
    <3>4. Kids(v, p) = Kids(u, p)
      BY <1>1, <2>1, <3>2, <3>3, SameKids
    <3> QED BY <3>1, <3>4 DEF s
  <2> QED BY <2>3, <2>4
<1>6. \A p \in Nodes : Forest!RemoveFirst(KidsOf(u)[p], n) = RemoveFirst(Kids(u, p), n)
  BY SameNames DEF KidsOf
<1> QED BY <1>5, <1>6 DEF Forest!Without, KidsOf

\* A fragment without children is as it was but for its own pointers.
LEMMA ForgetKids ==
    ASSUME NEW u \in Links, NEW f \in Nodes, Shape(u, {f}, {}), NEW v, v = ForgetChildren(u, f)
    PROVE  /\ Kids(v, f) = <<>>
           /\ \A p \in Nodes : p # f => Kids(v, p) = Kids(u, p)
<1>1. v \in Links /\ Shape(v, {}, {}) /\ v.parent = u.parent
  BY ForgetShape
<1>2. v.next = u.next /\ v.first_child = [u.first_child EXCEPT ![f] = Null]
  BY DEF ForgetChildren
<1>3. {} \in SUBSET Nodes /\ {f} \in SUBSET Nodes /\ f \in Nodes \ {}
  OBVIOUS
<1>4. Kids(v, f) = <<>>
  <2>1. v.first_child[f] = Null
    BY <1>2 DEF Links, Pointers
  <2>2. <<>> \in Seq(Nodes) /\ Len(<<>>) = 0
    OBVIOUS
  <2>3. IsKids(v, f, <<>>)
    BY <2>1, <2>2 DEF IsKids
  <2> QED BY <1>1, <1>3, <2>3, KidsAre
<1>5. ASSUME NEW p \in Nodes, p # f PROVE Kids(v, p) = Kids(u, p)
  <2>1. p \in Nodes \ ({f} \cup {})
    BY <1>5
  <2>2. v.first_child[p] = u.first_child[p]
    BY <1>2, <1>5 DEF Links, Pointers
  <2>3. \A k \in Nodes : u.parent[k] = p => v.parent[k] = p /\ v.next[k] = u.next[k]
    BY <1>1, <1>2
  <2>4. Shape(u, {f}, {})
    OBVIOUS
  <2> QED BY <1>1, <1>3, <2>1, <2>2, <2>3, <2>4, SameKids
<1> QED BY <1>4, <1>5

\* Where children are only cut off, all of a node or none, the other lists stay.
LEMMA CutKids ==
    ASSUME NEW u \in Links, Shape(u, {}, {}), NEW v \in Links, Shape(v, {}, {}), NEW S \in SUBSET Nodes,
           \A p \in Nodes : v.first_child[p] = IF p \in S THEN Null ELSE u.first_child[p],
           \A k \in Nodes : u.parent[k] \in Nodes \ S => v.parent[k] = u.parent[k] /\ v.next[k] = u.next[k]
    PROVE  KidsOf(v) = Forest!Emptied(KidsOf(u), S)
<1> {} \in SUBSET Nodes
  OBVIOUS
<1>1. ASSUME NEW p \in S PROVE Kids(v, p) = <<>>
  <2>1. v.first_child[p] = Null /\ p \in Nodes \ {}
    OBVIOUS
  <2>2. <<>> \in Seq(Nodes) /\ Len(<<>>) = 0
    OBVIOUS
  <2>3. IsKids(v, p, <<>>)
    BY <2>1, <2>2 DEF IsKids
  <2> QED BY <2>1, <2>3, KidsAre
<1>2. ASSUME NEW p \in Nodes \ S PROVE Kids(v, p) = Kids(u, p)
  <2>1. p \in Nodes \ ({} \cup {}) /\ v.first_child[p] = u.first_child[p]
    OBVIOUS
  <2>2. \A k \in Nodes : u.parent[k] = p => v.parent[k] = p /\ v.next[k] = u.next[k]
    OBVIOUS
  <2> QED BY <2>1, <2>2, SameKids
<1> QED BY <1>1, <1>2 DEF KidsOf, Forest!Emptied

\* What a destruction does to the lists of children.
LEMMA DestroyDeepKids ==
    ASSUME NEW u \in Links, Shape(u, {}, {}), NEW n \in Nodes, NEW v, v = DestroyDeep(u, n)
    PROVE  KidsOf(v) = Forest!Emptied(Forest!Without(KidsOf(u), n), Subtree(u, n))
<1> DEFINE D == Subtree(u, n)
           w == Unlink(u, n)
<1>1. v \in Links /\ Shape(v, {}, {})
  BY DestroyDeepShape
<1>2. w \in Links /\ Shape(w, {}, {}) /\ Moved(u, w, n, Null)
  BY UnlinkShape
<1>3. KidsOf(w) = Forest!Without(KidsOf(u), n)
  BY UnlinkKids
<1>4. D \in SUBSET Nodes
  BY SubtreeIsClosed
<1>5. \A k \in D : w.parent[k] \in D \cup {Null}
  <2>1. \A k \in D : k # n => u.parent[k] \in D
    BY SubtreeUp
  <2> HIDE DEF w, D
  <2> QED BY <1>2, <1>4, <2>1 DEF Moved
<1>6. v = Isolate(w, D)
  BY DEF DestroyDeep
<1> HIDE DEF w, D
<1>7. \A p \in Nodes : v.first_child[p] = IF p \in D THEN Null ELSE w.first_child[p]
  BY <1>6 DEF Isolate
<1>8. \A k \in Nodes : w.parent[k] \in Nodes \ D => v.parent[k] = w.parent[k] /\ v.next[k] = w.next[k]
  <2>1. \A k \in Nodes : w.parent[k] \in Nodes \ D => k \notin D
    BY <1>5, NodesAssumption
  <2> QED BY <1>6, <2>1 DEF Isolate
<1>9. KidsOf(v) = Forest!Emptied(KidsOf(w), D)
  BY <1>1, <1>2, <1>4, <1>7, <1>8, CutKids
<1> QED BY <1>3, <1>9 DEF D

LEMMA DestroyBelowKids ==
    ASSUME NEW u \in Links, Shape(u, {}, {}), NEW p \in Nodes, NEW v, v = DestroyBelow(u, p)
    PROVE  KidsOf(v) = Forest!Emptied(KidsOf(u), Subtree(u, p))
<1> DEFINE D == Subtree(u, p)
<1>1. v \in Links /\ Shape(v, {}, {})
  BY DestroyBelowShape
<1>2. D \in SUBSET Nodes /\ p \in D
  BY SubtreeIsClosed
<1>3. \A k \in D : k # p => u.parent[k] \in D
  BY SubtreeUp
<1>4. v = [Isolate(u, D \ {p}) EXCEPT !.first_child[p] = Null, !.last_child[p] = Null]
  BY DEF DestroyBelow
<1> HIDE DEF D
<1>5. \A q \in Nodes : v.first_child[q] = IF q \in D THEN Null ELSE u.first_child[q]
  BY <1>2, <1>4 DEF Isolate, Links, Pointers
<1>6. \A k \in Nodes : u.parent[k] \in Nodes \ D => v.parent[k] = u.parent[k] /\ v.next[k] = u.next[k]
  <2>1. \A k \in Nodes : u.parent[k] \in Nodes \ D => k \notin D \ {p}
    BY <1>3
  <2> QED BY <1>4, <2>1 DEF Isolate
<1>7. KidsOf(v) = Forest!Emptied(KidsOf(u), D)
  BY <1>1, <1>2, <1>5, <1>6, CutKids
<1> QED BY <1>7 DEF D

----------------------------------------------------------------------------
DownEqn(k, down) ==
    down = [i \in 0..Size |-> [m \in Nodes |->
               {m} \cup IF i = 0 THEN {} ELSE UNION {down[i - 1][c] : c \in ToSet(k[m])}]]

\* Below recurs on this function, which exists.
LEMMA BelowDown ==
    ASSUME NEW k, NEW n
    PROVE  Forest!Below(k, n) = (CHOOSE down : DownEqn(k, down))[Size][n]
<1>1. \A s : Forest!Cardinality(s) = Cardinality(s)
  BY DEF Forest!Cardinality, Cardinality
<1> QED BY <1>1 DEF Forest!Below, DownEqn, Size, Forest!Children, Forest!ToSet, ToSet

LEMMA DownExists ==
    ASSUME NEW k
    PROVE  \E down : DownEqn(k, down)
<1> DEFINE Row(w) == [m \in Nodes |-> {m} \cup UNION {w[c] : c \in ToSet(k[m])}]
           none == [m \in Nodes |-> {m}]
           Upto(j, f) == f = [i \in 0..j |-> IF i = 0 THEN none ELSE Row(f[i - 1])]
           Missing == {j \in Nat : ~ \E f : Upto(j, f)}
<1>1. \A f : Upto(Size, f) => DownEqn(k, f)
  <2> TAKE f
  <2> HAVE Upto(Size, f)
  <2> DEFINE Cell(i, m) == {m} \cup IF i = 0 THEN {} ELSE UNION {f[i - 1][c] : c \in ToSet(k[m])}
  <2>1. \A i \in 0..Size : (IF i = 0 THEN none ELSE Row(f[i - 1])) = [m \in Nodes |-> Cell(i, m)]
    <3> TAKE i \in 0..Size
    <3>1. CASE i = 0
      BY <3>1
    <3>2. CASE i # 0
      BY <3>2
    <3> QED BY <3>1, <3>2
  <2> HIDE DEF Cell, Row, none
  <2>2. f = [i \in 0..Size |-> [m \in Nodes |-> Cell(i, m)]]
    BY <2>1
  <2> QED BY <2>2 DEF DownEqn, Cell
<1> HIDE DEF Row, none
<1>2. \E f : Upto(0, f)
  <2> DEFINE f == [i \in 0..0 |-> none]
  <2>1. Upto(0, f)
    OBVIOUS
  <2> QED BY <2>1
<1>3. ASSUME NEW j \in Nat, NEW f, Upto(j, f) PROVE \E g : Upto(j + 1, g)
  <2> DEFINE g == [i \in 0..(j + 1) |-> IF i = 0 THEN none ELSE Row(f[i - 1])]
             h == [i \in 0..(j + 1) |-> IF i = 0 THEN none ELSE Row(g[i - 1])]
  <2>1. ASSUME NEW i \in 0..j PROVE g[i] = f[i]
    <3>1. i \in 0..(j + 1)
      OBVIOUS
    <3>2. f[i] = IF i = 0 THEN none ELSE Row(f[i - 1])
      BY <1>3
    <3> QED BY <3>1, <3>2
  <2>2. ASSUME NEW i \in 0..(j + 1), i # 0 PROVE f[i - 1] = g[i - 1]
    <3>1. i - 1 \in 0..j
      BY <2>2
    <3> QED BY <2>1, <3>1
  <2>3. \A i \in 0..(j + 1) : g[i] = h[i]
    BY <2>2
  <2>4. g = h
    BY <2>3
  <2> QED BY <2>4
<1> HIDE DEF Upto
<1>4. Missing = {}
  <2> SUFFICES ASSUME Missing # {} PROVE FALSE
    OBVIOUS
  <2>1. Missing \in SUBSET Nat
    OBVIOUS
  <2>2. PICK j \in Missing : \A i \in Missing : j <= i
    BY <2>1, LeastNumber
  <2>3. j \in Nat /\ j # 0
    BY <1>2
  <2>4. j - 1 \in Nat /\ j - 1 \notin Missing
    <3> HIDE DEF Missing
    <3>1. j - 1 \in Nat /\ ~ (j <= j - 1)
      BY <2>3
    <3> QED BY <2>2, <3>1
  <2>5. PICK f : Upto(j - 1, f)
    BY <2>4
  <2>6. \E g : Upto((j - 1) + 1, g)
    BY <1>3, <2>4, <2>5
  <2>7. (j - 1) + 1 = j
    BY <2>3
  <2> QED BY <2>6, <2>7
<1>5. \E f : Upto(Size, f)
  BY <1>4, SizeType
<1> QED BY <1>1, <1>5

\* What is below a node by the lists of children is so by the pointers to parents.
LEMMA BelowIsSubtree ==
    ASSUME NEW u \in Links, Shape(u, {}, {}), NEW n \in Nodes
    PROVE  Forest!Below(KidsOf(u), n) = Subtree(u, n)
<1> DEFINE down == CHOOSE down : DownEqn(KidsOf(u), down)
           Weight(m) == Cardinality(Subtree(u, m))
           Good(i) == \A m \in Nodes : Weight(m) <= i => down[i][m] = Subtree(u, m)
           Bad == {i \in 0..Size : ~ Good(i)}
<1>1. DownEqn(KidsOf(u), down)
  BY DownExists
<1> HIDE DEF down
<1>2. \A m \in Nodes : Weight(m) \in Nat /\ Weight(m) > 0 /\ Weight(m) <= Size
  BY SubtreeSize
<1>3. \A m, c \in Nodes : u.parent[c] = m => Weight(c) < Weight(m)
  BY SubtreeShrinks DEF Shape
<1> HIDE DEF Weight
<1>4. ASSUME NEW i \in 0..Size, i = 0 \/ (i - 1 \in 0..Size /\ Good(i - 1)), NEW m \in Nodes, Weight(m) <= i
      PROVE  down[i][m] = Subtree(u, m)
  <2>1. i \in Nat /\ i # 0
    BY <1>2, <1>4, SizeType
  <2> DEFINE C == {c \in Nodes : u.parent[c] = m}
  <2>2. ToSet(KidsOf(u)[m]) = C
    <3>1. {} \in SUBSET Nodes /\ m \in Nodes \ {}
      OBVIOUS
    <3>2. ToSet(Kids(u, m)) = C
      BY <3>1, KidsAreNodes
    <3> QED BY <3>2 DEF KidsOf
  <2>3. down[i][m] = {m} \cup UNION {down[i - 1][c] : c \in C}
    <3>1. down[i] = [j \in Nodes |-> {j} \cup IF i = 0 THEN {} ELSE UNION {down[i - 1][c] : c \in ToSet(KidsOf(u)[j])}]
      BY <1>1 DEF DownEqn
    <3> HIDE DEF C
    <3> QED BY <2>1, <2>2, <3>1
  <2>4. \A c \in C : down[i - 1][c] = Subtree(u, c)
    <3> TAKE c \in C
    <3>1. Weight(c) < Weight(m) /\ c \in Nodes
      BY <1>3
    <3>2. Weight(c) <= i - 1
      <4>1. Weight(c) \in Nat /\ Weight(m) \in Nat
        BY <1>2, <3>1
      <4> QED BY <1>4, <2>1, <3>1, <4>1
    <3> QED BY <1>4, <2>1, <3>1, <3>2
  <2>5. {m} \cup UNION {Subtree(u, c) : c \in C} = Subtree(u, m)
    <3>1. \A y \in Subtree(u, m) : y # m => \E c \in C : y \in Subtree(u, c)
      <4> TAKE y \in Subtree(u, m)
      <4> HAVE y # m
      <4>1. \E c \in Nodes : u.parent[c] = m /\ y \in Subtree(u, c)
        BY ChildBetween
      <4> QED BY <4>1
    <3>2. \A c \in C : Subtree(u, c) \subseteq Subtree(u, m)
      <4> TAKE c \in C
      <4>1. m \in Subtree(u, m) /\ Closed(u, Subtree(u, m))
        BY SubtreeIsClosed
      <4>2. c \in Subtree(u, m)
        BY <4>1 DEF Closed
      <4> QED BY <4>2, SubtreeIsTransitive
    <3>3. m \in Subtree(u, m)
      BY SubtreeIsClosed
    <3> HIDE DEF C
    <3> QED BY <3>1, <3>2, <3>3
  <2> HIDE DEF C
  <2> QED BY <2>3, <2>4, <2>5
<1>5. Bad = {}
  <2> SUFFICES ASSUME Bad # {} PROVE FALSE
    OBVIOUS
  <2> HIDE DEF Good
  <2>1. Bad \in SUBSET Nat
    BY SizeType
  <2>2. PICK k \in Bad : \A j \in Bad : k <= j
    BY <2>1, LeastNumber
  <2>3. k \in 0..Size /\ k \in Nat
    BY SizeType
  <2>4. k = 0 \/ (k - 1 \in 0..Size /\ ~ (k <= k - 1))
    BY <2>3, SizeType
  <2>5. k = 0 \/ (k - 1 \in 0..Size /\ Good(k - 1))
    BY <2>2, <2>4
  <2>6. Good(k)
    BY <1>4, <2>3, <2>5 DEF Good
  <2> QED BY <2>2, <2>6
<1>6. Good(Size)
  BY <1>5, SizeType
<1>7. down[Size][n] = Subtree(u, n)
  BY <1>2, <1>6
<1> QED BY <1>7, BelowDown DEF down

LEMMA KidsType ==
    ASSUME NEW u \in Links
    PROVE  KidsOf(u) \in [Nodes -> Seq(Nodes)]
<1> DEFINE along == CHOOSE along : AlongEqn(u, along)
           Good(k) == \A m \in Nodes \cup {Null} : along[k][m] \in Seq(Nodes)
           Bad == {k \in 0..Size : ~ Good(k)}
<1>1. AlongEqn(u, along)
  BY AlongExists
<1> HIDE DEF along
<1>2. \A k \in 0..Size : along[k] = [m \in Nodes \cup {Null} |->
          IF m = Null \/ k = 0 THEN <<>> ELSE <<m>> \o along[k - 1][u.next[m]]]
  BY <1>1 DEF AlongEqn
<1>3. Bad = {}
  <2> SUFFICES ASSUME Bad # {} PROVE FALSE
    OBVIOUS
  <2>1. Bad \in SUBSET Nat
    BY SizeType
  <2>2. PICK k \in Bad : \A j \in Bad : k <= j
    BY <2>1, LeastNumber
  <2>3. k \in 0..Size /\ k \in Nat
    BY SizeType
  <2>4. k = 0 \/ (k - 1 \in Nat /\ k - 1 \in 0..Size /\ ~ (k <= k - 1))
    BY <2>3, SizeType
  <2>5. k = 0 \/ Good(k - 1)
    BY <2>2, <2>4
  <2>6. ASSUME NEW m \in Nodes \cup {Null} PROVE along[k][m] \in Seq(Nodes)
    <3>1. CASE m = Null \/ k = 0
      <4>1. along[k][m] = <<>>
        BY <1>2, <2>3, <3>1
      <4> QED BY <4>1
    <3>2. CASE ~ (m = Null \/ k = 0)
      <4>1. along[k][m] = <<m>> \o along[k - 1][u.next[m]]
        BY <1>2, <2>3, <3>2
      <4>2. u.next[m] \in Nodes \cup {Null} /\ m \in Nodes
        BY <3>2 DEF Links, Pointers
      <4>3. along[k - 1][u.next[m]] \in Seq(Nodes)
        BY <2>5, <3>2, <4>2
      <4> QED BY <4>1, <4>2, <4>3
    <3> QED BY <3>1, <3>2
  <2> QED BY <2>2, <2>6
<1>4. Size \in 0..Size
  BY SizeType
<1>5. \A p \in Nodes : u.first_child[p] \in Nodes \cup {Null}
  BY DEF Links, Pointers
<1>6. \A p \in Nodes : along[Size][u.first_child[p]] \in Seq(Nodes)
  BY <1>3, <1>4, <1>5
<1>7. \A p \in Nodes : Kids(u, p) \in Seq(Nodes)
  BY <1>6, KidsAlong DEF along
<1> QED BY <1>7 DEF KidsOf

\* Only and Contents, from the head of the list on.
LEMMA OnlyHead ==
    ASSUME NEW ns \in Seq(Nodes), NEW A
    PROVE  /\ Only(ns, A) \in Seq(Nodes)
           /\ ns = <<>> => Only(ns, A) = <<>>
           /\ ns # <<>> => Only(ns, A) = IF Head(ns) \in A THEN <<Head(ns)>> \o Only(Tail(ns), A)
                                         ELSE Only(Tail(ns), A)
<1> DEFINE g == Keeps(A)
<1>1. \A ms \in Seq(Nodes) : Only(ms, A) = Spread(g, ms) /\ g \in [Nodes -> Seq(Nodes)]
  BY OnlyIsSpread
<1>2. Only(ns, A) = Spread(g, ns) /\ g \in [Nodes -> Seq(Nodes)]
  BY <1>1
<1>3. \A n \in Nodes : g[n] = IF n \in A THEN <<n>> ELSE <<>>
  BY DEF Keeps
<1> HIDE DEF g
<1>4. Only(ns, A) \in Seq(Nodes)
  BY <1>2, SpreadType
<1>5. ns = <<>> => Only(ns, A) = <<>>
  BY <1>2, SpreadHead
<1>6. ASSUME ns # <<>>
      PROVE  Only(ns, A) = IF Head(ns) \in A THEN <<Head(ns)>> \o Only(Tail(ns), A) ELSE Only(Tail(ns), A)
  <2>1. Head(ns) \in Nodes /\ Tail(ns) \in Seq(Nodes)
    BY <1>6, HeadTailProperties
  <2>2. Spread(g, ns) = g[Head(ns)] \o Spread(g, Tail(ns))
    BY <1>2, <1>6, SpreadHead
  <2>3. Only(Tail(ns), A) = Spread(g, Tail(ns)) /\ Spread(g, Tail(ns)) \in Seq(Nodes)
    BY <1>1, <2>1, SpreadType
  <2>4. <<>> \o Spread(g, Tail(ns)) = Spread(g, Tail(ns))
    BY <2>3, ConcatEmptySeq
  <2> QED BY <1>2, <1>3, <2>1, <2>2, <2>3, <2>4
<1> QED BY <1>4, <1>5, <1>6

LEMMA ContentsHead ==
    ASSUME NEW k \in [Nodes -> Seq(Nodes)], NEW ns \in Seq(Nodes)
    PROVE  /\ Forest!Contents(k, ns) \in Seq(Nodes)
           /\ Forest!Contents(k, <<>>) = <<>>
           /\ \A n \in Nodes : Forest!Contents(k, <<n>> \o ns) =
                 (IF n \in Fragments THEN k[n] ELSE <<n>>) \o Forest!Contents(k, ns)
<1> DEFINE g == Fills(k)
<1>1. \A ms \in Seq(Nodes) : Forest!Contents(k, ms) = Spread(g, ms) /\ g \in [Nodes -> Seq(Nodes)]
  BY ContentsIsSpread
<1>2. <<>> \in Seq(Nodes) /\ \A n \in Nodes : <<n>> \o ns \in Seq(Nodes)
  OBVIOUS
<1>3. \A n \in Nodes : g[n] = IF n \in Fragments THEN k[n] ELSE <<n>>
  BY DEF Fills
<1> HIDE DEF g
<1>4. Forest!Contents(k, ns) = Spread(g, ns) /\ g \in [Nodes -> Seq(Nodes)]
  BY <1>1
<1>5. Forest!Contents(k, ns) \in Seq(Nodes)
  BY <1>4, SpreadType
<1>6. Forest!Contents(k, <<>>) = <<>>
  BY <1>1, <1>2, <1>4, SpreadHead
<1>7. ASSUME NEW n \in Nodes
      PROVE  Forest!Contents(k, <<n>> \o ns) = (IF n \in Fragments THEN k[n] ELSE <<n>>) \o Forest!Contents(k, ns)
  <2> DEFINE s == <<n>> \o ns
  <2>1. s \in Seq(Nodes) /\ s # <<>> /\ Head(s) = n
    OBVIOUS
  <2>2. Tail(s) = ns
    <3>1. /\ Tail(s) \in Seq(Nodes) /\ Len(Tail(s)) = Len(s) - 1
          /\ \A i \in 1..Len(Tail(s)) : Tail(s)[i] = s[i + 1]
      BY <2>1, HeadTailProperties
    <3>2. Len(s) = Len(ns) + 1 /\ Len(ns) \in Nat
      OBVIOUS
    <3>3. \A i \in 1..Len(ns) : s[i + 1] = ns[i]
      OBVIOUS
    <3>4. Len(Tail(s)) = Len(ns) /\ \A i \in 1..Len(Tail(s)) : Tail(s)[i] = ns[i]
      BY <3>1, <3>2, <3>3
    <3> HIDE DEF s
    <3> QED BY <3>1, <3>4, SequencesEqual
  <2> HIDE DEF s
  <2>3. Spread(g, s) = g[Head(s)] \o Spread(g, Tail(s))
    BY <1>4, <2>1, SpreadHead
  <2>4. Forest!Contents(k, s) = Spread(g, s)
    BY <1>1, <2>1
  <2>5. Forest!Contents(k, s) = g[n] \o Forest!Contents(k, ns)
    BY <1>4, <2>1, <2>2, <2>3, <2>4
  <2>6. Forest!Contents(k, <<n>> \o ns) = g[n] \o Forest!Contents(k, ns)
    BY <2>5 DEF s
  <2> QED BY <1>3, <2>6
<1> QED BY <1>5, <1>6, <1>7

\* What fragments stand for depends on their own children only.
SameContents(k, l, ns) == Forest!Contents(k, ns) = Forest!Contents(l, ns)

LEMMA ContentsSame ==
    ASSUME NEW k \in [Nodes -> Seq(Nodes)], NEW l \in [Nodes -> Seq(Nodes)], NEW ns \in Seq(Nodes),
           \A n \in ToSet(ns) \cap Fragments : k[n] = l[n]
    PROVE  SameContents(k, l, ns)
<1>1. Forest!Contents(k, ns) = Spread(Fills(k), ns) /\ Fills(k) \in [Nodes -> Seq(Nodes)]
  BY ContentsIsSpread
<1>2. Forest!Contents(l, ns) = Spread(Fills(l), ns) /\ Fills(l) \in [Nodes -> Seq(Nodes)]
  BY ContentsIsSpread
<1>3. ToSet(ns) \subseteq Nodes
  BY DEF ToSet
<1>4. \A n \in ToSet(ns) : Fills(k)[n] = Fills(l)[n]
  BY <1>3 DEF Fills
<1>5. Spread(Fills(k), ns) = Spread(Fills(l), ns)
  BY <1>1, <1>2, <1>4, SpreadSame
<1> QED BY <1>1, <1>2, <1>5 DEF SameContents

(***************************************************************************)
(* A call c with the links u, while A are the nodes that it may insert: of *)
(* the children of its parent, a are those before the place, b after it;   *)
(* with the rest between them, and without drop, they are what is promised. *)
(***************************************************************************)
Rest(u, c, A) == c.moving \o Forest!Contents(KidsOf(u), Only(c.todo, A))
Opened(c, A) == {c.frag} \cup (ToSet(Only(c.todo, A)) \cap Fragments)
Settled(u, c, A, s) ==
    [m \in Nodes |-> IF m = c.to THEN s ELSE IF m \in Opened(c, A) THEN <<>> ELSE Kids(u, m)]

InPlace(u, c, A, a, b) ==
    /\ IF c.emptying THEN a = <<>> /\ b = <<>> ELSE Kids(u, c.to) = a \o b
    /\ c.anchor = Null => b = <<>>
    /\ c.anchor # Null => \/ b # <<>> /\ b[1] = c.anchor /\ u.parent[c.anchor] = c.to
                          \/ A = {} /\ c.frag = Null
    /\ c.promise = Forest!Without(Settled(u, c, A, a \o Rest(u, c, A) \o b), c.drop)

\* The fields of a call under way.
CallOf(c) ==
    /\ c.to \in Nodes /\ c.anchor \in Nodes \cup {Null} /\ c.frag \in Nodes \cup {Null}
    /\ c.todo \in Seq(Nodes) /\ IsInjective(c.todo) /\ c.moving \in Seq(Nodes) /\ c.frag \notin ToSet(c.todo)

\* What a step of the call leaves as it is.
SameCall(c, d) ==
    d.to = c.to /\ d.anchor = c.anchor /\ d.drop = c.drop /\ d.promise = c.promise

LEMMA RestType ==
    ASSUME NEW u \in Links, NEW c, CallOf(c), NEW A
    PROVE  /\ Only(c.todo, A) \in Seq(Nodes) /\ ToSet(Only(c.todo, A)) = ToSet(c.todo) \cap A
           /\ Forest!Contents(KidsOf(u), Only(c.todo, A)) \in Seq(Nodes)
           /\ Rest(u, c, A) \in Seq(Nodes)
<1> DEFINE s == Only(c.todo, A)
           r == Forest!Contents(KidsOf(u), s)
<1>1. c.todo \in Seq(Nodes) /\ IsInjective(c.todo) /\ c.moving \in Seq(Nodes)
  BY DEF CallOf
<1>2. s \in Seq(Nodes) /\ ToSet(s) = ToSet(c.todo) \cap A
  BY <1>1, OnlyFacts
<1> HIDE DEF s
<1>3. r \in Seq(Nodes)
  BY <1>2, KidsType, ContentsHead
<1> HIDE DEF r
<1>4. c.moving \o r \in Seq(Nodes)
  BY <1>1, <1>3
<1> QED BY <1>2, <1>3, <1>4 DEF Rest, r, s

LEMMA ToSetHead ==
    ASSUME NEW n \in Nodes, NEW s \in Seq(Nodes)
    PROVE  ToSet(<<n>> \o s) = {n} \cup ToSet(s)
<1> DEFINE w == <<n>> \o s
<1>1. Len(s) \in Nat /\ DOMAIN s = 1..Len(s) /\ DOMAIN w = 1..(Len(s) + 1) /\ w[1] = n
  OBVIOUS
<1>2. \A i \in 1..Len(s) : w[i + 1] = s[i]
  OBVIOUS
<1> HIDE DEF w
<1>3. ASSUME NEW x \in ToSet(w) PROVE x \in {n} \cup ToSet(s)
  <2>1. PICK j \in 1..(Len(s) + 1) : x = w[j]
    BY <1>1 DEF ToSet
  <2>2. CASE j = 1
    BY <1>1, <2>1, <2>2
  <2>3. CASE j # 1
    <3>1. j - 1 \in 1..Len(s) /\ (j - 1) + 1 = j
      BY <1>1, <2>3
    <3>2. w[(j - 1) + 1] = s[j - 1]
      BY <1>2, <3>1
    <3> QED BY <1>1, <2>1, <3>1, <3>2 DEF ToSet
  <2> QED BY <2>2, <2>3
<1>4. n \in ToSet(w)
  <2>1. 1 \in 1..(Len(s) + 1)
    BY <1>1
  <2> QED BY <1>1, <2>1 DEF ToSet
<1>5. ASSUME NEW x \in ToSet(s) PROVE x \in ToSet(w)
  <2>1. PICK i \in 1..Len(s) : x = s[i]
    BY <1>1 DEF ToSet
  <2>2. i + 1 \in 1..(Len(s) + 1)
    BY <1>1
  <2> QED BY <1>1, <1>2, <2>1, <2>2 DEF ToSet
<1> QED BY <1>3, <1>4, <1>5 DEF w

\* The steps of a call, one by one: they leave true what InPlace says, with a longer when a
\* node was put into its place.  A node that may not be inserted is passed over.
LEMMA SkipStays ==
    ASSUME NEW u \in Links, NEW c, CallOf(c), NEW A, NEW a, NEW b, InPlace(u, c, A, a, b),
           c.todo # <<>>, Head(c.todo) \notin A,
           NEW d, SameCall(c, d), d.todo = Tail(c.todo), d.frag = c.frag, d.moving = c.moving, d.emptying = c.emptying
    PROVE  InPlace(u, d, A, a, b)
<1>1. Only(d.todo, A) = Only(c.todo, A)
  <2> DEFINE ns == c.todo
  <2>1. ns \in Seq(Nodes) /\ ns # <<>> /\ Head(ns) \notin A /\ d.todo = Tail(ns)
    BY DEF CallOf
  <2> HIDE DEF ns
  <2>2. Only(ns, A) = Only(Tail(ns), A)
    BY <2>1, OnlyHead
  <2> QED BY <2>1, <2>2 DEF ns
<1>2. Rest(u, d, A) = Rest(u, c, A) /\ Opened(d, A) = Opened(c, A)
  BY <1>1 DEF Rest, Opened
<1>3. Settled(u, d, A, a \o Rest(u, d, A) \o b) = Settled(u, c, A, a \o Rest(u, c, A) \o b)
  BY <1>2 DEF Settled, SameCall
<1> QED BY <1>3 DEF InPlace, SameCall

\* A fragment is opened: its children are the rest that was to come first.
LEMMA OpenStays ==
    ASSUME NEW u \in Links, NEW c, CallOf(c), NEW A, NEW a, NEW b, InPlace(u, c, A, a, b),
           c.todo # <<>>, NEW n, n = Head(c.todo), n \in A, n \in Fragments, c.frag = Null, c.moving = <<>>,
           NEW d, SameCall(c, d), d.todo = Tail(c.todo), d.frag = n, d.moving = Kids(u, n), d.emptying = c.emptying
    PROVE  InPlace(u, d, A, a, b)
<1> DEFINE k == KidsOf(u)
           s == Only(d.todo, A)
           r == Forest!Contents(k, s)
<1>1. n \in Nodes /\ d.todo \in Seq(Nodes) /\ c.todo \in Seq(Nodes)
  BY HeadTailProperties DEF CallOf
<1>2. Only(c.todo, A) = <<n>> \o s
  <2> DEFINE ns == c.todo
  <2>1. ns \in Seq(Nodes) /\ ns # <<>> /\ Head(ns) = n /\ Tail(ns) = d.todo
    BY <1>1
  <2> HIDE DEF ns
  <2>2. Only(ns, A) = <<n>> \o Only(d.todo, A)
    BY <2>1, OnlyHead
  <2> QED BY <2>2 DEF ns
<1>3. s \in Seq(Nodes)
  BY <1>1, OnlyHead
<1>4. k \in [Nodes -> Seq(Nodes)] /\ k[n] = Kids(u, n)
  BY <1>1, KidsType DEF KidsOf
<1> HIDE DEF s, k
<1>5. Forest!Contents(k, <<n>> \o s) = k[n] \o r /\ r \in Seq(Nodes)
  BY <1>1, <1>3, <1>4, ContentsHead
<1>6. <<>> \o (k[n] \o r) = k[n] \o r
  <2>1. k[n] \o r \in Seq(Nodes)
    BY <1>1, <1>4, <1>5
  <2> QED BY <2>1, ConcatEmptySeq
<1>7. Rest(u, d, A) = Rest(u, c, A)
  BY <1>2, <1>4, <1>5, <1>6 DEF Rest, k, s, r
<1>8. ToSet(<<n>> \o s) = {n} \cup ToSet(s)
  BY <1>1, <1>3, ToSetHead
<1>9. \A m \in Nodes : m \in Opened(d, A) <=> m \in Opened(c, A)
  BY <1>2, <1>8, NodesAssumption DEF Opened, s
<1>10. Settled(u, d, A, a \o Rest(u, d, A) \o b) = Settled(u, c, A, a \o Rest(u, c, A) \o b)
  BY <1>7, <1>9 DEF Settled, SameCall
<1> QED BY <1>10 DEF InPlace, SameCall

StartsWith(s, n, r) == s = <<n>> \o r

\* A node is put at the end of a.
LEMMA PutStays ==
    ASSUME NEW u \in Links, NEW c, CallOf(c), NEW A, NEW a \in Seq(Nodes), NEW b \in Seq(Nodes),
           InPlace(u, c, A, a, b), ~ c.emptying, A # {} \/ c.frag # Null,
           NEW F \in SUBSET Nodes, \A m \in Nodes : m \in F <=> m = c.frag, NEW M \in SUBSET Nodes, Shape(u, F, M),
           NEW n \in Nodes, n \in M \/ Loose(u, n), c.to \notin F, c.to \notin Subtree(u, n),
           c.anchor # Null => c.anchor # n /\ u.parent[c.anchor] = c.to,
           NEW v, v = Placed(u, c.to, c.anchor, n),
           NEW d, CallOf(d), SameCall(c, d), d.frag = c.frag, ~ d.emptying,
           StartsWith(Rest(u, c, A), n, Rest(u, d, A)), c.to \notin A,
           \A m \in Nodes : m \in Opened(d, A) <=> m \in Opened(c, A)
    PROVE  a \o <<n>> \in Seq(Nodes) /\ InPlace(v, d, A, a \o <<n>>, b)
<1> DEFINE to == c.to
           anchor == c.anchor
<1>0. /\ to \in Nodes \ F /\ anchor \in Nodes \cup {Null} /\ to \notin Subtree(u, n)
      /\ anchor # Null => anchor # n /\ u.parent[anchor] = to
      /\ v = Placed(u, to, anchor, n)
  BY DEF CallOf
<1>1. v \in Links /\ Moved(u, v, n, c.to)
  <2> HIDE DEF to, anchor
  <2>1. v \in Links /\ Moved(u, v, n, to)
    BY <1>0, PutShape
  <2> QED BY <2>1 DEF to
<1>2. Kids(u, c.to) = a \o b
  BY DEF InPlace
<1>3. (c.anchor = Null => b = <<>>) /\ (c.anchor # Null => b # <<>> /\ b[1] = c.anchor)
  BY DEF InPlace
<1>4. /\ Kids(v, c.to) = a \o <<n>> \o b
      /\ \A m \in Nodes \ F : m # c.to => Kids(v, m) = Kids(u, m)
  <2>1. Kids(u, to) = a \o b /\ (anchor = Null => b = <<>>) /\ (anchor # Null => b # <<>> /\ b[1] = anchor)
    BY <1>2, <1>3
  <2> HIDE DEF to, anchor
  <2>2. IsKids(u, to, Kids(u, to))
    BY <1>0, KidsAreNodes
  <2>3. KidsAround(u, to, a, b)
    BY <2>1, <2>2 DEF KidsAround
  <2>4. KidsWith(u, v, F, to, a, n, b)
    BY <1>0, <2>1, <2>3, PutKids
  <2>7. \A m \in Nodes \ F : m # to => Kids(v, m) = Kids(u, m)
    BY <2>4 DEF KidsWith
  <2>5. Shape(v, F, Less(M, n)) /\ Less(M, n) \in SUBSET Nodes
    BY <1>0, PutShape DEF Less
  <2>6. Kids(v, to) = a \o <<n>> \o b
    <3>1. IsKids(v, to, a \o <<n>> \o b)
      BY <2>4 DEF KidsWith
    <3> QED BY <1>0, <1>1, <2>5, <3>1, KidsAre
  <2> QED BY <2>6, <2>7 DEF to
<1> DEFINE s == Only(d.todo, A)
           r == Rest(u, d, A)
<1>5. s \in Seq(Nodes) /\ ToSet(s) = ToSet(d.todo) \cap A /\ r \in Seq(Nodes)
  BY RestType
<1>6. \A m \in ToSet(s) \cap Fragments : KidsOf(v)[m] = KidsOf(u)[m]
  <2> TAKE m \in ToSet(s) \cap Fragments
  <2>1. m # c.to /\ m \in Nodes /\ m # c.frag
    BY <1>5, DomAssumption DEF CallOf
  <2>2. m \in Nodes \ F
    BY <2>1
  <2> QED BY <1>4, <2>1, <2>2 DEF KidsOf
<1> HIDE DEF s
<1>7. SameContents(KidsOf(v), KidsOf(u), s)
  <2>1. KidsOf(v) \in [Nodes -> Seq(Nodes)] /\ KidsOf(u) \in [Nodes -> Seq(Nodes)]
    BY <1>1, KidsType
  <2> QED BY <1>5, <1>6, <2>1, ContentsSame
<1>8. Rest(v, d, A) = r
  BY <1>7 DEF SameContents, Rest, s
<1> HIDE DEF r
<1>9. <<n>> \in Seq(Nodes)
  OBVIOUS
<1>10. a \o <<n>> \in Seq(Nodes)
  OBVIOUS
<1>11. a \o (<<n>> \o r) = (a \o <<n>>) \o r
  <2> DEFINE x == <<n>>
  <2>1. x \in Seq(Nodes)
    BY <1>9
  <2> HIDE DEF x
  <2>2. Joined(a, x, r)
    BY <1>5, <2>1, ConcatsJoin
  <2> QED BY <2>2 DEF Joined, x
<1>12. a \o Rest(u, c, A) \o b = (a \o <<n>>) \o Rest(v, d, A) \o b
  BY <1>8, <1>11 DEF r, StartsWith
<1>13. \A m \in Nodes : m # c.to /\ m \notin Opened(c, A) => Kids(v, m) = Kids(u, m)
  BY <1>4 DEF Opened
<1>14. Settled(v, d, A, (a \o <<n>>) \o Rest(v, d, A) \o b) = Settled(u, c, A, a \o Rest(u, c, A) \o b)
  BY <1>12, <1>13 DEF Settled, SameCall
<1>15. Kids(v, d.to) = (a \o <<n>>) \o b
  BY <1>4 DEF SameCall
<1>16. d.anchor # Null => b # <<>> /\ b[1] = d.anchor /\ v.parent[d.anchor] = d.to
  BY <1>1, <1>3 DEF SameCall, Moved, CallOf
<1>17. d.promise = Forest!Without(Settled(v, d, A, (a \o <<n>>) \o Rest(v, d, A) \o b), d.drop)
  BY <1>14 DEF InPlace, SameCall
<1>18. d.anchor = Null => b = <<>>
  BY <1>3 DEF SameCall
<1> QED BY <1>10, <1>15, <1>16, <1>17, <1>18 DEF InPlace

\* A fragment without children left is done with.
LEMMA FinishStays ==
    ASSUME NEW u \in Links, NEW c, CallOf(c), NEW A, NEW a, NEW b, InPlace(u, c, A, a, b),
           ~ c.emptying, c.frag \in Nodes, c.moving = <<>>, c.frag # c.to, Shape(u, {c.frag}, {}),
           NEW v, v = ForgetChildren(u, c.frag),
           NEW d, SameCall(c, d), d.todo = c.todo, d.moving = c.moving, d.frag = Null, ~ d.emptying
    PROVE  InPlace(v, d, A, a, b)
<1> DEFINE s == Only(c.todo, A)
           f == c.frag
<1>1. v \in Links /\ v.parent = u.parent
  BY ForgetShape
<1>2. Kids(v, f) = <<>> /\ \A p \in Nodes : p # f => Kids(v, p) = Kids(u, p)
  BY ForgetKids
<1>3. s \in Seq(Nodes) /\ ToSet(s) = ToSet(c.todo) \cap A
  BY RestType
<1>4. f \notin ToSet(s)
  BY <1>3 DEF CallOf
<1> HIDE DEF s, f
<1>5. \A m \in ToSet(s) \cap Fragments : KidsOf(v)[m] = KidsOf(u)[m]
  BY <1>2, <1>4, DomAssumption DEF KidsOf
<1>6. SameContents(KidsOf(v), KidsOf(u), s)
  <2>1. KidsOf(v) \in [Nodes -> Seq(Nodes)] /\ KidsOf(u) \in [Nodes -> Seq(Nodes)]
    BY <1>1, KidsType
  <2> QED BY <1>3, <1>5, <2>1, ContentsSame
<1>7. Rest(v, d, A) = Rest(u, c, A)
  BY <1>6 DEF SameContents, Rest, s
<1>8. \A m \in Nodes : (IF m \in Opened(d, A) THEN <<>> ELSE Kids(v, m)) = (IF m \in Opened(c, A) THEN <<>> ELSE Kids(u, m))
  <2>1. \A m \in Nodes : m \in Opened(d, A) <=> m \in ToSet(s) \cap Fragments
    BY NodesAssumption DEF Opened, s
  <2>2. \A m \in Nodes : m \in Opened(c, A) <=> m = f \/ m \in ToSet(s) \cap Fragments
    BY DEF Opened, s, f
  <2> QED BY <1>2, <2>1, <2>2
<1>9. Settled(v, d, A, a \o Rest(v, d, A) \o b) = Settled(u, c, A, a \o Rest(u, c, A) \o b)
  BY <1>7, <1>8 DEF Settled, SameCall
<1>10. Kids(v, c.to) = Kids(u, c.to)
  BY <1>2 DEF f, CallOf
<1>11. c.anchor # Null => b # <<>> /\ b[1] = c.anchor /\ u.parent[c.anchor] = c.to
  BY NodesAssumption DEF InPlace
<1> QED BY <1>1, <1>9, <1>10, <1>11 DEF InPlace, SameCall

\* With no anchor, the children there were before are taken away one by one.
LEMMA TakeStays ==
    ASSUME NEW u \in Links, NEW c, CallOf(c), NEW A, NEW a, NEW b, InPlace(u, c, A, a, b),
           c.emptying, c.anchor = Null, c.to \notin A, Shape(u, {}, {}),
           NEW k \in Nodes, k = u.first_child[c.to],
           NEW v, v = Unlink(u, k),
           NEW d, SameCall(c, d), d.todo = c.todo, d.moving = c.moving, d.frag = c.frag, d.emptying = (u.next[k] # Null)
    PROVE  InPlace(v, d, A, a, b)
<1> DEFINE s == Only(c.todo, A)
<1>1. v \in Links /\ Shape(v, {}, {})
  BY UnlinkShape
<1>2. u.parent[k] = c.to
  BY NodesAssumption DEF Shape, Linked, ParentsAgree, CallOf
<1>3. \A m \in Nodes : m # c.to => Kids(v, m) = Kids(u, m)
  <2> TAKE m \in Nodes
  <2> HAVE m # c.to
  <2>1. KidsOf(v)[m] = Forest!Without(KidsOf(u), k)[m]
    BY UnlinkKids
  <2>2. Kids(v, m) = RemoveFirst(Kids(u, m), k)
    BY <2>1, SameNames DEF KidsOf, Forest!Without
  <2>3. {} \in SUBSET Nodes /\ m \in Nodes \ {}
    OBVIOUS
  <2>4. Kids(u, m) \in Seq(Nodes) /\ ToSet(Kids(u, m)) = {j \in Nodes : u.parent[j] = m}
    BY <2>3, KidsAreNodes
  <2>5. k \notin ToSet(Kids(u, m))
    BY <1>2, <2>4
  <2>6. RemoveFirst(Kids(u, m), k) = Kids(u, m)
    BY <2>4, <2>5, RemoveElsewhere
  <2> QED BY <2>2, <2>6
<1>4. s \in Seq(Nodes) /\ ToSet(s) = ToSet(c.todo) \cap A
  BY RestType
<1> HIDE DEF s
<1>5. \A m \in ToSet(s) \cap Fragments : KidsOf(v)[m] = KidsOf(u)[m]
  BY <1>3, <1>4, DomAssumption DEF KidsOf
<1>6. SameContents(KidsOf(v), KidsOf(u), s)
  <2>1. KidsOf(v) \in [Nodes -> Seq(Nodes)] /\ KidsOf(u) \in [Nodes -> Seq(Nodes)]
    BY <1>1, KidsType
  <2> QED BY <1>4, <1>5, <2>1, ContentsSame
<1>7. Rest(v, d, A) = Rest(u, c, A) /\ Opened(d, A) = Opened(c, A)
  BY <1>6 DEF SameContents, Rest, Opened, s
<1>8. Settled(v, d, A, a \o Rest(v, d, A) \o b) = Settled(u, c, A, a \o Rest(u, c, A) \o b)
  BY <1>3, <1>7 DEF Settled, SameCall
<1>9. a = <<>> /\ b = <<>>
  BY DEF InPlace
<1>10. ~ d.emptying => Kids(v, c.to) = <<>>
  <2> SUFFICES ASSUME u.next[k] = Null PROVE Kids(v, c.to) = <<>>
    OBVIOUS
  <2>1. v.first_child[c.to] = Null
    BY <1>2 DEF Unlink, CallOf
  <2>2. <<>> \in Seq(Nodes) /\ Len(<<>>) = 0
    OBVIOUS
  <2>3. IsKids(v, c.to, <<>>)
    BY <2>1, <2>2 DEF IsKids
  <2>4. {} \in SUBSET Nodes /\ c.to \in Nodes \ {}
    BY DEF CallOf
  <2> QED BY <1>1, <2>3, <2>4, KidsAre
<1>11. a \o b = <<>>
  BY <1>9
<1>12. d.emptying \in BOOLEAN
  OBVIOUS
<1> QED BY <1>8, <1>9, <1>10, <1>11 DEF InPlace, SameCall

\* With nothing to come, the children but drop are what was promised.
LEMMA NothingToCome ==
    ASSUME NEW u \in Links, NEW c, CallOf(c), NEW A, NEW a \in Seq(Nodes), NEW b \in Seq(Nodes),
           InPlace(u, c, A, a, b), ~ c.emptying, c.frag = Null, c.todo = <<>>, c.moving = <<>>
    PROVE  c.promise = Forest!Without(KidsOf(u), c.drop)
<1>1. Only(c.todo, A) = <<>>
  BY OnlyHead DEF CallOf
<1>2. Rest(u, c, A) = <<>>
  <2>1. Forest!Contents(KidsOf(u), <<>>) = <<>>
    <3>1. <<>> \in Seq(Nodes)
      OBVIOUS
    <3> QED BY <3>1, KidsType, ContentsHead
  <2>2. <<>> \o <<>> = <<>>
    OBVIOUS
  <2> QED BY <1>1, <2>1, <2>2 DEF Rest
<1>3. a \o Rest(u, c, A) \o b = Kids(u, c.to)
  <2>1. a \o <<>> = a
    BY ConcatEmptySeq
  <2> QED BY <1>2, <2>1 DEF InPlace
<1>4. \A m \in Nodes : m \notin Opened(c, A)
  BY <1>1, NodesAssumption DEF Opened, ToSet
<1>5. Settled(u, c, A, a \o Rest(u, c, A) \o b) = KidsOf(u)
  BY <1>3, <1>4 DEF Settled, KidsOf
<1> QED BY <1>5 DEF InPlace

(***************************************************************************)
(* What a call under way has still to do leads to what it promised.        *)
(***************************************************************************)
Kept == {n \in Nodes : MayInsert(call.to, n, call.anchor)}
Placing(a, b) == InPlace(t, call, Kept, a, b)
PromiseInv == ~Idle => call.to \in Nodes /\ \E a, b \in Seq(Nodes) : Placing(a, b)

LEMMA CallIs == ASSUME TreeInv, call.to \in Nodes PROVE CallOf(call) /\ call.to \notin Kept
<1>1. CallFields /\ CallInv
  BY DEF TreeInv, Types
<1>2. call.frag \notin ToSet(call.todo)
  BY <1>1 DEF CallInv, Listed
<1>3. IsInjective(call.todo)
  BY <1>1 DEF CallInv
<1>4. CallOf(call)
  BY <1>1, <1>2, <1>3 DEF CallOf, CallFields
<1> QED BY <1>4 DEF Kept, MayInsert

\* The fields of the call after a step of it.
LEMMA CallStays ==
    ASSUME TreeInv, call.to \in Nodes,
           \/ call' = [call EXCEPT !.todo = Tail(@)] \/ call' = [call EXCEPT !.moving = Tail(@)]
           \/ call' = [call EXCEPT !.frag = Null]
           \/ \E n, ms : call' = [call EXCEPT !.todo = Tail(@), !.frag = n, !.moving = ms]
           \/ \E e : call' = [call EXCEPT !.emptying = e]
    PROVE  SameCall(call, call') /\ ~Idle /\ ~Idle' /\ call'.to \in Nodes
<1>1. CallFields
  BY DEF TreeInv, Types
<1>2. SameCall(call, call')
  <2>1. CASE call' = [call EXCEPT !.todo = Tail(@)]
    BY <1>1, <2>1 DEF SameCall, CallFields
  <2>2. CASE call' = [call EXCEPT !.moving = Tail(@)]
    BY <1>1, <2>2 DEF SameCall, CallFields
  <2>3. CASE call' = [call EXCEPT !.frag = Null]
    BY <1>1, <2>3 DEF SameCall, CallFields
  <2>4. CASE \E n, ms : call' = [call EXCEPT !.todo = Tail(@), !.frag = n, !.moving = ms]
    <3>1. PICK n, ms : call' = [call EXCEPT !.todo = Tail(@), !.frag = n, !.moving = ms]
      BY <2>4
    <3> QED BY <1>1, <3>1 DEF SameCall, CallFields
  <2>5. CASE \E e : call' = [call EXCEPT !.emptying = e]
    <3>1. PICK e : call' = [call EXCEPT !.emptying = e]
      BY <2>5
    <3> QED BY <1>1, <3>1 DEF SameCall, CallFields
  <2> QED BY <2>1, <2>2, <2>3, <2>4, <2>5
<1>3. call'.to = call.to /\ call.to # Null
  BY <1>2, NodesAssumption DEF SameCall
<1>4. NoCall.to = Null
  BY DEF NoCall
<1> QED BY <1>2, <1>3, <1>4 DEF Idle

\* A node that is put into its place does not change what may be inserted there.
LEMMA KeptStays ==
    ASSUME t \in Links, t' \in Links, Deep(t), Deep(t'), call.to \in Nodes, call.anchor \in Nodes \cup {Null},
           NEW x \in Nodes, Moved(t, t', x, call.to), call.to \notin Subtree(t, x),
           call.anchor # Null => call.anchor # x /\ t.parent[call.anchor] = call.to,
           SameCall(call, call')
    PROVE  Kept' = Kept
<1>1. call'.to = call.to /\ call'.anchor = call.anchor
  BY DEF SameCall
<1>2. CASE call.anchor = Null
  BY <1>1, <1>2 DEF Kept, MayInsert
<1>3. CASE call.anchor # Null
  <2> DEFINE c == call.anchor
  <2>1. c \in Nodes /\ c # x /\ t.parent[c] = call.to /\ t'.parent[c] = call.to
    BY <1>3 DEF Moved
  <2>2. \A k \in Nodes \ {x} : t'.parent[k] = t.parent[k]
    BY DEF Moved
  <2>3. t'.parent[x] = call.to
    BY DEF Moved
  <2>4. c \notin Subtree(t, x)
    BY <2>1, SubtreeUp
  <2>5. Subtree(t', x) = Subtree(t, x) /\ t.parent[x] \notin Subtree(t', x)
    <3>1. t.parent[x] \notin Subtree(t, x)
      BY SubtreeIsBelow DEF Deep
    <3>2. Subtree(t', x) = Subtree(t, x)
      BY <2>2, <2>3, <3>1, SubtreeElsewhere
    <3> QED BY <3>1, <3>2
  <2>6. ASSUME NEW n \in Nodes PROVE c \in Subtree(t', n) <=> c \in Subtree(t, n)
    <3> HIDE DEF c
    <3>1. ASSUME c \in Subtree(t, n) PROVE c \in Subtree(t', n)
      BY <2>2, <2>3, <2>4, <3>1, StaysBelow
    <3>2. ASSUME c \in Subtree(t', n) PROVE c \in Subtree(t, n)
      <4>1. \A k \in Nodes \ {x} : t.parent[k] = t'.parent[k]
        BY <2>2
      <4> QED BY <2>4, <2>5, <3>2, <4>1, StaysBelow
    <3> QED BY <3>1, <3>2
  <2> QED BY <1>1, <2>1, <2>6 DEF Kept, MayInsert
<1> QED BY <1>2, <1>3

LEMMA SameKept == ASSUME t' = t, SameCall(call, call') PROVE Kept' = Kept
BY DEF Kept, MayInsert, SameCall


\* Each step of the call keeps the promise.
Goes == PromiseInv' /\ kidsBar' = kidsBar

LEMMA PromiseStays ==
    ASSUME SameCall(call, call'), ~Idle, ~Idle', call'.to \in Nodes, NEW a \in Seq(Nodes), NEW b \in Seq(Nodes), Placing(a, b)'
    PROVE  Goes
<1>1. PromiseInv'
  BY DEF PromiseInv
<1>2. kidsBar' = kidsBar
  BY DEF kidsBar, SameCall
<1> QED BY <1>1, <1>2 DEF Goes

LEMMA SkipPlaces ==
    ASSUME TreeInv, PromiseInv, NEW n, AtNode(n), n = Head(call.todo), call.todo # <<>>,
           ~ MayInsert(call.to, n, call.anchor), call' = [call EXCEPT !.todo = Tail(@)], t' = t
    PROVE  Goes
<1>1. SameCall(call, call') /\ ~Idle /\ ~Idle' /\ call'.to \in Nodes /\ call.to \in Nodes
  BY CallStays DEF AtNode
<1>2. CallOf(call) /\ t \in Links
  BY <1>1, CallIs DEF TreeInv, Types
<1>3. Kept' = Kept
  BY <1>1, SameKept
<1>4. call'.todo = Tail(call.todo) /\ call'.frag = call.frag /\ call'.moving = call.moving /\ call'.emptying = call.emptying
  BY DEF TreeInv, Types, CallFields
<1>5. PICK a, b \in Seq(Nodes) : Placing(a, b)
  BY <1>1 DEF PromiseInv
<1>6. Head(call.todo) \notin Kept
  BY DEF Kept
<1>7. InPlace(t, call, Kept, a, b)
  BY <1>5 DEF Placing
<1>8. InPlace(t, call', Kept, a, b)
  BY <1>1, <1>2, <1>4, <1>6, <1>7, SkipStays
<1>9. Placing(a, b)'
  BY <1>3, <1>8 DEF Placing
<1> QED BY <1>1, <1>9, PromiseStays

LEMMA OpenPlaces ==
    ASSUME TreeInv, PromiseInv, NEW n, AtNode(n), n = Head(call.todo), call.todo # <<>>, n \in Fragments,
           MayInsert(call.to, n, call.anchor), Took(n, Kids(t, n)), t' = t
    PROVE  Goes
<1>1. SameCall(call, call') /\ ~Idle /\ ~Idle' /\ call'.to \in Nodes /\ call.to \in Nodes
  BY CallStays DEF AtNode, Took
<1>2. CallOf(call) /\ t \in Links
  BY <1>1, CallIs DEF TreeInv, Types
<1>3. Kept' = Kept
  BY <1>1, SameKept
<1>4. call'.todo = Tail(call.todo) /\ call'.frag = n /\ call'.moving = Kids(t, n) /\ call'.emptying = call.emptying
  BY DEF TreeInv, Types, CallFields, Took
<1>5. PICK a, b \in Seq(Nodes) : Placing(a, b)
  BY <1>1 DEF PromiseInv
<1>6. n \in Kept /\ call.frag = Null /\ call.moving = <<>>
  BY DEF Kept, AtNode
<1>7. InPlace(t, call, Kept, a, b)
  BY <1>5 DEF Placing
<1>8. InPlace(t, call', Kept, a, b)
  BY <1>1, <1>2, <1>4, <1>6, <1>7, OpenStays
<1>9. Placing(a, b)'
  BY <1>3, <1>8 DEF Placing
<1> QED BY <1>1, <1>9, PromiseStays

LEMMA PlacePlaces ==
    ASSUME TreeInv, TreeInv', PromiseInv, NEW n, AtNode(n), n = Head(call.todo), call.todo # <<>>, n \notin Fragments,
           MayInsert(call.to, n, call.anchor), call.to \notin Subtree(t, n), call' = [call EXCEPT !.todo = Tail(@)], t' = Put(n)
    PROVE  Goes
<1>1. SameCall(call, call') /\ ~Idle /\ ~Idle' /\ call'.to \in Nodes /\ call.to \in Nodes
  BY CallStays DEF AtNode
<1>2. CallOf(call) /\ t \in Links /\ t' \in Links /\ call.to \notin Kept /\ Deep(t) /\ Deep(t')
  BY <1>1, CallIs DEF TreeInv, Types, Shaped, Shape
<1>3. CallOf(call')
  <2>1. TreeInv' /\ call'.to \in Nodes
    BY <1>1
  <2>2. CallFields' /\ CallInv'
    BY DEF TreeInv, Types
  <2>3. call'.frag \notin ToSet(call'.todo) /\ IsInjective(call'.todo)
    BY <2>2 DEF CallInv, Listed
  <2> QED BY <1>1, <2>2, <2>3 DEF CallOf, CallFields
<1>4. call'.todo = Tail(call.todo) /\ call'.frag = call.frag /\ call'.moving = call.moving /\ call'.emptying = call.emptying
  BY DEF TreeInv, Types, CallFields
<1>5. n \in Nodes /\ Loose(t, n) /\ Shape(t, {}, {}) /\ call.frag = Null /\ call.moving = <<>> /\ ~call.emptying
  BY DEF AtNode, Listed
<1>6. call.anchor # Null => call.anchor # n /\ t.parent[call.anchor] = call.to
  BY DEF MayInsert
<1>7. t' = Placed(t, call.to, call.anchor, n)
  BY DEF Placed, Put
<1>8. Moved(t, t', n, call.to)
  <2> DEFINE to == call.to
             anchor == call.anchor
  <2>1. to \in Nodes \ {} /\ anchor \in Nodes \cup {Null} /\ to \notin Subtree(t, n)
        /\ (anchor # Null => anchor # n /\ t.parent[anchor] = to) /\ t' = Placed(t, to, anchor, n)
    BY <1>1, <1>2, <1>6, <1>7 DEF CallOf
  <2>2. {} \in SUBSET Nodes
    OBVIOUS
  <2> HIDE DEF to, anchor
  <2>3. Moved(t, t', n, to)
    BY <1>2, <1>5, <2>1, <2>2, PutShape
  <2> QED BY <2>3 DEF to
<1>9. Kept' = Kept
  <2>1. call.anchor \in Nodes \cup {Null}
    BY <1>2 DEF CallOf
  <2> QED BY <1>1, <1>2, <1>5, <1>6, <1>8, <2>1, KeptStays
<1>10. PICK a, b \in Seq(Nodes) : Placing(a, b)
  BY <1>1 DEF PromiseInv
<1>11. InPlace(t, call, Kept, a, b)
  BY <1>10 DEF Placing
<1>12. n \in Kept
  BY <1>5 DEF Kept
<1>13. Only(call.todo, Kept) = <<n>> \o Only(call'.todo, Kept)
  <2> DEFINE ns == call.todo
             A == Kept
  <2>1. ns \in Seq(Nodes) /\ ns # <<>> /\ Head(ns) = n /\ Tail(ns) = call'.todo /\ n \in A
    BY <1>2, <1>4, <1>12 DEF CallOf
  <2> HIDE DEF ns, A
  <2>2. Only(ns, A) = IF Head(ns) \in A THEN <<Head(ns)>> \o Only(Tail(ns), A) ELSE Only(Tail(ns), A)
    BY <2>1, OnlyHead
  <2>3. Only(ns, A) = <<n>> \o Only(call'.todo, A)
    BY <2>1, <2>2
  <2> QED BY <2>3 DEF ns, A
<1>14. StartsWith(Rest(t, call, Kept), n, Rest(t, call', Kept)) /\ \A m \in Nodes : m \in Opened(call', Kept) <=> m \in Opened(call, Kept)
  <2> DEFINE s == Only(call'.todo, Kept)
             k == KidsOf(t)
             r == Forest!Contents(k, s)
  <2>1. s \in Seq(Nodes)
    BY <1>2, <1>3, RestType
  <2>2. k \in [Nodes -> Seq(Nodes)]
    BY <1>2, KidsType
  <2>3. Only(call.todo, Kept) = <<n>> \o s
    BY <1>13
  <2> HIDE DEF s, k
  <2>4. Forest!Contents(k, <<n>> \o s) = <<n>> \o r /\ r \in Seq(Nodes)
    BY <1>5, <2>1, <2>2, ContentsHead
  <2>5. <<>> \o r = r /\ <<>> \o (<<n>> \o r) = <<n>> \o r
    <3>1. <<n>> \o r \in Seq(Nodes)
      BY <1>5, <2>4
    <3> QED BY <2>4, <3>1, ConcatEmptySeq
  <2>6. StartsWith(Rest(t, call, Kept), n, Rest(t, call', Kept))
    BY <1>4, <1>5, <2>3, <2>4, <2>5 DEF Rest, StartsWith, k, s, r
  <2>7. ToSet(<<n>> \o s) = {n} \cup ToSet(s)
    BY <1>5, <2>1, ToSetHead
  <2>8. ToSet(<<n>> \o s) \cap Fragments = ToSet(s) \cap Fragments
    BY <2>7
  <2>9. Opened(call', Kept) = Opened(call, Kept)
    BY <1>4, <2>3, <2>8 DEF Opened, s
  <2> QED BY <2>6, <2>9
<1>15. {} \in SUBSET Nodes /\ (\A m \in Nodes : m \in {} <=> m = call.frag) /\ call.to \notin {}
  BY <1>5, NodesAssumption
<1>16. a \o <<n>> \in Seq(Nodes) /\ InPlace(t', call', Kept, a \o <<n>>, b)
  <2>1. Kept # {} \/ call.frag # Null
    BY <1>12
  <2>2. n \in {} \/ Loose(t, n)
    BY <1>5
  <2>3. ~call'.emptying
    BY <1>4, <1>5
  <2>0. PICK c, d, u, v, A, F : c = call /\ d = call' /\ u = t /\ v = t' /\ A = Kept /\ F = {}
    OBVIOUS
  <2>4. /\ u \in Links /\ CallOf(c) /\ InPlace(u, c, A, a, b) /\ ~ c.emptying /\ (A # {} \/ c.frag # Null)
        /\ F \in SUBSET Nodes /\ (\A m \in Nodes : m \in F <=> m = c.frag) /\ Shape(u, F, F)
        /\ (n \in F \/ Loose(u, n)) /\ c.to \notin F /\ c.to \notin Subtree(u, n)
    BY <1>2, <1>5, <1>11, <1>15, <2>0, <2>1, <2>2
  <2>5. /\ (c.anchor # Null => c.anchor # n /\ u.parent[c.anchor] = c.to) /\ v = Placed(u, c.to, c.anchor, n)
        /\ CallOf(d) /\ SameCall(c, d) /\ d.frag = c.frag /\ ~ d.emptying
        /\ StartsWith(Rest(u, c, A), n, Rest(u, d, A)) /\ c.to \notin A
        /\ (\A m \in Nodes : m \in Opened(d, A) <=> m \in Opened(c, A))
    BY <1>1, <1>2, <1>3, <1>4, <1>6, <1>7, <1>14, <2>0, <2>3
  <2>6. a \o <<n>> \in Seq(Nodes) /\ InPlace(v, d, A, a \o <<n>>, b)
    BY <1>5, <1>10, <2>4, <2>5, PutStays
  <2> QED BY <2>0, <2>6
<1>17. Placing(a \o <<n>>, b)'
  BY <1>9, <1>16 DEF Placing
<1> QED BY <1>1, <1>10, <1>16, <1>17, PromiseStays

LEMMA InsertNextPlaces == ASSUME TreeInv, TreeInv', PromiseInv, InsertNext PROVE Goes
<1>1. PICK n : n = Head(call.todo)
  OBVIOUS
<1>2. AtNode(n) /\ (MayInsert(call.to, n, call.anchor) => call.to \notin Subtree(t, n)) /\ call.todo # <<>>
  BY <1>1, InsertNextStarts DEF InsertNext
<1>4. CASE ~MayInsert(call.to, n, call.anchor)
  <2>1. call' = [call EXCEPT !.todo = Tail(@)] /\ t' = t
    BY <1>1, <1>4 DEF InsertNext
  <2> QED BY <1>1, <1>2, <1>4, <2>1, SkipPlaces
<1>5. CASE MayInsert(call.to, n, call.anchor) /\ n \in Fragments
  <2>1. Took(n, Kids(t, n)) /\ t' = t
    BY <1>1, <1>5 DEF InsertNext, Took
  <2> QED BY <1>1, <1>2, <1>5, <2>1, OpenPlaces
<1>6. CASE MayInsert(call.to, n, call.anchor) /\ n \notin Fragments
  <2>1. call' = [call EXCEPT !.todo = Tail(@)] /\ t' = Put(n)
    BY <1>1, <1>6 DEF InsertNext
  <2> QED BY <1>1, <1>2, <1>6, <2>1, PlacePlaces
<1> QED BY <1>4, <1>5, <1>6

LEMMA MoveKidPlaces == ASSUME TreeInv, TreeInv', PromiseInv, MoveKid PROVE Goes
<1>1. PICK n : n = Head(call.moving)
  OBVIOUS
<1>2. call.moving # <<>> /\ t' = Put(n) /\ call' = [call EXCEPT !.moving = Tail(@)]
  BY <1>1 DEF MoveKid
<1>3. Types /\ CallInv /\ CallFields /\ t \in Links /\ t' \in Links /\ Deep(t) /\ Deep(t') /\ Shape(t, Emptying, Moving)
  BY DEF TreeInv, Types, Shaped, Shape
<1>4. PICK f \in Nodes : f = call.frag
  BY <1>2, <1>3 DEF CallInv, CallFields
<1>5. /\ call.to \in Nodes /\ call.to \notin Subtree(t, f) /\ (call.anchor # Null => t.parent[call.anchor] = call.to)
      /\ ~call.emptying
  BY <1>3, <1>4, NodesAssumption DEF CallInv, CallFields
<1>6. Tail(call.moving) \in Seq(Nodes) /\ n \in Nodes /\ n \in Moving
  BY <1>1, <1>2, <1>3, TailFacts DEF CallInv, CallFields, Moving
<1>7. t.parent[n] = f
  BY <1>3, <1>4, <1>6 DEF CallInv
<1>8. f \in Subtree(t, f) /\ Closed(t, Subtree(t, f)) /\ call.to # f
  BY <1>3, <1>4, <1>5, SubtreeIsClosed
<1>9. call.to \notin Subtree(t, n)
  <2>1. n \in Subtree(t, f)
    BY <1>6, <1>7, <1>8 DEF Closed
  <2> QED BY <1>3, <1>4, <1>5, <2>1, SubtreeIsTransitive
<1>10. call.anchor # Null => call.anchor # n /\ t.parent[call.anchor] = call.to
  BY <1>5, <1>7, <1>8
<1>11. SameCall(call, call') /\ ~Idle /\ ~Idle' /\ call'.to \in Nodes
  BY <1>2, <1>5, CallStays
<1>12. CallOf(call) /\ call.to \notin Kept
  BY <1>5, CallIs
<1>13. CallOf(call')
  <2>1. CallFields' /\ CallInv'
    BY DEF TreeInv, Types
  <2>2. call'.frag \notin ToSet(call'.todo) /\ IsInjective(call'.todo)
    BY <2>1 DEF CallInv, Listed
  <2> QED BY <1>11, <2>1, <2>2 DEF CallOf, CallFields
<1>14. call'.todo = call.todo /\ call'.frag = call.frag /\ call'.moving = Tail(call.moving) /\ call'.emptying = call.emptying
  BY <1>2, <1>3 DEF CallFields
<1>15. t' = Placed(t, call.to, call.anchor, n)
  BY <1>2 DEF Placed, Put
<1>16. /\ Emptying \in SUBSET Nodes /\ Moving \in SUBSET Nodes /\ call.to \notin Emptying
       /\ \A m \in Nodes : m \in Emptying <=> m = call.frag
  <2>1. Moving \in SUBSET Nodes
    BY <1>3 DEF Moving, ToSet, CallFields
  <2> QED BY <1>4, <1>8, <2>1, NodesAssumption DEF Emptying
<1>17. PICK a, b \in Seq(Nodes) : Placing(a, b)
  BY <1>5, <1>11 DEF PromiseInv
<1>18. PICK c, d, u, v, A, F, M : c = call /\ d = call' /\ u = t /\ v = t' /\ A = Kept /\ F = Emptying /\ M = Moving
  OBVIOUS
<1>19. Moved(t, t', n, call.to)
  <2> DEFINE to == c.to
             anchor == c.anchor
  <2>1. to \in Nodes \ F /\ anchor \in Nodes \cup {Null} /\ to \notin Subtree(u, n)
        /\ (anchor # Null => anchor # n /\ u.parent[anchor] = to) /\ v = Placed(u, to, anchor, n)
    BY <1>5, <1>9, <1>10, <1>12, <1>15, <1>16, <1>18 DEF CallOf
  <2>2. F \in SUBSET Nodes /\ M \in SUBSET Nodes /\ Shape(u, F, M) /\ n \in M /\ u \in Links
    BY <1>3, <1>6, <1>16, <1>18
  <2> HIDE DEF to, anchor
  <2>3. Moved(u, v, n, to)
    BY <1>6, <2>1, <2>2, PutShape
  <2> QED BY <1>18, <2>3 DEF to
<1>20. Kept' = Kept
  <2>1. call.anchor \in Nodes \cup {Null}
    BY <1>12 DEF CallOf
  <2> QED BY <1>3, <1>5, <1>6, <1>9, <1>10, <1>11, <1>19, <2>1, KeptStays
<1>21. StartsWith(Rest(t, call, Kept), n, Rest(t, call', Kept)) /\ Opened(call', Kept) = Opened(call, Kept)
  <2> DEFINE r == Forest!Contents(KidsOf(t), Only(call.todo, Kept))
             ms == call.moving
             tl == Tail(call.moving)
             x == <<n>>
  <2>1. r \in Seq(Nodes)
    BY <1>3, <1>12, RestType
  <2>2. tl \in Seq(Nodes) /\ x \in Seq(Nodes) /\ ms = x \o tl
    <3>1. ms \in Seq(Nodes) /\ ms # <<>> /\ Head(ms) = n
      BY <1>1, <1>2, <1>3 DEF CallFields
    <3> HIDE DEF ms
    <3>2. ms = <<Head(ms)>> \o Tail(ms)
      BY <3>1
    <3> QED BY <1>6, <3>1, <3>2 DEF ms
  <2>3. Rest(t, call, Kept) = ms \o r /\ Rest(t, call', Kept) = tl \o r
    BY <1>14 DEF Rest
  <2> HIDE DEF r, ms, tl, x
  <2>4. Joined(x, tl, r)
    BY <2>1, <2>2, ConcatsJoin
  <2>5. Rest(t, call, Kept) = x \o Rest(t, call', Kept)
    BY <2>2, <2>3, <2>4 DEF Joined
  <2> QED BY <1>14, <2>5 DEF StartsWith, Opened, x
<1>22. a \o <<n>> \in Seq(Nodes) /\ InPlace(v, d, A, a \o <<n>>, b)
  <2>1. /\ u \in Links /\ CallOf(c) /\ InPlace(u, c, A, a, b) /\ ~ c.emptying /\ (A # {} \/ c.frag # Null)
        /\ F \in SUBSET Nodes /\ (\A m \in Nodes : m \in F <=> m = c.frag) /\ M \in SUBSET Nodes /\ Shape(u, F, M)
        /\ (n \in M \/ Loose(u, n)) /\ c.to \notin F /\ c.to \notin Subtree(u, n)
    BY <1>3, <1>4, <1>5, <1>6, <1>9, <1>12, <1>16, <1>17, <1>18, NodesAssumption DEF Placing
  <2>2. /\ (c.anchor # Null => c.anchor # n /\ u.parent[c.anchor] = c.to) /\ v = Placed(u, c.to, c.anchor, n)
        /\ CallOf(d) /\ SameCall(c, d) /\ d.frag = c.frag /\ ~ d.emptying
        /\ StartsWith(Rest(u, c, A), n, Rest(u, d, A)) /\ c.to \notin A
        /\ (\A m \in Nodes : m \in Opened(d, A) <=> m \in Opened(c, A))
    BY <1>5, <1>10, <1>11, <1>12, <1>13, <1>14, <1>15, <1>18, <1>21
  <2> QED BY <1>6, <1>17, <2>1, <2>2, PutStays, SMTT(40)
<1>23. Placing(a \o <<n>>, b)'
  BY <1>18, <1>20, <1>22 DEF Placing
<1> QED BY <1>11, <1>17, <1>22, <1>23, PromiseStays

LEMMA FinishFragmentPlaces == ASSUME TreeInv, PromiseInv, FinishFragment PROVE Goes
<1>1. call.frag # Null /\ call.moving = <<>> /\ t' = ForgetChildren(t, call.frag) /\ call' = [call EXCEPT !.frag = Null]
  BY DEF FinishFragment
<1>2. Types /\ CallInv /\ CallFields /\ t \in Links /\ Shape(t, Emptying, Moving)
  BY DEF TreeInv, Types, Shaped
<1>3. call.frag \in Nodes /\ call.to \in Nodes /\ ~call.emptying /\ Emptying = {call.frag} /\ Moving = {}
  <2>1. call.frag \in Nodes /\ call.to \in Nodes /\ ~call.emptying
    BY <1>1, <1>2 DEF CallInv, CallFields
  <2>2. Emptying = {call.frag} /\ Moving = {}
    BY <1>1 DEF Emptying, Moving, ToSet
  <2> QED BY <2>1, <2>2
<1>4. call.frag # call.to
  BY <1>2, <1>3, NodesAssumption, SubtreeIsClosed DEF CallInv
<1>5. SameCall(call, call') /\ ~Idle /\ ~Idle' /\ call'.to \in Nodes
  BY <1>1, <1>3, CallStays
<1>6. CallOf(call)
  BY <1>3, CallIs
<1>7. call'.todo = call.todo /\ call'.frag = Null /\ call'.moving = call.moving /\ ~call'.emptying
  BY <1>1, <1>2, <1>3 DEF CallFields
<1>8. Shape(t, {call.frag}, {})
  BY <1>2, <1>3
<1>9. t'.parent = t.parent /\ t' \in Links
  BY <1>1, <1>2, <1>3, <1>8, ForgetShape
<1>10. Kept' = Kept
  <2>1. \A n \in Nodes : Subtree(t', n) = Subtree(t, n)
    BY <1>2, <1>9, SubtreeByParents
  <2> QED BY <1>5, <1>9, <2>1 DEF Kept, MayInsert, SameCall
<1>11. PICK a, b \in Seq(Nodes) : Placing(a, b)
  BY <1>3, <1>5 DEF PromiseInv
<1>12. PICK c, d, u, v, A : c = call /\ d = call' /\ u = t /\ v = t' /\ A = Kept
  OBVIOUS
<1>13. /\ u \in Links /\ CallOf(c) /\ InPlace(u, c, A, a, b) /\ ~ c.emptying /\ c.frag \in Nodes /\ c.moving = <<>>
       /\ c.frag # c.to /\ Shape(u, {c.frag}, {}) /\ v = ForgetChildren(u, c.frag)
       /\ SameCall(c, d) /\ d.todo = c.todo /\ d.moving = c.moving /\ d.frag = Null /\ ~ d.emptying
  BY <1>1, <1>2, <1>3, <1>4, <1>5, <1>6, <1>7, <1>8, <1>11, <1>12 DEF Placing
<1>14. InPlace(v, d, A, a, b)
  BY <1>13, FinishStays
<1>15. Placing(a, b)'
  BY <1>10, <1>12, <1>14 DEF Placing
<1> QED BY <1>5, <1>11, <1>15, PromiseStays

LEMMA TakeFirstPlaces == ASSUME TreeInv, PromiseInv, TakeFirst PROVE Goes
<1>1. PICK k : k = t.first_child[call.to]
  OBVIOUS
<1>2. call.emptying /\ t' = Unlink(t, k) /\ call' = [call EXCEPT !.emptying = t.next[k] # Null]
  BY <1>1 DEF TakeFirst
<1>3. Types /\ CallInv /\ CallFields /\ t \in Links /\ Shape(t, Emptying, Moving)
  BY DEF TreeInv, Types, Shaped
<1>4. call.frag = Null /\ call.anchor = Null /\ call.moving = <<>> /\ call.to \in Nodes /\ k # Null
  BY <1>1, <1>2, <1>3 DEF CallInv, CallFields
<1>5. Shape(t, {}, {}) /\ k \in Nodes
  <2>1. Emptying = {} /\ Moving = {}
    BY <1>4 DEF Emptying, Moving, ToSet
  <2> QED BY <1>1, <1>3, <1>4, <2>1 DEF Links, Pointers
<1>6. SameCall(call, call') /\ ~Idle /\ ~Idle' /\ call'.to \in Nodes
  <2>1. \E e : call' = [call EXCEPT !.emptying = e]
    BY <1>2
  <2> QED BY <1>4, <2>1, CallStays
<1>7. CallOf(call) /\ call.to \notin Kept
  BY <1>4, CallIs
<1>8. call'.todo = call.todo /\ call'.frag = call.frag /\ call'.moving = call.moving
  BY <1>2, <1>3 DEF CallFields
<1>9. call'.emptying = (t.next[k] # Null)
  BY <1>2, <1>3 DEF CallFields
<1>10. Kept' = Kept
  BY <1>4, <1>6 DEF Kept, MayInsert, SameCall
<1>11. PICK a, b \in Seq(Nodes) : Placing(a, b)
  BY <1>4, <1>6 DEF PromiseInv
<1>12. PICK c, d, u, v, A : c = call /\ d = call' /\ u = t /\ v = t' /\ A = Kept
  OBVIOUS
<1>13. /\ u \in Links /\ CallOf(c) /\ InPlace(u, c, A, a, b) /\ c.emptying /\ c.anchor = Null /\ c.to \notin A
       /\ Shape(u, {}, {}) /\ k = u.first_child[c.to] /\ v = Unlink(u, k)
       /\ SameCall(c, d) /\ d.todo = c.todo /\ d.moving = c.moving /\ d.frag = c.frag
  BY <1>1, <1>2, <1>3, <1>4, <1>5, <1>6, <1>7, <1>8, <1>11, <1>12 DEF Placing
<1>14. d.emptying = (u.next[k] # Null)
  BY <1>9, <1>12
<1>15. InPlace(v, d, A, a, b)
  BY <1>5, <1>13, <1>14, TakeStays
<1>16. Placing(a, b)'
  BY <1>10, <1>12, <1>15 DEF Placing
<1> QED BY <1>6, <1>11, <1>16, PromiseStays

\* The call is over: its node holds what it promised.
LEMMA ReturnPlaces == ASSUME TreeInv, PromiseInv, Return PROVE Goes
<1>1. /\ ~Idle /\ ~call.emptying /\ call.frag = Null /\ call.todo = <<>> /\ call' = NoCall
      /\ t' = (IF call.drop = Null THEN t ELSE Unlink(t, call.drop))
  BY DEF Return
<1>2. Types /\ CallInv /\ CallFields /\ t \in Links /\ Shape(t, Emptying, Moving)
  BY DEF TreeInv, Types, Shaped
<1>3. call.moving = <<>> /\ call.to \in Nodes
  BY <1>1, <1>2 DEF CallInv, PromiseInv
<1>4. Shape(t, {}, {})
  <2>1. Emptying = {} /\ Moving = {}
    BY <1>1, <1>3 DEF Emptying, Moving, ToSet
  <2> QED BY <1>2, <2>1
<1>5. CallOf(call)
  BY <1>3, CallIs
<1>6. PICK a, b \in Seq(Nodes) : Placing(a, b)
  BY <1>1 DEF PromiseInv
<1>7. PICK c, u, A : c = call /\ u = t /\ A = Kept
  OBVIOUS
<1>8. c.promise = Forest!Without(KidsOf(u), c.drop)
  <2>1. /\ u \in Links /\ CallOf(c) /\ InPlace(u, c, A, a, b) /\ ~ c.emptying /\ c.frag = Null /\ c.todo = <<>> /\ c.moving = <<>>
    BY <1>1, <1>2, <1>3, <1>5, <1>6, <1>7 DEF Placing
  <2> QED BY <1>6, <2>1, NothingToCome
<1>9. KidsOf(t') = Forest!Without(KidsOf(t), call.drop)
  <2>1. CASE call.drop = Null
    <3>1. t' = t
      BY <1>1, <2>1
    <3>2. KidsOf(t) \in [Nodes -> Seq(Nodes)]
      BY <1>2, KidsType
    <3>3. \A p \in Nodes : RemoveFirst(KidsOf(t)[p], Null) = KidsOf(t)[p]
      <4> TAKE p \in Nodes
      <4> DEFINE s == KidsOf(t)[p]
      <4>1. s \in Seq(Nodes)
        BY <3>2
      <4> HIDE DEF s
      <4>2. Null \notin ToSet(s)
        BY <4>1, NodesAssumption DEF ToSet
      <4>3. RemoveFirst(s, Null) = s
        BY <4>1, <4>2, RemoveElsewhere
      <4> QED BY <4>3 DEF s
    <3>4. Forest!Without(KidsOf(t), Null) = KidsOf(t)
      BY <3>2, <3>3, SameNames DEF Forest!Without
    <3> QED BY <2>1, <3>1, <3>4
  <2>2. CASE call.drop # Null
    <3>1. PICK n \in Nodes : n = call.drop
      BY <1>2, <2>2 DEF CallFields
    <3>2. t' = Unlink(t, n)
      BY <1>1, <2>2, <3>1
    <3>3. KidsOf(t') = Forest!Without(KidsOf(t), n)
      BY <1>2, <1>4, <3>2, UnlinkKids
    <3> QED BY <3>1, <3>3
  <2> QED BY <2>1, <2>2
<1>10. Idle'
  BY <1>1 DEF Idle
<1>11. kidsBar' = KidsOf(t')
  <2>1. KidsOf(t)' = KidsOf(t')
    BY DEF KidsOf
  <2> QED BY <1>10, <2>1 DEF kidsBar
<1>12. kidsBar = call.promise
  BY <1>1 DEF kidsBar
<1>13. kidsBar' = kidsBar
  BY <1>7, <1>8, <1>9, <1>11, <1>12
<1>14. PromiseInv'
  BY <1>10 DEF PromiseInv
<1> QED BY <1>13, <1>14 DEF Goes

LEMMA CallStepPlaces == ASSUME TreeInv, TreeInv', PromiseInv, CallStep PROVE Goes
BY InsertNextPlaces, MoveKidPlaces, FinishFragmentPlaces, TakeFirstPlaces, ReturnPlaces DEF CallStep

(***************************************************************************)
(* The lists that a call may pass, and what it promises.                   *)
(***************************************************************************)
\* A list of nodes without parents is one that the forest takes, and who is below none of them
\* may take it.
LEMMA ListOfRoots ==
    ASSUME NEW u \in Links, Shape(u, {}, {}), NEW ns \in Seq(Nodes), IsInjective(ns), Len(ns) <= MaxList,
           \A m \in ToSet(ns) : u.parent[m] = Null
    PROVE  ns \in Forest!Lists(KidsOf(u))
<1> DEFINE R == Forest!Roots(KidsOf(u))
<1>1. \A p \in Nodes : Forest!Children(KidsOf(u), p) = {k \in Nodes : u.parent[k] = p}
  <2> TAKE p \in Nodes
  <2>1. {} \in SUBSET Nodes /\ p \in Nodes \ {}
    OBVIOUS
  <2>2. ToSet(Kids(u, p)) = {k \in Nodes : u.parent[k] = p}
    BY <2>1, KidsAreNodes
  <2> QED BY <2>2, SameNames DEF Forest!Children, KidsOf
<1>2. \A m \in Nodes : u.parent[m] = Null => m \in R
  <2> SUFFICES ASSUME NEW m \in Nodes, u.parent[m] = Null PROVE m \in R
    OBVIOUS
  <2>1. \A p \in Nodes : m \notin Forest!Children(KidsOf(u), p)
    BY <1>1, NodesAssumption
  <2> QED BY <2>1 DEF Forest!Roots
<1>3. Len(ns) \in Nat /\ \A i \in 1..Len(ns) : ns[i] \in Nodes /\ ns[i] \in ToSet(ns)
  <2>1. Len(ns) \in Nat /\ DOMAIN ns = 1..Len(ns) /\ \A i \in 1..Len(ns) : ns[i] \in Nodes
    OBVIOUS
  <2> QED BY <2>1 DEF ToSet
<1>4. \A i \in 1..Len(ns) : ns[i] \in R
  BY <1>2, <1>3
<1> HIDE DEF R
<1>5. ns \in [1..Len(ns) -> R]
  <2>1. ns = [i \in 1..Len(ns) |-> ns[i]]
    OBVIOUS
  <2> QED BY <1>4, <2>1
<1>6. Len(ns) \in 0..MaxList
  BY <1>3, DomAssumption
<1>7. ns \in SeqOf(R, MaxList)
  BY <1>5, <1>6 DEF SeqOf
<1> QED BY <1>7, SameNames DEF Forest!Lists, R

LEMMA TakesThem ==
    ASSUME NEW u \in Links, Shape(u, {}, {}), NEW ns \in Seq(Nodes), NEW p \in Nodes,
           \A m \in ToSet(ns) : p \notin Subtree(u, m)
    PROVE  p \in Forest!Takers(KidsOf(u), ns)
<1>1. \A j \in DOMAIN ns : ns[j] \in Nodes /\ ns[j] \in ToSet(ns)
  BY DEF ToSet
<1>2. \A j \in DOMAIN ns : Forest!Below(KidsOf(u), ns[j]) = Subtree(u, ns[j])
  BY <1>1, BelowIsSubtree
<1>3. \A j \in DOMAIN ns : p \notin Forest!Below(KidsOf(u), ns[j])
  BY <1>1, <1>2
<1> QED BY <1>3 DEF Forest!Takers

LEMMA WithoutNull ==
    ASSUME NEW k \in [Nodes -> Seq(Nodes)]
    PROVE  Forest!Without(k, Null) = k
<1>1. \A p \in Nodes : RemoveFirst(k[p], Null) = k[p]
  <2> TAKE p \in Nodes
  <2> DEFINE s == k[p]
  <2>1. s \in Seq(Nodes)
    OBVIOUS
  <2> HIDE DEF s
  <2>2. Null \notin ToSet(s)
    BY <2>1, NodesAssumption DEF ToSet
  <2>3. RemoveFirst(s, Null) = s
    BY <2>1, <2>2, RemoveElsewhere
  <2> QED BY <2>3 DEF s
<1> QED BY <1>1, SameNames DEF Forest!Without

\* A sequence with what is before a place in it and what is from there on.
LEMMA SplitBefore ==
    ASSUME NEW s \in Seq(Nodes), NEW i \in 1..Len(s)
    PROVE  \E a, b \in Seq(Nodes) : /\ s = a \o b /\ b # <<>> /\ b[1] = s[i]
                                    /\ a = SubSeq(s, 1, i - 1) /\ b = SubSeq(s, i, Len(s))
<1> DEFINE a == SubSeq(s, 1, i - 1)
           b == SubSeq(s, i, Len(s))
           w == a \o b
<1>1. Len(s) \in Nat /\ i \in Nat /\ 1 <= i /\ i <= Len(s) /\ \A j \in 1..Len(s) : s[j] \in Nodes
  OBVIOUS
<1>2. a \in Seq(Nodes) /\ Len(a) = i - 1 /\ \A j \in 1..(i - 1) : a[j] = s[j]
  <2>1. i - 1 \in Nat /\ \A j \in 1..(i - 1) : j \in 1..Len(s)
    BY <1>1
  <2> QED BY <1>1, <2>1
<1>3. b \in Seq(Nodes) /\ Len(b) = Len(s) - i + 1 /\ \A j \in 1..(Len(s) - i + 1) : b[j] = s[i + j - 1]
  BY <1>1
<1> HIDE DEF a, b
<1>4. w \in Seq(Nodes) /\ Len(w) = Len(s)
  BY <1>1, <1>2, <1>3
<1>5. \A j \in 1..Len(s) : w[j] = s[j]
  <2> SUFFICES ASSUME NEW j \in 1..Len(s) PROVE w[j] = s[j]
    OBVIOUS
  <2>1. CASE j <= i - 1
    <3>1. j \in 1..(i - 1) /\ j \in 1..Len(a)
      BY <1>1, <1>2, <2>1
    <3>2. w[j] = a[j]
      BY <1>2, <1>3, <3>1
    <3> QED BY <1>2, <3>1, <3>2
  <2>2. CASE j > i - 1
    <3> DEFINE k == j - (i - 1)
    <3>1. k \in 1..(Len(s) - i + 1) /\ k \in 1..Len(b) /\ j = Len(a) + k /\ i + k - 1 = j
      BY <1>1, <1>2, <1>3, <2>2
    <3> HIDE DEF k
    <3>2. w[Len(a) + k] = b[k]
      BY <1>2, <1>3, <3>1
    <3> QED BY <1>3, <3>1, <3>2
  <2>3. j <= i - 1 \/ j > i - 1
    <3>1. j \in Nat /\ i \in Nat
      BY <1>1
    <3> QED BY <3>1
  <2> QED BY <2>1, <2>2, <2>3
<1>6. w = s
  BY <1>4, <1>5, SequencesEqual
<1>7. b # <<>> /\ b[1] = s[i]
  <2>1. 1 \in 1..(Len(s) - i + 1) /\ i + 1 - 1 = i /\ Len(b) > 0
    BY <1>1, <1>3
  <2> QED BY <1>3, <2>1
<1> QED BY <1>2, <1>3, <1>6, <1>7 DEF w, a, b

\* The children as they will be when the call is done but for drop; as the forest's insertion
\* gives them.
Outcome(u, c, A, a, b) == Settled(u, c, A, a \o Rest(u, c, A) \o b)
Splits(s, a, b) == s = a \o b
SplitsAt(s, i, a, b) == s = a \o b /\ a = SubSeq(s, 1, i) /\ b = SubSeq(s, i + 1, Len(s))

Puts(u, c, A, a, b, i) == Outcome(u, c, A, a, b) = Forest!Inserted(KidsOf(u), c.to, i, Only(c.todo, A))

\* Before the first step of the call.
Starts(c) == CallOf(c) /\ c.frag = Null /\ c.moving = <<>>

\* Nothing was put yet: all that the list stands for is to come.
LEMMA RestStarts ==
    ASSUME NEW u \in Links, NEW c, Starts(c), NEW A
    PROVE  /\ Rest(u, c, A) = Forest!Contents(KidsOf(u), Only(c.todo, A)) /\ Rest(u, c, A) \in Seq(Nodes)
           /\ \A m \in Nodes : m \in Opened(c, A) <=> m \in ToSet(Only(c.todo, A)) \cap Fragments
<1> DEFINE r == Forest!Contents(KidsOf(u), Only(c.todo, A))
<1>1. r \in Seq(Nodes) /\ Rest(u, c, A) \in Seq(Nodes) /\ Rest(u, c, A) = c.moving \o r
  BY RestType DEF Starts, Rest
<1> HIDE DEF r
<1>2. <<>> \o r = r
  BY <1>1, ConcatEmptySeq
<1>3. \A m \in Nodes : m \in Opened(c, A) <=> m \in ToSet(Only(c.todo, A)) \cap Fragments
  BY NodesAssumption DEF Opened, Starts
<1> QED BY <1>1, <1>2, <1>3 DEF Starts, r

\* A call that may insert none of its nodes leaves the children as they are, any other puts its
\* list at the place.
LEMMA NothingPut ==
    ASSUME NEW u \in Links, NEW c, Starts(c), NEW A, NEW a \in Seq(Nodes), NEW b \in Seq(Nodes),
           Splits(Kids(u, c.to), a, b), Only(c.todo, A) = <<>>
    PROVE  Outcome(u, c, A, a, b) = KidsOf(u)
<1>1. Rest(u, c, A) = <<>>
  <2>1. Forest!Contents(KidsOf(u), <<>>) = <<>>
    <3>1. <<>> \in Seq(Nodes)
      OBVIOUS
    <3> QED BY <3>1, KidsType, ContentsHead
  <2> QED BY <2>1, RestStarts
<1>2. \A m \in Nodes : m \notin Opened(c, A)
  BY RestStarts DEF ToSet
<1>3. a \o <<>> = a
  BY ConcatEmptySeq
<1>4. a \o Rest(u, c, A) \o b = Kids(u, c.to)
  BY <1>1, <1>3 DEF Splits
<1> QED BY <1>2, <1>4 DEF Outcome, Settled, KidsOf

LEMMA ListPut ==
    ASSUME NEW u \in Links, NEW c, Starts(c), NEW A, NEW a \in Seq(Nodes), NEW b \in Seq(Nodes), NEW i,
           SplitsAt(Kids(u, c.to), i, a, b)
    PROVE  Puts(u, c, A, a, b, i)
<1> DEFINE k == KidsOf(u)
           put == Only(c.todo, A)
           p == c.to
<1>1. p \in Nodes /\ k[p] = Kids(u, p)
  BY DEF Starts, CallOf, KidsOf
<1>2. SubSeq(k[p], 1, i) \o Forest!Contents(k, put) \o SubSeq(k[p], i + 1, Len(k[p])) = a \o Rest(u, c, A) \o b
  BY <1>1, RestStarts DEF SplitsAt
<1>3. \A m \in Nodes : m \in Opened(c, A) <=> m \in ToSet(put) \cap Fragments
  BY RestStarts
<1>4. \A m \in Nodes : m \in Opened(c, A) <=> m \in Forest!ToSet(put) \cap Fragments
  BY <1>3, SameNames
<1>5. \A m \in Nodes : k[m] = Kids(u, m)
  BY DEF KidsOf
<1> HIDE DEF k, put
<1>6. Forest!Inserted(k, p, i, put) = [m \in Nodes |->
          IF m = p THEN a \o Rest(u, c, A) \o b ELSE IF m \in Opened(c, A) THEN <<>> ELSE Kids(u, m)]
  BY <1>2, <1>4, <1>5 DEF Forest!Inserted
<1> QED BY <1>6 DEF Puts, Outcome, Settled, k, put

----------------------------------------------------------------------------
\* What a call at this place may insert, of all nodes and of its list.
Fit(p, c) == {n \in Nodes : MayInsert(p, n, c)}
PutList(p, c, ns) == Only(ns, Fit(p, c))

LEMMA AfterInsertIs ==
    ASSUME NEW p, NEW c, NEW ns
    PROVE  AfterInsert(p, c, ns) = IF PutList(p, c, ns) = <<>> THEN KidsOf(t)
                                   ELSE Forest!Inserted(KidsOf(t), p, Position(p, c), PutList(p, c, ns))
BY DEF AfterInsert, PutList, Fit

\* The place before c is one among the children of p.
LEMMA PlaceIsThere ==
    ASSUME t \in Links, Shape(t, {}, {}), NEW p \in Nodes, NEW c \in Nodes \cup {Null}, c # Null => t.parent[c] = p
    PROVE  /\ Position(p, c) \in 0..Len(Kids(t, p))
           /\ c # Null => Position(p, c) + 1 \in 1..Len(Kids(t, p)) /\ Kids(t, p)[Position(p, c) + 1] = c
<1> DEFINE s == Kids(t, p)
<1>1. s \in Seq(Nodes) /\ ToSet(s) = {k \in Nodes : t.parent[k] = p}
  <2>1. {} \in SUBSET Nodes /\ p \in Nodes \ {}
    OBVIOUS
  <2> QED BY <2>1, KidsAreNodes
<1> HIDE DEF s
<1>2. Len(s) \in Nat /\ DOMAIN s = 1..Len(s)
  BY <1>1
<1>3. CASE c = Null
  <2>1. Position(p, c) = Len(s)
    BY <1>3 DEF Position, s
  <2>2. Len(s) \in 0..Len(s)
    BY <1>2
  <2> QED BY <1>3, <2>1, <2>2 DEF s
<1>4. CASE c # Null
  <2> DEFINE i == CHOOSE i \in DOMAIN s : s[i] = c
  <2>1. \E j \in DOMAIN s : s[j] = c
    BY <1>1, <1>4 DEF ToSet
  <2>2. i \in DOMAIN s /\ s[i] = c
    BY <2>1
  <2>3. Position(p, c) = i - 1
    BY <1>4 DEF Position, s
  <2> HIDE DEF i
  <2>4. i \in 1..Len(s)
    BY <1>2, <2>2
  <2>5. i - 1 \in 0..Len(s) /\ (i - 1) + 1 = i
    BY <1>2, <2>4
  <2> QED BY <2>2, <2>3, <2>4, <2>5 DEF s
<1> QED BY <1>3, <1>4

\* The call that begins will do what it promises.
LEMMA BeginsInPlace ==
    ASSUME t \in Links, Shape(t, {}, {}), NEW d, Starts(d), ~ d.emptying,
           d.promise = Forest!Without(AfterInsert(d.to, d.anchor, d.todo), d.drop)
    PROVE  \E a, b \in Seq(Nodes) : InPlace(t, d, Fit(d.to, d.anchor), a, b)
<1> DEFINE p == d.to
           c == d.anchor
           A == Fit(p, c)
           s == Kids(t, p)
<1>1. p \in Nodes /\ c \in Nodes \cup {Null} /\ d.frag = Null /\ d.todo \in Seq(Nodes) /\ IsInjective(d.todo)
  BY DEF Starts, CallOf
<1>2. s \in Seq(Nodes)
  BY <1>1, KidsType DEF KidsOf
<1>3. CASE c # Null /\ t.parent[c] # p
  <2>1. A = {}
    BY <1>3 DEF Fit, MayInsert
  <2>2. Only(d.todo, A) = <<>>
    <3>1. Only(d.todo, A) \in Seq(Nodes) /\ ToSet(Only(d.todo, A)) = ToSet(d.todo) \cap A
      BY <1>1, OnlyFacts
    <3> DEFINE o == Only(d.todo, A)
    <3>2. o \in Seq(Nodes) /\ ToSet(o) = {}
      BY <2>1, <3>1
    <3> HIDE DEF o
    <3>3. o = <<>>
      <4>1. Len(o) \in Nat /\ DOMAIN o = 1..Len(o) /\ (Len(o) = 0 => o = <<>>)
        BY <3>2
      <4>2. Len(o) > 0 => 1 \in 1..Len(o)
        BY <4>1
      <4>3. ~ (Len(o) > 0)
        BY <3>2, <4>1, <4>2 DEF ToSet
      <4> QED BY <4>1, <4>3
    <3> QED BY <3>3 DEF o
  <2>3. Splits(s, s, <<>>) /\ <<>> \in Seq(Nodes)
    BY <1>2, ConcatEmptySeq DEF Splits
  <2>4. AfterInsert(p, c, d.todo) = KidsOf(t)
    BY <2>2, AfterInsertIs DEF PutList
  <2>5. Outcome(t, d, A, s, <<>>) = KidsOf(t)
    BY <1>2, <2>2, <2>3, NothingPut
  <2>6. InPlace(t, d, A, s, <<>>)
    BY <1>1, <1>3, <2>1, <2>3, <2>4, <2>5 DEF InPlace, Outcome, Splits
  <2> QED BY <1>2, <2>3, <2>6
<1>4. CASE ~ (c # Null /\ t.parent[c] # p)
  <2> DEFINE i == Position(p, c)
  <2>1. i \in 0..Len(s) /\ (c # Null => i + 1 \in 1..Len(s) /\ s[i + 1] = c)
    BY <1>1, <1>4, PlaceIsThere
  <2>2. PICK a, b \in Seq(Nodes) : SplitsAt(s, i, a, b) /\ (c = Null => b = <<>>) /\ (c # Null => b # <<>> /\ b[1] = c)
    <3> HIDE DEF i, s
    <3>1. CASE c = Null
      <4>1. i = Len(s)
        BY <3>1 DEF Position, i, s
      <4>2. SubSeq(s, 1, Len(s)) = s /\ SubSeq(s, Len(s) + 1, Len(s)) = <<>>
        <5>1. Len(s) \in Nat
          BY <1>2
        <5>2. SubSeq(s, 1, Len(s)) \in Seq(Nodes) /\ Len(SubSeq(s, 1, Len(s))) = Len(s)
          BY <1>2, <5>1
        <5>3. \A j \in 1..Len(s) : SubSeq(s, 1, Len(s))[j] = s[j]
          BY <1>2, <5>1
        <5>4. SubSeq(s, 1, Len(s)) = s
          BY <1>2, <5>2, <5>3, SequencesEqual
        <5>5. SubSeq(s, Len(s) + 1, Len(s)) = <<>>
          BY <1>2, <5>1
        <5> QED BY <5>4, <5>5
      <4>3. s \o <<>> = s /\ <<>> \in Seq(Nodes)
        BY <1>2, ConcatEmptySeq
      <4> QED BY <1>2, <3>1, <4>1, <4>2, <4>3 DEF SplitsAt
    <3>2. CASE c # Null
      <4>1. i + 1 \in 1..Len(s) /\ (i + 1) - 1 = i /\ s[i + 1] = c
        <5>1. i \in Nat
          BY <2>1
        <5> QED BY <2>1, <3>2, <5>1
      <4>2. PICK a, b \in Seq(Nodes) : s = a \o b /\ b # <<>> /\ b[1] = s[i + 1]
                                       /\ a = SubSeq(s, 1, (i + 1) - 1) /\ b = SubSeq(s, i + 1, Len(s))
        BY <1>2, <4>1, SplitBefore
      <4> QED BY <3>2, <4>1, <4>2 DEF SplitsAt
    <3> QED BY <3>1, <3>2
  <2> HIDE DEF i
  <2>3. Splits(s, a, b)
    BY <2>2 DEF SplitsAt, Splits
  <2>4. AfterInsert(p, c, d.todo) = Outcome(t, d, A, a, b)
    <3>1. CASE Only(d.todo, A) = <<>>
      <4>1. AfterInsert(p, c, d.todo) = KidsOf(t)
        BY <3>1, AfterInsertIs DEF PutList
      <4> QED BY <2>2, <2>3, <3>1, <4>1, NothingPut
    <3>2. CASE Only(d.todo, A) # <<>>
      <4>1. AfterInsert(p, c, d.todo) = Forest!Inserted(KidsOf(t), p, i, Only(d.todo, A))
        BY <3>2, AfterInsertIs DEF PutList, i
      <4>2. Outcome(t, d, A, a, b) = Forest!Inserted(KidsOf(t), p, i, Only(d.todo, A))
        <5>1. SplitsAt(Kids(t, d.to), i, a, b)
          BY <2>2
        <5>2. Puts(t, d, A, a, b, i)
          BY <5>1, ListPut
        <5> QED BY <5>2 DEF Puts
      <4> QED BY <4>1, <4>2
    <3> QED BY <3>1, <3>2
  <2>5. c # Null => t.parent[c] = p
    BY <1>4
  <2>6. InPlace(t, d, A, a, b)
    BY <1>1, <2>2, <2>3, <2>4, <2>5 DEF InPlace, Outcome, Splits
  <2> QED BY <2>2, <2>6
<1> QED BY <1>3, <1>4

\* The same for a call that takes the old children away first.
LEMMA RefillsInPlace ==
    ASSUME t \in Links, Shape(t, {}, {}), NEW d, Starts(d), d.anchor = Null, d.drop = Null,
           d.emptying = (t.first_child[d.to] # Null),
           d.promise = Forest!Inserted(Forest!Emptied(KidsOf(t), {d.to}), d.to, 0, PutList(d.to, Null, d.todo))
    PROVE  InPlace(t, d, Fit(d.to, d.anchor), <<>>, <<>>)
<1> DEFINE p == d.to
           A == Fit(p, d.anchor)
           k == KidsOf(t)
           l == Forest!Emptied(k, {p})
           put == Only(d.todo, A)
           r == Rest(t, d, A)
<1>1. p \in Nodes /\ d.frag = Null /\ d.todo \in Seq(Nodes) /\ IsInjective(d.todo)
  BY DEF Starts, CallOf
<1>2. put \in Seq(Nodes) /\ ToSet(put) = ToSet(d.todo) \cap A /\ put = PutList(d.to, Null, d.todo)
  BY <1>1, OnlyFacts DEF PutList
<1>3. p \notin ToSet(put)
  BY <1>2 DEF Fit, MayInsert
<1>4. k \in [Nodes -> Seq(Nodes)] /\ \A m \in Nodes : k[m] = Kids(t, m)
  BY KidsType DEF KidsOf
<1>5. r = Forest!Contents(k, put) /\ r \in Seq(Nodes) /\ \A m \in Nodes : m \in Opened(d, A) <=> m \in ToSet(put) \cap Fragments
  BY RestStarts
<1> HIDE DEF k, put, A, r
<1>6. l \in [Nodes -> Seq(Nodes)] /\ l[p] = <<>> /\ \A m \in Nodes : m # p => l[m] = k[m]
  <2>1. <<>> \in Seq(Nodes)
    OBVIOUS
  <2> QED BY <1>1, <1>4, <2>1 DEF Forest!Emptied
<1> HIDE DEF l
<1>7. Forest!Contents(l, put) = r
  <2>1. \A m \in ToSet(put) \cap Fragments : l[m] = k[m]
    BY <1>3, <1>6, DomAssumption
  <2>2. SameContents(l, k, put)
    BY <1>2, <1>4, <1>6, <2>1, ContentsSame
  <2> QED BY <1>5, <2>2 DEF SameContents
<1>8. SubSeq(l[p], 1, 0) \o r \o SubSeq(l[p], 0 + 1, Len(l[p])) = r
  <2>1. SubSeq(<<>>, 1, 0) = <<>> /\ Len(<<>>) = 0 /\ 0 + 1 = 1
    OBVIOUS
  <2>2. <<>> \o r = r /\ r \o <<>> = r
    BY <1>5, ConcatEmptySeq
  <2> QED BY <1>6, <2>1, <2>2
<1>9. <<>> \o r \o <<>> = r
  BY <1>5, ConcatEmptySeq
<1>10. \A m \in Nodes : m \in Opened(d, A) <=> m \in Forest!ToSet(put) \cap Fragments
  BY <1>5, SameNames
<1>11. Forest!Inserted(l, p, 0, put) = [m \in Nodes |-> IF m = p THEN r ELSE IF m \in Opened(d, A) THEN <<>> ELSE Kids(t, m)]
  BY <1>4, <1>6, <1>7, <1>8, <1>10 DEF Forest!Inserted
<1>12. Settled(t, d, A, <<>> \o r \o <<>>) = Forest!Inserted(l, p, 0, put)
  BY <1>9, <1>11 DEF Settled
<1>13. d.promise = Forest!Inserted(l, p, 0, put)
  BY <1>2 DEF l, k
<1>14. Forest!Without(Settled(t, d, A, <<>> \o r \o <<>>), Null) = Settled(t, d, A, <<>> \o r \o <<>>)
  <2>1. Settled(t, d, A, <<>> \o r \o <<>>) \in [Nodes -> Seq(Nodes)]
    <3>1. <<>> \in Seq(Nodes)
      OBVIOUS
    <3>2. \A m \in Nodes : Kids(t, m) \in Seq(Nodes)
      BY <1>4
    <3> QED BY <1>5, <1>9, <3>1, <3>2 DEF Settled
  <2> QED BY <2>1, WithoutNull
<1>15. ~ d.emptying => Kids(t, p) = <<>>
  <2> SUFFICES ASSUME t.first_child[p] = Null PROVE Kids(t, p) = <<>>
    OBVIOUS
  <2>1. <<>> \in Seq(Nodes) /\ Len(<<>>) = 0
    OBVIOUS
  <2>2. IsKids(t, p, <<>>)
    BY <2>1 DEF IsKids
  <2>3. {} \in SUBSET Nodes /\ p \in Nodes \ {}
    BY <1>1
  <2> QED BY <2>2, <2>3, KidsAre
<1>16. <<>> \o <<>> = <<>>
  OBVIOUS
<1>17. d.promise = Forest!Without(Settled(t, d, A, <<>> \o r \o <<>>), d.drop)
  BY <1>12, <1>13, <1>14
<1>18. IF d.emptying THEN TRUE ELSE Kids(t, p) = <<>> \o <<>>
  BY <1>15, <1>16
<1> QED BY <1>17, <1>18 DEF InPlace, A, r

----------------------------------------------------------------------------
(***************************************************************************)
(* What a step does to the children is a step of the forest.               *)
(***************************************************************************)
ForestStep == Forest!Next \/ kidsBar' = kidsBar

LEMMA InsertionIsStep ==
    ASSUME NEW k, kidsBar = k, NEW ns \in Forest!Lists(k), NEW p \in Forest!Takers(k, ns), NEW i \in 0..Len(k[p]),
           kidsBar' = Forest!Inserted(k, p, i, ns)
    PROVE  ForestStep
<1>1. Forest!Inserted(k, p, i, ns) \in Forest!Insertions(k, ns)
  BY DEF Forest!Insertions
<1> QED BY <1>1 DEF ForestStep, Forest!Next

LEMMA ReplacementIsStep ==
    ASSUME NEW k, kidsBar = k, NEW ns \in Forest!Lists(k), NEW p \in Forest!Takers(k, ns), NEW i \in 1..Len(k[p]),
           kidsBar' = Forest!Without(Forest!Inserted(k, p, i - 1, ns), k[p][i])
    PROVE  ForestStep
<1>1. Forest!Without(Forest!Inserted(k, p, i - 1, ns), k[p][i]) \in Forest!Replacements(k, ns)
  BY DEF Forest!Replacements
<1> QED BY <1>1 DEF ForestStep, Forest!Next

LEMMA RefillIsStep ==
    ASSUME NEW k, kidsBar = k, NEW ns \in Forest!Lists(k), NEW p \in Forest!Takers(k, ns), NEW S,
           S = {p} \/ S = Forest!Below(k, p), kidsBar' = Forest!Inserted(Forest!Emptied(k, S), p, 0, ns)
    PROVE  ForestStep
<1>1. Forest!Inserted(Forest!Emptied(k, S), p, 0, ns) \in Forest!Refills(k, ns)
  BY DEF Forest!Refills
<1> QED BY <1>1 DEF ForestStep, Forest!Next

LEMMA RemovalIsStep ==
    ASSUME NEW k, kidsBar = k, NEW n \in Nodes, kidsBar' = Forest!Without(k, n)
    PROVE  ForestStep
BY DEF ForestStep, Forest!Next, Forest!Removals

LEMMA DestructionIsStep ==
    ASSUME NEW k, kidsBar = k, NEW n \in Nodes, kidsBar' = Forest!Emptied(Forest!Without(k, n), Forest!Below(k, n))
    PROVE  ForestStep
BY DEF ForestStep, Forest!Next, Forest!Destructions

LEMMA ClosingIsStep ==
    ASSUME kidsBar' = Forest!Empty
    PROVE  ForestStep
BY DEF ForestStep, Forest!Next

\* What a call offers that has passed its checks.
LEMMA PutFacts ==
    ASSUME TreeInv, Idle, NEW p \in Nodes, NEW c \in Nodes \cup {Null}, NEW ns \in Seq(Movable), Len(ns) <= MaxList,
           Offers(p, c, ns)
    PROVE  /\ ns \in Seq(Nodes) /\ IsInjective(ns)
           /\ PutList(p, c, ns) \in Forest!Lists(KidsOf(t)) /\ p \in Forest!Takers(KidsOf(t), PutList(p, c, ns))
           /\ PutList(p, c, ns) # <<>> /\ c # Null => t.parent[c] = p
<1> DEFINE put == PutList(p, c, ns)
<1>1. t \in Links /\ Shape(t, {}, {})
  BY IdleFacts DEF Types
<1>2. ns \in Seq(Nodes) /\ IsInjective(ns) /\ \A m \in ToSet(ns) : m \in Nodes /\ t.parent[m] = Null
  <2>1. \A m \in Movable : m \in Nodes /\ t.parent[m] = Null
    BY ReachIsOwned DEF Movable, Loose
  <2>2. Movable \subseteq Nodes /\ \A i \in DOMAIN ns : ns[i] \in Movable
    BY <2>1
  <2> QED BY <2>1, <2>2 DEF Offers, ToSet
<1>3. put \in Seq(Nodes) /\ IsInjective(put) /\ Len(put) <= Len(ns) /\ ToSet(put) = ToSet(ns) \cap Fit(p, c)
  BY <1>2, OnlyFacts DEF PutList
<1> HIDE DEF put
<1>4. Len(put) <= MaxList
  <2>1. Len(put) \in Nat /\ Len(ns) \in Nat /\ MaxList \in Nat
    BY <1>2, <1>3, DomAssumption
  <2>2. Len(put) <= Len(ns)
    BY <1>3
  <2> QED BY <2>1, <2>2
<1>5. put \in Forest!Lists(KidsOf(t))
  <2>1. \A m \in ToSet(put) : t.parent[m] = Null
    BY <1>2, <1>3
  <2> QED BY <1>1, <1>3, <1>4, <2>1, ListOfRoots
<1>6. ASSUME NEW m \in ToSet(put) PROVE p \notin Subtree(t, m)
  <2>1. m \in Nodes /\ m \in ToSet(ns) /\ MayInsert(p, m, c)
    BY <1>2, <1>3 DEF Fit
  <2>2. CASE c = Null
    <3>1. PICK i \in DOMAIN ns : m = ns[i]
      BY <2>1 DEF ToSet
    <3> QED BY <2>1, <2>2, <3>1 DEF Offers, MayInsert
  <2>3. CASE c # Null
    <3>1. c \in Nodes /\ t.parent[c] = p /\ c \notin Subtree(t, m)
      BY <2>1, <2>3 DEF MayInsert
    <3> QED BY <1>1, <2>1, <3>1, SubtreeIsClosed DEF Closed
  <2> QED BY <2>2, <2>3
<1>7. p \in Forest!Takers(KidsOf(t), put)
  BY <1>1, <1>3, <1>6, TakesThem
<1>8. put # <<>> /\ c # Null => t.parent[c] = p
  <2> SUFFICES ASSUME put # <<>>, c # Null PROVE t.parent[c] = p
    OBVIOUS
  <2>1. Len(put) \in Nat /\ DOMAIN put = 1..Len(put) /\ Len(put) # 0
    BY <1>3
  <2>2. 1 \in DOMAIN put
    BY <2>1
  <2>3. put[1] \in Fit(p, c)
    BY <1>3, <2>2 DEF ToSet
  <2> QED BY <2>3 DEF Fit, MayInsert
<1> QED BY <1>2, <1>5, <1>7, <1>8 DEF put

LEMMA InsertedType ==
    ASSUME NEW k \in [Nodes -> Seq(Nodes)], NEW p \in Nodes, NEW i \in 0..Len(k[p]), NEW ns \in Seq(Nodes)
    PROVE  Forest!Inserted(k, p, i, ns) \in [Nodes -> Seq(Nodes)]
<1> DEFINE s == k[p]
           a == SubSeq(s, 1, i)
           b == SubSeq(s, i + 1, Len(s))
           r == Forest!Contents(k, ns)
<1>1. s \in Seq(Nodes) /\ i \in 0..Len(s)
  OBVIOUS
<1>2. r \in Seq(Nodes) /\ <<>> \in Seq(Nodes)
  BY ContentsHead
<1> HIDE DEF s, r
<1>3. a \in Seq(Nodes) /\ b \in Seq(Nodes)
  <2>1. Len(s) \in Nat /\ i \in Nat /\ i <= Len(s)
    BY <1>1
  <2> QED BY <1>1, <2>1
<1> HIDE DEF a, b
<1>4. a \o r \o b \in Seq(Nodes)
  BY <1>2, <1>3
<1> DEFINE w == a \o r \o b
<1>5. Forest!Inserted(k, p, i, ns) = [n \in Nodes |-> IF n = p THEN w ELSE IF n \in Forest!ToSet(ns) \cap Fragments THEN <<>> ELSE k[n]]
  BY DEF Forest!Inserted, w, a, b, r, s
<1> HIDE DEF w
<1> QED BY <1>2, <1>4, <1>5 DEF w

\* The call that begins.
LEMMA CallStarts ==
    ASSUME NEW p \in Nodes, NEW c \in Nodes \cup {Null}, NEW ns \in Seq(Nodes), IsInjective(ns), NEW e, NEW n, NEW promise,
           call' = [to |-> p, anchor |-> c, todo |-> ns, frag |-> Null, moving |-> <<>>, emptying |-> e, drop |-> n,
                    promise |-> promise]
    PROVE  /\ Starts(call') /\ call'.to = p /\ call'.anchor = c /\ call'.todo = ns /\ call'.drop = n
           /\ call'.emptying = e /\ call'.promise = promise /\ ~Idle' /\ kidsBar' = promise
<1>1. /\ call'.to = p /\ call'.anchor = c /\ call'.todo = ns /\ call'.drop = n /\ call'.frag = Null
      /\ call'.moving = <<>> /\ call'.promise = promise
  OBVIOUS
<1>2. call'.emptying = e
  OBVIOUS
<1>3. Starts(call')
  <2>1. <<>> \in Seq(Nodes)
    OBVIOUS
  <2>2. Null \notin ToSet(ns)
    BY NodesAssumption DEF ToSet
  <2> QED BY <1>1, <2>1, <2>2 DEF Starts, CallOf
<1>4. ~Idle'
  BY <1>1, NodesAssumption DEF Idle, NoCall
<1>5. kidsBar' = promise
  BY <1>1, <1>4 DEF kidsBar
<1> QED BY <1>1, <1>2, <1>3, <1>4, <1>5

LEMMA PlacingStarts ==
    ASSUME t' = t, ~Idle', call'.to \in Nodes,
           \E a, b \in Seq(Nodes) : InPlace(t, call', Fit(call'.to, call'.anchor), a, b)
    PROVE  PromiseInv'
<1>1. PICK a, b \in Seq(Nodes) : InPlace(t, call', Fit(call'.to, call'.anchor), a, b)
  OBVIOUS
<1>2. Kept' = Fit(call'.to, call'.anchor)
  BY DEF Kept, Fit, MayInsert
<1>3. Placing(a, b)'
  BY <1>1, <1>2 DEF Placing
<1> QED BY <1>1, <1>3 DEF PromiseInv

\* The client's calls: a call that begins, as a step of the forest, puts its list into its place
\* at once; its steps put the nodes there one by one.
LEMMA BeginPlaces ==
    ASSUME TreeInv, NEW p \in Nodes, NEW c \in Nodes \cup {Null}, NEW ns \in Seq(Movable), Len(ns) <= MaxList,
           Begin(p, c, ns)
    PROVE  PromiseInv' /\ ForestStep
<1>1. Idle /\ Offers(p, c, ns) /\ t' = t
  BY DEF Begin
<1>2. t \in Links /\ Shape(t, {}, {})
  BY <1>1, IdleFacts DEF Types
<1>3. /\ ns \in Seq(Nodes) /\ IsInjective(ns)
      /\ PutList(p, c, ns) \in Forest!Lists(KidsOf(t)) /\ p \in Forest!Takers(KidsOf(t), PutList(p, c, ns))
      /\ PutList(p, c, ns) # <<>> /\ c # Null => t.parent[c] = p
  BY <1>1, PutFacts
<1>4. PICK promise : promise = AfterInsert(p, c, ns)
  OBVIOUS
<1>5. /\ Starts(call') /\ call'.to = p /\ call'.anchor = c /\ call'.todo = ns /\ call'.drop = Null
      /\ call'.emptying = FALSE /\ call'.promise = promise /\ ~Idle' /\ kidsBar' = promise
  <2>1. PICK e : e = FALSE
    OBVIOUS
  <2>2. call' = [to |-> p, anchor |-> c, todo |-> ns, frag |-> Null, moving |-> <<>>, emptying |-> e, drop |-> Null,
                 promise |-> promise]
    BY <1>4, <2>1 DEF Begin, NoCall
  <2>3. /\ Starts(call') /\ call'.to = p /\ call'.anchor = c /\ call'.todo = ns /\ call'.drop = Null
        /\ call'.emptying = e /\ call'.promise = promise /\ ~Idle' /\ kidsBar' = promise
    BY <1>3, <2>2, CallStarts
  <2> QED BY <2>1, <2>3
<1>6. kidsBar = KidsOf(t) /\ KidsOf(t) \in [Nodes -> Seq(Nodes)]
  BY <1>1, <1>2, KidsType DEF kidsBar
<1>7. CASE PutList(p, c, ns) = <<>>
  <2>1. promise = KidsOf(t)
    BY <1>4, <1>7, AfterInsertIs
  <2>2. call'.promise = Forest!Without(AfterInsert(p, c, ns), Null)
    BY <1>4, <1>5, <1>6, <2>1, WithoutNull
  <2>3. PromiseInv'
    BY <1>1, <1>2, <1>5, <2>2, BeginsInPlace, PlacingStarts
  <2> QED BY <1>5, <1>6, <2>1, <2>3 DEF ForestStep
<1>8. CASE PutList(p, c, ns) # <<>>
  <2> DEFINE k == KidsOf(t)
             put == PutList(p, c, ns)
             i == Position(p, c)
  <2>1. promise = Forest!Inserted(k, p, i, put)
    BY <1>4, <1>8, AfterInsertIs
  <2>2. i \in 0..Len(Kids(t, p))
    BY <1>2, <1>3, <1>8, PlaceIsThere
  <2>3. k[p] = Kids(t, p)
    BY DEF KidsOf
  <2>4. k \in [Nodes -> Seq(Nodes)] /\ kidsBar = k /\ put \in Forest!Lists(k) /\ p \in Forest!Takers(k, put)
        /\ i \in 0..Len(k[p]) /\ kidsBar' = Forest!Inserted(k, p, i, put)
    BY <1>3, <1>5, <1>6, <2>1, <2>2, <2>3
  <2> HIDE DEF k, put, i
  <2>5. ForestStep
    BY <2>4, InsertionIsStep
  <2>6. PromiseInv'
    <3>1. PICK a, b \in Seq(Nodes) : InPlace(t, call', Fit(call'.to, call'.anchor), a, b)
      <4>1. Forest!Without(promise, Null) = promise
        <5>1. put \in Seq(Nodes)
          BY <1>3, OnlyHead DEF put, PutList
        <5>2. promise \in [Nodes -> Seq(Nodes)]
          BY <2>1, <2>4, <5>1, InsertedType
        <5> QED BY <5>2, WithoutNull
      <4> QED BY <1>2, <1>4, <1>5, <4>1, BeginsInPlace
    <3> QED BY <1>1, <1>5, <3>1, PlacingStarts
  <2> QED BY <2>5, <2>6
<1> QED BY <1>7, <1>8

LEMMA BeginAndDropPlaces ==
    ASSUME TreeInv, NEW p \in Nodes, NEW c \in Nodes, NEW ns \in Seq(Movable), Len(ns) <= MaxList,
           NEW n \in Nodes, c = n \/ c = p, BeginAndDrop(p, c, ns, n)
    PROVE  PromiseInv' /\ ForestStep
<1>1. Idle /\ Offers(p, c, ns) /\ t' = t
  BY DEF BeginAndDrop
<1>2. t \in Links /\ Shape(t, {}, {}) /\ c \in Nodes \cup {Null} /\ c # Null
  BY <1>1, IdleFacts, NodesAssumption DEF Types
<1>3. /\ ns \in Seq(Nodes) /\ IsInjective(ns)
      /\ PutList(p, c, ns) \in Forest!Lists(KidsOf(t)) /\ p \in Forest!Takers(KidsOf(t), PutList(p, c, ns))
      /\ PutList(p, c, ns) # <<>> => t.parent[c] = p
  BY <1>1, <1>2, PutFacts
<1>4. PICK promise : promise = Forest!Without(AfterInsert(p, c, ns), n)
  OBVIOUS
<1>5. /\ Starts(call') /\ call'.to = p /\ call'.anchor = c /\ call'.todo = ns /\ call'.drop = n
      /\ call'.emptying = FALSE /\ call'.promise = promise /\ ~Idle' /\ kidsBar' = promise
  <2>1. PICK e : e = FALSE
    OBVIOUS
  <2>2. call' = [to |-> p, anchor |-> c, todo |-> ns, frag |-> Null, moving |-> <<>>, emptying |-> e, drop |-> n,
                 promise |-> promise]
    BY <1>4, <2>1 DEF BeginAndDrop, NoCall
  <2>3. /\ Starts(call') /\ call'.to = p /\ call'.anchor = c /\ call'.todo = ns /\ call'.drop = n
        /\ call'.emptying = e /\ call'.promise = promise /\ ~Idle' /\ kidsBar' = promise
    BY <1>2, <1>3, <2>2, CallStarts
  <2> QED BY <2>1, <2>3
<1>6. kidsBar = KidsOf(t)
  BY <1>1 DEF kidsBar
<1>7. PromiseInv'
  <2>1. call'.promise = Forest!Without(AfterInsert(call'.to, call'.anchor, call'.todo), call'.drop) /\ ~call'.emptying
    BY <1>4, <1>5
  <2>2. PICK a, b \in Seq(Nodes) : InPlace(t, call', Fit(call'.to, call'.anchor), a, b)
    BY <1>2, <1>5, <2>1, BeginsInPlace
  <2> QED BY <1>1, <1>5, <2>2, PlacingStarts
<1> DEFINE k == KidsOf(t)
           put == PutList(p, c, ns)
           i == Position(p, c)
<1>8. CASE put = <<>>
  <2>1. kidsBar' = Forest!Without(k, n)
    BY <1>4, <1>5, <1>8, AfterInsertIs
  <2> QED BY <1>6, <1>7, <2>1, RemovalIsStep
<1>9. CASE put # <<>>
  <2>1. t.parent[c] = p /\ c # p
    <3>1. Fit(p, p) = {}
      BY NodesAssumption DEF Fit, MayInsert
    <3>2. PutList(p, p, ns) = <<>>
      <4> DEFINE o == Only(ns, {})
      <4>1. o \in Seq(Nodes) /\ ToSet(o) = {}
        BY <1>3, OnlyFacts
      <4> HIDE DEF o
      <4>2. Len(o) \in Nat /\ DOMAIN o = 1..Len(o) /\ (Len(o) = 0 => o = <<>>)
        BY <4>1
      <4>3. Len(o) > 0 => 1 \in 1..Len(o)
        BY <4>2
      <4>4. ~ (Len(o) > 0)
        BY <4>1, <4>2, <4>3 DEF ToSet
      <4>5. o = <<>>
        BY <4>2, <4>4
      <4> QED BY <3>1, <4>5 DEF PutList, o
    <3> QED BY <1>3, <1>9, <3>2
  <2>2. c = n
    BY <2>1
  <2>3. i \in 0..Len(Kids(t, p)) /\ i + 1 \in 1..Len(Kids(t, p)) /\ Kids(t, p)[i + 1] = c
    BY <1>2, <2>1, PlaceIsThere
  <2>4. k[p] = Kids(t, p)
    BY DEF KidsOf
  <2>5. kidsBar' = Forest!Without(Forest!Inserted(k, p, i, put), c)
    BY <1>4, <1>5, <1>9, <2>2, AfterInsertIs
  <2> HIDE DEF k, put, i
  <2>6. PICK j : j = i + 1
    OBVIOUS
  <2>7. j - 1 = i
    <3>1. i \in Nat
      BY <2>3
    <3> QED BY <2>6, <3>1
  <2>8. kidsBar = k /\ put \in Forest!Lists(k) /\ p \in Forest!Takers(k, put) /\ j \in 1..Len(k[p])
        /\ kidsBar' = Forest!Without(Forest!Inserted(k, p, j - 1, put), k[p][j])
    BY <1>3, <1>6, <2>3, <2>4, <2>5, <2>6, <2>7 DEF k, put
  <2>9. ForestStep
    BY <2>8, ReplacementIsStep
  <2> QED BY <1>7, <2>9
<1> QED BY <1>8, <1>9

LEMMA ReplaceChildrenPlaces ==
    ASSUME TreeInv, NEW p \in Nodes, NEW ns \in Seq(Movable), Len(ns) <= MaxList, ReplaceChildren(p, ns)
    PROVE  PromiseInv' /\ ForestStep
<1>1. Idle /\ Offers(p, Null, ns) /\ t' = t
  BY DEF ReplaceChildren
<1>2. PICK c \in Nodes \cup {Null} : c = Null
  OBVIOUS
<1>3. t \in Links /\ Shape(t, {}, {})
  BY <1>1, IdleFacts DEF Types
<1>4. /\ ns \in Seq(Nodes) /\ IsInjective(ns)
      /\ PutList(p, c, ns) \in Forest!Lists(KidsOf(t)) /\ p \in Forest!Takers(KidsOf(t), PutList(p, c, ns))
  BY <1>1, <1>2, PutFacts
<1>5. PICK promise : promise = Forest!Inserted(Forest!Emptied(KidsOf(t), {p}), p, 0, PutList(p, c, ns))
  OBVIOUS
<1>6. PICK e : e = (t.first_child[p] # Null)
  OBVIOUS
<1>7. /\ Starts(call') /\ call'.to = p /\ call'.anchor = c /\ call'.todo = ns /\ call'.drop = c
      /\ call'.emptying = e /\ call'.promise = promise /\ ~Idle' /\ kidsBar' = promise
  <2>1. call' = [NoCall EXCEPT !.to = p, !.todo = ns, !.emptying = t.first_child[p] # Null, !.promise = promise]
    BY <1>2, <1>5 DEF ReplaceChildren, PutList, Fit
  <2>2. call' = [to |-> p, anchor |-> c, todo |-> ns, frag |-> Null, moving |-> <<>>, emptying |-> e, drop |-> c,
                 promise |-> promise]
    BY <1>2, <1>6, <2>1 DEF NoCall
  <2> QED BY <1>4, <2>2, CallStarts
<1>8. kidsBar = KidsOf(t)
  BY <1>1 DEF kidsBar
<1>9. PromiseInv'
  <2>1. PICK d : d = call'
    OBVIOUS
  <2>2. Starts(d) /\ d.anchor = Null /\ d.drop = Null
        /\ d.promise = Forest!Inserted(Forest!Emptied(KidsOf(t), {d.to}), d.to, 0, PutList(d.to, Null, d.todo))
    BY <1>2, <1>5, <1>7, <2>1
  <2>3. d.emptying = (t.first_child[d.to] # Null)
    BY <1>6, <1>7, <2>1
  <2>4. InPlace(t, d, Fit(d.to, d.anchor), <<>>, <<>>)
    BY <1>3, <2>2, <2>3, RefillsInPlace
  <2>5. <<>> \in Seq(Nodes)
    OBVIOUS
  <2>6. \E a, b \in Seq(Nodes) : InPlace(t, call', Fit(call'.to, call'.anchor), a, b)
    BY <2>1, <2>4, <2>5
  <2> QED BY <1>1, <1>7, <2>6, PlacingStarts
<1>10. ForestStep
  <2> DEFINE k == KidsOf(t)
             put == PutList(p, c, ns)
  <2>1. PICK S : S = {p}
    OBVIOUS
  <2>2. kidsBar = k /\ put \in Forest!Lists(k) /\ p \in Forest!Takers(k, put)
        /\ (S = {p} \/ S = Forest!Below(k, p)) /\ kidsBar' = Forest!Inserted(Forest!Emptied(k, S), p, 0, put)
    BY <1>4, <1>5, <1>7, <1>8, <2>1
  <2> HIDE DEF k, put
  <2> QED BY <2>2, RefillIsStep
<1> QED BY <1>9, <1>10

----------------------------------------------------------------------------
\* Steps that leave no call under way.
LEMMA IdleBars ==
    ASSUME Idle, Idle'
    PROVE  kidsBar = KidsOf(t) /\ kidsBar' = KidsOf(t') /\ PromiseInv'
<1>1. KidsOf(t)' = KidsOf(t')
  BY DEF KidsOf
<1> QED BY <1>1 DEF kidsBar, PromiseInv

LEMMA RemoveNodePlaces ==
    ASSUME TreeInv, NEW n \in Nodes, RemoveNode(n)
    PROVE  PromiseInv' /\ ForestStep
<1>1. Idle /\ Idle' /\ t' = Unlink(t, n)
  BY DEF RemoveNode, Idle
<1>2. KidsOf(t') = Forest!Without(KidsOf(t), n)
  BY <1>1, IdleFacts, UnlinkKids DEF Types
<1> QED BY <1>1, <1>2, IdleBars, RemovalIsStep

LEMMA DestroyPlaces ==
    ASSUME TreeInv, Idle, Idle', NEW n \in Nodes, t' = DestroyDeep(t, n)
    PROVE  PromiseInv' /\ ForestStep
<1>1. t \in Links /\ Shape(t, {}, {})
  BY IdleFacts DEF Types
<1>2. KidsOf(t') = Forest!Emptied(Forest!Without(KidsOf(t), n), Forest!Below(KidsOf(t), n))
  BY <1>1, DestroyDeepKids, BelowIsSubtree
<1> QED BY <1>2, IdleBars, DestructionIsStep

LEMMA SamePlaces ==
    ASSUME Idle, Idle', t' = t
    PROVE  PromiseInv' /\ ForestStep
BY IdleBars DEF ForestStep

\* The drop of a handle takes nothing from the lists, or destroys a tree of its own.
LEMMA DropHandlePlaces ==
    ASSUME TreeInv, Idle, Idle', NEW n \in Nodes, NEW next, DropHandle(n, next)
    PROVE  PromiseInv' /\ ForestStep
<1>1. t' = DestroyDeep(t, n) \/ t' = t
  BY DEF DropHandle
<1> QED BY <1>1, DestroyPlaces, SamePlaces

LEMMA NothingInserted ==
    ASSUME NEW l \in [Nodes -> Seq(Nodes)], NEW p \in Nodes, l[p] = <<>>
    PROVE  /\ Forest!Inserted(l, p, 0, <<>>) = l
           /\ \A c \in Nodes \ Fragments :
                 Forest!Inserted(l, p, 0, <<c>>) = [m \in Nodes |-> IF m = p THEN <<c>> ELSE l[m]]
<1>1. SubSeq(<<>>, 1, 0) = <<>> /\ Len(<<>>) = 0 /\ 0 + 1 = 1 /\ <<>> \in Seq(Nodes)
  OBVIOUS
<1>2. Forest!Contents(l, <<>>) = <<>>
  BY <1>1, ContentsHead
<1>3. Forest!Inserted(l, p, 0, <<>>) = l
  <2>1. \A m \in Nodes : m \notin Forest!ToSet(<<>>) \cap Fragments
    <3>1. ToSet(<<>>) = {}
      BY DEF ToSet
    <3>2. Forest!ToSet(<<>>) = {}
      BY <3>1, SameNames
    <3> QED BY <3>2
  <2>2. <<>> \o <<>> = <<>>
    OBVIOUS
  <2>3. SubSeq(l[p], 1, 0) \o Forest!Contents(l, <<>>) \o SubSeq(l[p], 0 + 1, Len(l[p])) = l[p]
    BY <1>1, <1>2, <2>2
  <2> QED BY <2>1, <2>3 DEF Forest!Inserted
<1>4. ASSUME NEW c \in Nodes \ Fragments
      PROVE  Forest!Inserted(l, p, 0, <<c>>) = [m \in Nodes |-> IF m = p THEN <<c>> ELSE l[m]]
  <2> DEFINE x == <<c>>
  <2>1. x \in Seq(Nodes) /\ x = <<c>> \o <<>>
    OBVIOUS
  <2>2. Forest!Contents(l, <<c>> \o <<>>) = <<c>> \o Forest!Contents(l, <<>>)
    BY <1>1, ContentsHead
  <2>3. Forest!Contents(l, x) = x
    BY <1>2, <2>1, <2>2
  <2>4. ToSet(x) = {c}
    BY DEF ToSet
  <2>5. \A m \in Nodes : m \notin Forest!ToSet(x) \cap Fragments
    BY <2>4, SameNames
  <2> HIDE DEF x
  <2>6. <<>> \o x = x /\ x \o <<>> = x
    BY <2>1, ConcatEmptySeq
  <2>7. SubSeq(l[p], 1, 0) \o Forest!Contents(l, x) \o SubSeq(l[p], 0 + 1, Len(l[p])) = x
    BY <1>1, <2>3, <2>6
  <2>8. Forest!Inserted(l, p, 0, x) = [m \in Nodes |-> IF m = p THEN x ELSE l[m]]
    BY <2>5, <2>7 DEF Forest!Inserted
  <2> QED BY <2>8 DEF x
<1> QED BY <1>3, <1>4

\* A node without place that becomes the only child of another one.
LEMMA OnlyChildKids ==
    ASSUME NEW u \in Links, Shape(u, {}, {}), NEW n \in Nodes, Loose(u, n), NEW p \in Nodes, p \notin Subtree(u, n),
           Kids(u, p) = <<>>, NEW v, v = InsertChild(u, p, n)
    PROVE  KidsOf(v) = [m \in Nodes |-> IF m = p THEN <<n>> ELSE Kids(u, m)]
<1>1. PICK F \in SUBSET Nodes, anchor \in Nodes \cup {Null} : F = {} /\ anchor = Null
  OBVIOUS
<1>2. PICK a \in Seq(Nodes), b \in Seq(Nodes) : a = <<>> /\ b = <<>>
  <2>1. <<>> \in Seq(Nodes)
    OBVIOUS
  <2> QED BY <2>1
<1>3. Shape(u, F, F) /\ p \in Nodes \ F /\ (n \in F \/ Loose(u, n)) /\ v = Placed(u, p, anchor, n)
      /\ (anchor # Null => anchor # n /\ u.parent[anchor] = p) /\ (anchor = Null => b = <<>>)
      /\ (anchor # Null => b # <<>> /\ b[1] = anchor)
  BY <1>1, <1>2 DEF Placed
<1>4. KidsAround(u, p, a, b)
  <2>1. IsKids(u, p, Kids(u, p))
    BY <1>3, KidsAreNodes
  <2>2. a \o b = <<>>
    BY <1>2
  <2> QED BY <2>1, <2>2 DEF KidsAround
<1>5. KidsWith(u, v, F, p, a, n, b)
  BY <1>3, <1>4, PutKids
<1>6. IsKids(v, p, <<n>>)
  <2>1. a \o <<n>> \o b = <<n>>
    BY <1>2
  <2> QED BY <1>5, <2>1 DEF KidsWith
<1>7. v \in Links /\ Shape(v, {}, {})
  BY AppendShape
<1>8. Kids(v, p) = <<n>>
  BY <1>1, <1>3, <1>6, <1>7, KidsAre
<1>9. \A m \in Nodes : m # p => Kids(v, m) = Kids(u, m)
  BY <1>1, <1>5 DEF KidsWith
<1> QED BY <1>8, <1>9 DEF KidsOf

\* Text and inner HTML destroy what was below and put one new child there.
LEMMA SetContentPlaces ==
    ASSUME TreeInv, NEW p \in InReach, NEW c \in Nodes \cup {Null}, SetContent(p, c)
    PROVE  PromiseInv' /\ ForestStep
<1> DEFINE u == DestroyBelow(t, p)
           D == Subtree(t, p)
           k == KidsOf(t)
           l == Forest!Emptied(k, D)
<1>1. /\ Idle /\ Idle' /\ t' = (IF c = Null THEN u ELSE InsertChild(u, p, c))
      /\ c # Null => refs[c] = 0 /\ c \notin Fragments
  BY DEF SetContent, Idle
<1>2. t \in Links /\ Shape(t, {}, {}) /\ refs \in [Nodes -> Nat] /\ p \in Nodes /\ Owned(p) /\ Counted
  BY <1>1, IdleFacts, ReachIsOwned DEF Types
<1>3. u \in Links /\ Shape(u, {}, {}) /\ KidsOf(u) = l /\ D = Forest!Below(k, p)
      /\ (\A m \in Nodes \ (D \ {p}) : Rooted(u, m) => Rooted(t, m)) /\ \A m \in D \ {p} : ~ Rooted(u, m)
  BY <1>2, DestroyBelowShape, DestroyBelowKids, BelowIsSubtree
<1>4. p \in D
  BY <1>2, SubtreeIsClosed
<1>5. k \in [Nodes -> Seq(Nodes)]
  BY <1>2, KidsType
<1> HIDE DEF u, D, k
<1>6. l \in [Nodes -> Seq(Nodes)] /\ l[p] = <<>>
  <2>1. <<>> \in Seq(Nodes)
    OBVIOUS
  <2> QED BY <1>2, <1>4, <1>5, <2>1 DEF Forest!Emptied
<1>7. kidsBar = k /\ kidsBar' = KidsOf(t') /\ PromiseInv'
  BY <1>1, IdleBars DEF k
<1> HIDE DEF l
<1>8. PICK S : S = Forest!Below(k, p)
  OBVIOUS
<1>9. CASE c = Null
  <2>1. PICK ns \in Seq(Nodes) : ns = <<>>
    <3>1. <<>> \in Seq(Nodes)
      OBVIOUS
    <3> QED BY <3>1
  <2>2. Len(ns) = 0 /\ IsInjective(ns) /\ ToSet(ns) = {}
    BY <2>1 DEF IsInjective, ToSet
  <2>3. ns \in Forest!Lists(k) /\ p \in Forest!Takers(k, ns)
    <3>1. Len(ns) <= MaxList
      BY <2>2, DomAssumption
    <3> QED BY <1>2, <2>2, <3>1, ListOfRoots, TakesThem DEF k
  <2>4. t' = u
    BY <1>1, <1>9
  <2>5. kidsBar' = Forest!Inserted(Forest!Emptied(k, S), p, 0, ns)
    BY <1>3, <1>6, <1>7, <1>8, <2>1, <2>4, NothingInserted, <1>2 DEF l
  <2> QED BY <1>7, <1>8, <2>3, <2>5, RefillIsStep
<1>10. CASE c # Null
  <2>1. c \in Nodes /\ c \notin Fragments /\ refs[c] = 0
    BY <1>1, <1>10
  <2>2. ~ Owned(c)
    <3>1. refs[c] >= Handles(c)
      BY <1>2, <2>1 DEF Counted
    <3>2. Handles(c) \in Nat
      BY <1>1, <2>1, IdleFacts, HandlesType
    <3> QED BY <2>1, <3>1, <3>2 DEF Owned
  <2>3. c # p /\ ~ Rooted(t, c)
    BY <1>2, <2>1, <2>2 DEF Counted
  <2>4. ~ Rooted(u, c)
    BY <1>3, <2>1, <2>3
  <2>5. /\ Loose(t, c) /\ p \notin Subtree(t, c)
        /\ Loose(u, c) /\ p \notin Subtree(u, c)
    BY <1>2, <1>3, <2>1, <2>3, <2>4, ChildlessIsClosed
  <2>6. PICK ns \in Seq(Nodes) : ns = <<c>>
    <3>1. <<c>> \in Seq(Nodes)
      BY <2>1
    <3> QED BY <3>1
  <2>7. Len(ns) = 1 /\ IsInjective(ns) /\ ToSet(ns) = {c}
    BY <2>6 DEF IsInjective, ToSet
  <2>8. ns \in Forest!Lists(k) /\ p \in Forest!Takers(k, ns)
    <3>1. Len(ns) <= MaxList
      BY <2>7, DomAssumption
    <3>2. \A m \in ToSet(ns) : t.parent[m] = Null /\ p \notin Subtree(t, m)
      BY <2>5, <2>7 DEF Loose
    <3> QED BY <1>2, <2>7, <3>1, <3>2, ListOfRoots, TakesThem DEF k
  <2>9. t' = InsertChild(u, p, c)
    BY <1>1, <1>10
  <2>10. \A m \in Nodes : l[m] = Kids(u, m)
    BY <1>3 DEF KidsOf
  <2>11. KidsOf(t') = [m \in Nodes |-> IF m = p THEN <<c>> ELSE Kids(u, m)]
    BY <1>2, <1>3, <1>6, <2>1, <2>5, <2>9, <2>10, OnlyChildKids
  <2>12. Forest!Inserted(l, p, 0, <<c>>) = [m \in Nodes |-> IF m = p THEN <<c>> ELSE l[m]]
    <3>1. c \in Nodes \ Fragments
      BY <2>1
    <3> QED BY <1>2, <1>6, <3>1, NothingInserted
  <2>13. kidsBar' = Forest!Inserted(Forest!Emptied(k, S), p, 0, ns)
    BY <1>3, <1>7, <1>8, <2>6, <2>10, <2>11, <2>12 DEF l
  <2> QED BY <1>7, <1>8, <2>8, <2>13, RefillIsStep
<1> QED BY <1>9, <1>10

LEMMA NoLinksKids ==
    KidsOf(NoLinks) = Forest!Empty
<1>1. NoLinks \in Links /\ Shape(NoLinks, {}, {})
  <2>1. NoLinks \in Links
    BY DEF NoLinks, Links, Pointers
  <2>2. Linked(NoLinks, {}, {})
    BY NodesAssumption DEF NoLinks, Linked, SiblingsAgree, ParentsAgree, EndsAgree
  <2>3. Deep(NoLinks) /\ Rising(NoLinks, {})
    <3>1. [n \in Nodes |-> 0] \in [Nodes -> Nat]
      OBVIOUS
    <3>2. Deepens(NoLinks, [n \in Nodes |-> 0]) /\ Rises(NoLinks, {}, [n \in Nodes |-> 0])
      BY DEF NoLinks, Deepens, Rises
    <3> QED BY <3>1, <3>2 DEF Deep, Rising
  <2> QED BY <2>1, <2>2, <2>3 DEF Shape
<1>2. ASSUME NEW p \in Nodes PROVE Kids(NoLinks, p) = <<>>
  <2>1. <<>> \in Seq(Nodes) /\ Len(<<>>) = 0
    OBVIOUS
  <2>2. IsKids(NoLinks, p, <<>>)
    BY <2>1 DEF IsKids, NoLinks
  <2>3. {} \in SUBSET Nodes /\ p \in Nodes \ {}
    OBVIOUS
  <2> QED BY <1>1, <2>2, <2>3, KidsAre
<1> QED BY <1>2 DEF KidsOf, Forest!Empty

LEMMA ListsAreBounded ==
    ASSUME NEW ns \in Lists
    PROVE  /\ ns \in Seq(Movable) /\ Len(ns) <= MaxList
           /\ Reverse(ns) \in Seq(Movable) /\ Len(Reverse(ns)) <= MaxList
<1>1. PICK m \in 0..MaxList : ns \in [1..m -> Movable]
  BY DEF Lists, BoundedSeq, SeqOf
<1>2. ns \in Seq(Movable) /\ Reverse(ns) \in Seq(Movable)
  BY ListsAreSequences, ReverseIsSequence
<1>3. Len(ns) = m /\ Len(Reverse(ns)) = Len(ns)
  BY <1>1, <1>2, DomAssumption DEF Reverse
<1>4. m <= MaxList
  BY <1>1, DomAssumption
<1> QED BY <1>2, <1>3, <1>4

LEMMA OneIsBounded ==
    ASSUME NEW n \in Movable
    PROVE  <<n>> \in Seq(Movable) /\ Len(<<n>>) <= MaxList
<1>1. <<n>> \in Seq(Movable) /\ Len(<<n>>) = 1
  OBVIOUS
<1> QED BY <1>1, DomAssumption

LEMMA InsertionsPlace ==
    ASSUME TreeInv, NEW p \in InReach, NEW n \in Movable, NEW c \in InReach,
           AppendChild(p, n) \/ InsertBeforeChild(p, n, c) \/ ReplaceChild(p, n, c)
    PROVE  PromiseInv' /\ ForestStep
<1>1. p \in Nodes /\ c \in Nodes /\ c \in Nodes \cup {Null} /\ Null \in Nodes \cup {Null}
  BY ReachIsOwned
<1>2. PICK ns \in Seq(Movable) : ns = <<n>> /\ Len(ns) <= MaxList
  BY OneIsBounded
<1>3. CASE AppendChild(p, n)
  BY <1>1, <1>2, <1>3, BeginPlaces DEF AppendChild
<1>4. CASE InsertBeforeChild(p, n, c)
  BY <1>1, <1>2, <1>4, BeginPlaces DEF InsertBeforeChild
<1>5. CASE ReplaceChild(p, n, c)
  BY <1>1, <1>2, <1>5, BeginAndDropPlaces DEF ReplaceChild
<1> QED BY <1>3, <1>4, <1>5

LEMMA ListInsertionsPlace ==
    ASSUME TreeInv, NEW p \in InReach, NEW ns \in Lists,
           \/ AppendNodes(p, ns) \/ PrependNodes(p, ns) \/ ReplaceChildren(p, ns)
           \/ After(p, ns) \/ Before(p, ns) \/ ReplaceWith(p, ns)
    PROVE  PromiseInv' /\ ForestStep
<1>1. p \in Nodes /\ Null \in Nodes \cup {Null}
  BY ReachIsOwned
<1>2. ns \in Seq(Movable) /\ Len(ns) <= MaxList
  BY ListsAreBounded
<1>3. PICK rs \in Seq(Movable) : rs = Reverse(ns) /\ Len(rs) <= MaxList
  BY ListsAreBounded
<1>4. t \in Links
  BY DEF TreeInv, Types
<1>5. t.first_child[p] \in Nodes \cup {Null} /\ t.next[p] \in Nodes \cup {Null} /\ t.parent[p] \in Nodes \cup {Null}
  BY <1>1, <1>4 DEF Links, Pointers
<1>6. CASE AppendNodes(p, ns)
  BY <1>1, <1>2, <1>6, BeginPlaces DEF AppendNodes
<1>7. CASE PrependNodes(p, ns)
  <2>1. Begin(p, t.first_child[p], rs)
    BY <1>3, <1>7 DEF PrependNodes
  <2> QED BY <1>1, <1>3, <1>5, <2>1, BeginPlaces
<1>8. CASE ReplaceChildren(p, ns)
  BY <1>1, <1>2, <1>8, ReplaceChildrenPlaces
<1>9. CASE After(p, ns)
  <2>1. t.parent[p] \in Nodes /\ Begin(t.parent[p], t.next[p], ns)
    BY <1>5, <1>9 DEF After
  <2> QED BY <1>2, <1>5, <2>1, BeginPlaces
<1>10. CASE Before(p, ns)
  <2>1. t.parent[p] \in Nodes /\ Begin(t.parent[p], t.parent[p], ns)
    BY <1>5, <1>10 DEF Before
  <2> QED BY <1>2, <1>5, <2>1, BeginPlaces
<1>11. CASE ReplaceWith(p, ns)
  <2>1. t.parent[p] \in Nodes /\ BeginAndDrop(t.parent[p], t.parent[p], ns, p)
    BY <1>5, <1>11 DEF ReplaceWith
  <2> QED BY <1>1, <1>2, <2>1, BeginAndDropPlaces
<1> QED BY <1>6, <1>7, <1>8, <1>9, <1>10, <1>11

LEMMA MutationPlaces == ASSUME TreeInv, TreeInv', PromiseInv, Mutation PROVE PromiseInv' /\ ForestStep
<1>1. CASE CallStep
  <2>1. Goes
    BY <1>1, CallStepPlaces
  <2> QED BY <2>1 DEF Goes, ForestStep
<1>2. CASE \E n \in Nodes : Create(n) \/ Drop(n) \/ Decompose(n)
  <2>1. PICK n \in Nodes : Create(n) \/ Drop(n) \/ Decompose(n)
    BY <1>2
  <2>2. CASE Create(n)
    <3>1. Idle /\ Idle' /\ t' = t
      BY <2>2 DEF Create, Idle
    <3> QED BY <3>1, SamePlaces
  <2>3. CASE Drop(n)
    <3>1. Idle /\ Idle' /\ DropHandle(n, it)
      BY <2>3 DEF Drop, Idle
    <3>2. PICK next : next = it
      OBVIOUS
    <3> QED BY <3>1, <3>2, DropHandlePlaces
  <2>4. CASE Decompose(n)
    <3>1. Idle /\ Idle' /\ t' = DestroyDeep(t, n)
      BY <2>4 DEF Decompose, Idle
    <3> QED BY <3>1, DestroyPlaces
  <2> QED BY <2>1, <2>2, <2>3, <2>4
<1>3. CASE \E n \in InReach : RemoveNode(n)
  BY <1>3, ReachIsOwned, RemoveNodePlaces
<1>4. CASE \E p \in InReach, n \in Movable : AppendChild(p, n)
  <2>1. PICK p \in InReach, n \in Movable : AppendChild(p, n)
    BY <1>4
  <2> QED BY <2>1, InsertionsPlace
<1>5. CASE \E p \in InReach, c \in InReach, n \in Movable : InsertBeforeChild(p, n, c) \/ ReplaceChild(p, n, c)
  <2>1. PICK p \in InReach, c \in InReach, n \in Movable : InsertBeforeChild(p, n, c) \/ ReplaceChild(p, n, c)
    BY <1>5
  <2> QED BY <2>1, InsertionsPlace
<1>6. CASE \E p \in InReach, ns \in Lists : \/ AppendNodes(p, ns) \/ PrependNodes(p, ns) \/ ReplaceChildren(p, ns)
                                            \/ After(p, ns) \/ Before(p, ns) \/ ReplaceWith(p, ns)
  <2>1. PICK p \in InReach, ns \in Lists : \/ AppendNodes(p, ns) \/ PrependNodes(p, ns) \/ ReplaceChildren(p, ns)
                                           \/ After(p, ns) \/ Before(p, ns) \/ ReplaceWith(p, ns)
    BY <1>6
  <2> QED BY <2>1, ListInsertionsPlace
<1>7. CASE \E p \in InReach, c \in Nodes \cup {Null} : SetContent(p, c)
  BY <1>7, SetContentPlaces
<1>8. CASE CloseDocument
  <2>1. Idle /\ Idle' /\ t' = NoLinks
    BY <1>8 DEF CloseDocument, Idle
  <2>2. KidsOf(t') = Forest!Empty
    BY <2>1, NoLinksKids
  <2> QED BY <2>1, <2>2, IdleBars, ClosingIsStep
<1> QED BY <1>1, <1>2, <1>3, <1>4, <1>5, <1>6, <1>7, <1>8 DEF Mutation

LEMMA NextPlaces == ASSUME TreeInv, PromiseInv, [Next]_vars PROVE PromiseInv' /\ ForestStep
<1>1. TreeInv'
  BY NextGives
<1>2. CASE Mutation
  BY <1>1, <1>2, MutationPlaces
<1>3. CASE \E n \in Nodes : Wrap(n) \/ StartIter(n)
  <2>1. Idle /\ Idle' /\ t' = t
    BY <1>3 DEF Wrap, StartIter, Idle
  <2> QED BY <2>1, SamePlaces
<1>4. CASE IterNext
  <2>1. Idle /\ Idle' /\ t' = t
    BY <1>4 DEF IterNext, Idle
  <2> QED BY <2>1, SamePlaces
<1>5. CASE DropItem
  <2>1. PICK n : n = it.item
    OBVIOUS
  <2>2. PICK next : next = [it EXCEPT !.item = Null]
    OBVIOUS
  <2>3. it.item # Null /\ DropHandle(it.item, [it EXCEPT !.item = Null]) /\ Idle /\ Idle'
    BY <1>5 DEF DropItem, Idle
  <2>4. n \in Nodes
    BY <2>1, <2>3 DEF TreeInv, Types, Iters
  <2>5. DropHandle(n, next)
    BY <2>1, <2>2, <2>3
  <2> QED BY <2>3, <2>4, <2>5, DropHandlePlaces
<1>6. CASE EndIter
  <2>1. PICK n : n = it.root
    OBVIOUS
  <2>2. PICK next : next = NoIter
    OBVIOUS
  <2>3. it.root # Null /\ DropHandle(it.root, NoIter) /\ Idle /\ Idle'
    BY <1>6 DEF EndIter, Idle
  <2>4. n \in Nodes
    BY <2>1, <2>3 DEF TreeInv, Types, Iters
  <2>5. DropHandle(n, next)
    BY <2>1, <2>2, <2>3
  <2> QED BY <2>3, <2>4, <2>5, DropHandlePlaces
<1>7. CASE UNCHANGED vars
  <2>1. t' = t /\ call' = call
    BY <1>7 DEF vars
  <2>2. kidsBar' = kidsBar
    BY <2>1 DEF kidsBar, Idle, KidsOf
  <2>3. PromiseInv'
    BY <2>1 DEF PromiseInv, Idle, Placing, Kept, MayInsert
  <2> QED BY <2>2, <2>3 DEF ForestStep
<1>8. InReach \cup {m \in Nodes : held[m] > 0} \subseteq Nodes
  BY ReachIsOwned
<1> QED BY <1>2, <1>3, <1>4, <1>5, <1>6, <1>7, <1>8 DEF Next

(***************************************************************************)
(* The tree of pointers implements the forest of lists: what every method  *)
(* does to the children of all nodes is one insertion, replacement,        *)
(* refill, removal or destruction of OrderedForest, although an insertion  *)
(* takes many steps, leaves out what it may not insert, empties the        *)
(* fragments of its list child by child, and takes out the node that it    *)
(* replaces only at its end.  Seen from outside, the call puts all in its  *)
(* place at once, and at its return the pointers list what it promised.    *)
(***************************************************************************)
THEOREM TreeIsForest == Spec => ImplementsForest
<1>1. Init => TreeInv
  BY InitGives
<1>2. Init => PromiseInv /\ Forest!Init
  <2> SUFFICES ASSUME Init PROVE PromiseInv /\ Forest!Init
    OBVIOUS
  <2>1. Idle /\ t = NoLinks
    BY DEF Init, Idle
  <2>2. kidsBar = Forest!Empty
    BY <2>1, NoLinksKids DEF kidsBar
  <2> QED BY <2>1, <2>2 DEF PromiseInv, Forest!Init
<1>3. TreeInv /\ PromiseInv /\ [Next]_vars => TreeInv' /\ PromiseInv' /\ [Forest!Next]_kidsBar
  BY NextGives, NextPlaces DEF ForestStep
<1> QED BY <1>1, <1>2, <1>3, PTL DEF Spec, ImplementsForest, Forest!Spec
=============================================================================
