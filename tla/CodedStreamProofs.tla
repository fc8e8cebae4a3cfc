---------------------------- MODULE CodedStreamProofs ----------------------------
(***************************************************************************)
(* Theorems about CodedStream: what the writers put on the tape, what the  *)
(* readers hand out of it, and where they stand: that they start to decode *)
(* only where a member begins, stop only at an end, and know the beginning *)
(* of the member that they read.                                           *)
(***************************************************************************)
EXTENDS CodedStream, FiniteSetTheorems, SequenceTheorems, WellFoundedInduction, TLAPS

(* The less-than relation of the numbers has no endless descent, so that a  *)
(* set of numbers has a least one: which takes the place of induction.      *)
LEMMA LessDescends == IsWellFoundedOn({p \in Nat \X Nat : p[1] < p[2]}, Nat)
BY NatLessThanWellFounded DEF OpToRel

LEMMA LeastNumber ==
  ASSUME NEW S \in SUBSET Nat, S # {}
  PROVE  \E m \in S : \A n \in S : m <= n
<1>1. PICK m \in S : \A n \in S : ~ (<<n, m>> \in {p \in Nat \X Nat : p[1] < p[2]})
  BY LessDescends, WFMin
<1>2. ASSUME NEW n \in S PROVE m <= n
  <2>1. <<n, m>> \in Nat \X Nat  OBVIOUS
  <2>2. ~ (n < m)  BY <1>1, <2>1
  <2> QED  BY <2>2
<1> QED  BY <1>2

-----------------------------------------------------------------------------
(* Units among the first p cells of a tape.                                 *)
UnitsIn(t, p) == {i \in 1 .. p : i \in 1 .. Len(t) /\ t[i].kind = "data"}
CountIn(t, p) == Cardinality(UnitsIn(t, p))

LEMMA UnitsFinite ==
  ASSUME NEW t, NEW p \in Nat
  PROVE  IsFiniteSet(UnitsIn(t, p)) /\ CountIn(t, p) \in Nat
<1>1. IsFiniteSet(1 .. p)  BY FS_Interval
<1>2. UnitsIn(t, p) \subseteq 1 .. p  BY DEF UnitsIn
<1>3. IsFiniteSet(UnitsIn(t, p))  BY <1>1, <1>2, FS_Subset
<1> QED  BY <1>3, FS_CardinalityType DEF CountIn

LEMMA CountStep ==
  ASSUME NEW t, NEW p \in Nat
  PROVE  /\ CountIn(t, 0) = 0
         /\ CountIn(t, p + 1) =
              IF p + 1 \in 1 .. Len(t) /\ t[p + 1].kind = "data"
                THEN CountIn(t, p) + 1 ELSE CountIn(t, p)
<1>1. UnitsIn(t, 0) = {}  BY DEF UnitsIn
<1>2. CASE p + 1 \in 1 .. Len(t) /\ t[p + 1].kind = "data"
  <2>1. UnitsIn(t, p + 1) = UnitsIn(t, p) \cup {p + 1}  BY <1>2 DEF UnitsIn
  <2>2. p + 1 \notin UnitsIn(t, p)  BY DEF UnitsIn
  <2>3. Cardinality(UnitsIn(t, p) \cup {p + 1}) = Cardinality(UnitsIn(t, p)) + 1
    BY <2>2, UnitsFinite, FS_AddElement
  <2> QED  BY <1>1, <1>2, <2>1, <2>3, FS_EmptySet DEF CountIn
<1>3. CASE ~ (p + 1 \in 1 .. Len(t) /\ t[p + 1].kind = "data")
  <2>1. UnitsIn(t, p + 1) = UnitsIn(t, p)  BY <1>3 DEF UnitsIn
  <2> QED  BY <1>1, <1>3, <2>1, FS_EmptySet DEF CountIn
<1> QED  BY <1>2, <1>3

LEMMA CountGrows ==
  ASSUME NEW t, NEW p \in Nat, NEW q \in Nat, p <= q
  PROVE  CountIn(t, p) <= CountIn(t, q)
<1>1. UnitsIn(t, p) \subseteq UnitsIn(t, q)  BY DEF UnitsIn
<1> QED  BY <1>1, UnitsFinite, FS_Subset DEF CountIn

(* Every number of units between those at two places is that at the place   *)
(* of a unit between them.                                                  *)
LEMMA UnitBetween ==
  ASSUME NEW t, NEW p \in Nat, NEW q \in Nat, p <= q,
         NEW j \in CountIn(t, p) + 1 .. CountIn(t, q)
  PROVE  \E i \in p + 1 .. q : /\ i \in 1 .. Len(t) /\ t[i].kind = "data"
                               /\ CountIn(t, i) = j
<1> DEFINE S == {i \in p .. q : j <= CountIn(t, i)}
<1>0. \A i \in Nat : CountIn(t, i) \in Nat  BY UnitsFinite
<1>1. S \in SUBSET Nat /\ q \in S  BY <1>0
<1>2. PICK m \in S : \A n \in S : m <= n  BY <1>1, LeastNumber
<1>3. m \in p .. q /\ j <= CountIn(t, m)  OBVIOUS
<1>4. m # p  BY <1>0, <1>3
<1>5. m - 1 \in Nat /\ m - 1 \in p .. q /\ (m - 1) + 1 = m  BY <1>3, <1>4
<1>6. CountIn(t, m - 1) < j
  <2>1. m - 1 \notin S  BY <1>2, <1>5
  <2> QED  BY <1>0, <1>5, <2>1
<1>7. CountIn(t, m) = IF m \in 1 .. Len(t) /\ t[m].kind = "data"
                        THEN CountIn(t, m - 1) + 1 ELSE CountIn(t, m - 1)
  BY <1>5, CountStep
<1>8. CountIn(t, m - 1) \in Nat /\ CountIn(t, m) \in Nat  BY <1>0, <1>3, <1>5
<1>9. m \in 1 .. Len(t) /\ t[m].kind = "data" /\ CountIn(t, m) = j
  BY <1>3, <1>6, <1>7, <1>8
<1> QED  BY <1>3, <1>4, <1>9

-----------------------------------------------------------------------------
(* The units on a tape are numbered in its order.                           *)
Numbered(t) == \A i \in 1 .. Len(t) : t[i].kind = "data" => t[i].n = CountIn(t, i)

(* m units from the one after number c on.                                  *)
UnitsFrom(c, m) == [j \in 1 .. m |-> c + j]

LEMMA UnitsBeforeIs ==
  /\ \A p : UnitsBefore(p) = CountIn(tape, p)
  /\ \A p \in Nat : UnitsBefore(p) \in Nat
BY UnitsFinite DEF UnitsBefore, Is, CountIn, UnitsIn

(* So what a reader finds in any piece of the tape is what comes next.      *)
LEMMA DataInIs ==
  ASSUME Numbered(tape), NEW p \in Nat, NEW k \in Nat
  PROVE  /\ DataIn(p, k) = UnitsFrom(UnitsBefore(p), UnitsBefore(p + k) - UnitsBefore(p))
         /\ Len(DataIn(p, k)) = UnitsBefore(p + k) - UnitsBefore(p)
         /\ UnitsBefore(p) <= UnitsBefore(p + k)
<1> DEFINE c == UnitsBefore(p)
           d == UnitsBefore(p + k)
           Found(j) == CHOOSE i \in p + 1 .. p + k : Is("data", i) /\ UnitsBefore(i) = c + j
<1>1. c \in Nat /\ d \in Nat /\ c <= d
  BY UnitsBeforeIs, CountGrows
<1>2. ASSUME NEW j \in 1 .. d - c PROVE tape[Found(j)].n = c + j
  <2>1. c + j \in CountIn(tape, p) + 1 .. CountIn(tape, p + k)
    BY <1>1, UnitsBeforeIs
  <2>2. \E i \in p + 1 .. p + k : Is("data", i) /\ UnitsBefore(i) = c + j
    <3>1. p + k \in Nat /\ p <= p + k  OBVIOUS
    <3>2. \E i \in p + 1 .. p + k : /\ i \in 1 .. Len(tape) /\ tape[i].kind = "data"
                                     /\ CountIn(tape, i) = c + j
      BY <2>1, <3>1, UnitBetween
    <3> QED  BY <3>2, UnitsBeforeIs DEF Is
  <2>3. Is("data", Found(j)) /\ UnitsBefore(Found(j)) = c + j
    BY <2>2
  <2> QED  BY <2>3, UnitsBeforeIs DEF Numbered, Is
<1>3. DataIn(p, k) = [j \in 1 .. d - c |-> tape[Found(j)].n]
  BY DEF DataIn
<1>4. DataIn(p, k) = UnitsFrom(c, d - c)
  BY <1>2, <1>3 DEF UnitsFrom
<1> HIDE DEF c, d
<1> QED  BY <1>1, <1>4 DEF UnitsFrom, c, d

-----------------------------------------------------------------------------
(* The first cells of a tape have as many units on a longer one.            *)
LEMMA CountOfPrefix ==
  ASSUME NEW s, NEW t, Len(s) \in Nat, Len(t) \in Nat, Len(t) <= Len(s),
         \A i \in 1 .. Len(t) : s[i] = t[i], NEW p \in 0 .. Len(t)
  PROVE  CountIn(s, p) = CountIn(t, p)
<1>1. UnitsIn(s, p) = UnitsIn(t, p)  BY DEF UnitsIn
<1> QED  BY <1>1 DEF CountIn

LEMMA PrefixNumbered ==
  ASSUME NEW t \in Seq(Cells), Numbered(t), NEW l \in 0 .. Len(t)
  PROVE  SubSeq(t, 1, l) \in Seq(Cells) /\ Numbered(SubSeq(t, 1, l))
<1> DEFINE s == SubSeq(t, 1, l)
<1>1. s \in Seq(Cells) /\ Len(s) = l /\ \A i \in 1 .. l : s[i] = t[i]  OBVIOUS
<1> HIDE DEF s
<1>2. \A p \in 0 .. l : CountIn(t, p) = CountIn(s, p)  BY <1>1, CountOfPrefix
<1>3. Numbered(s)  BY <1>1, <1>2 DEF Numbered
<1> QED  BY <1>1, <1>3 DEF s

(* A tape goes on with a piece that holds the next units.                   *)
Piece(first, c, m, last) == <<first>> \o DataCells(UnitsFrom(c, m)) \o <<last>>

IsPiece(u, first, c, m, last) ==
  /\ u \in Seq(Cells) /\ Len(u) = m + 2
  /\ u[1] = first /\ u[m + 2] = last
  /\ \A i \in 1 .. m : u[1 + i] = ACell("data", c + i)

LEMMA PieceCells ==
  ASSUME NEW c \in Nat, NEW m \in Nat,
         NEW first \in Cells, NEW last \in Cells
  PROVE  IsPiece(Piece(first, c, m, last), first, c, m, last)
<1> DEFINE d == DataCells(UnitsFrom(c, m))
<1>1. Len(UnitsFrom(c, m)) = m /\ \A i \in 1 .. m : UnitsFrom(c, m)[i] = c + i
  BY DEF UnitsFrom
<1>2. d = [i \in 1 .. m |-> ACell("data", c + i)]  BY <1>1 DEF DataCells
<1>3. \A i \in 1 .. m : ACell("data", c + i) \in Cells
  BY DEF ACell, Cells, Kinds
<1>4. d \in Seq(Cells) /\ Len(d) = m /\ \A i \in 1 .. m : d[i] = ACell("data", c + i)
  BY <1>2, <1>3
<1> HIDE DEF d
<1>5. /\ <<first>> \o d \in Seq(Cells) /\ Len(<<first>> \o d) = m + 1
      /\ (<<first>> \o d)[1] = first
      /\ \A i \in 1 .. m : (<<first>> \o d)[1 + i] = d[i]
  BY <1>4
<1> DEFINE e == <<first>> \o d
<1>6. e \in Seq(Cells) /\ Len(e) = m + 1  BY <1>5
<1>7. /\ Piece(first, c, m, last) = e \o <<last>>  BY DEF Piece, d
<1> HIDE DEF e
<1>8. /\ e \o <<last>> \in Seq(Cells) /\ Len(e \o <<last>>) = m + 2
      /\ (e \o <<last>>)[m + 2] = last
      /\ \A i \in 1 .. m + 1 : (e \o <<last>>)[i] = e[i]
  BY <1>6
<1>9. e[1] = first /\ \A i \in 1 .. m : e[1 + i] = ACell("data", c + i)
  BY <1>4, <1>5 DEF e
<1> DEFINE u == e \o <<last>>
<1>10. u \in Seq(Cells) /\ Len(u) = m + 2 /\ u[m + 2] = last
  BY <1>8
<1>11. u[1] = first
  BY <1>8, <1>9
<1>12. \A i \in 1 .. m : 1 + i \in 1 .. m + 1
  OBVIOUS
<1>13. \A i \in 1 .. m : u[1 + i] = ACell("data", c + i)
  BY <1>8, <1>9, <1>12
<1> HIDE DEF u
<1>14. Piece(first, c, m, last) = u
  BY <1>7 DEF u
<1> QED  BY <1>10, <1>11, <1>13, <1>14 DEF IsPiece

(* The tape s goes on where t ends, with k more cells and m more units.      *)
GoesOn(s, t, k, m) ==
  /\ s \in Seq(Cells) /\ Numbered(s)
  /\ Len(s) = Len(t) + k
  /\ CountIn(s, Len(s)) = CountIn(t, Len(t)) + m

LEMMA PieceNumbered ==
  ASSUME NEW t \in Seq(Cells), Numbered(t), NEW m \in Nat,
         NEW first \in Cells, NEW last \in Cells, first.kind # "data", last.kind # "data"
  PROVE  GoesOn(t \o Piece(first, CountIn(t, Len(t)), m, last), t, m + 2, m)
<1> DEFINE l == Len(t)
           c == CountIn(t, l)
           u == Piece(first, c, m, last)
           s == t \o u
<1>1. l \in Nat /\ c \in Nat  BY UnitsFinite
<1>2. /\ u \in Seq(Cells) /\ Len(u) = m + 2
      /\ u[1] = first /\ u[m + 2] = last
      /\ \A i \in 1 .. m : u[1 + i] = ACell("data", c + i)
  <2> HIDE DEF c
  <2>1. IsPiece(u, first, c, m, last)  BY <1>1, PieceCells
  <2> QED  BY <2>1 DEF IsPiece
<1> HIDE DEF u
<1>3. /\ s \in Seq(Cells) /\ Len(s) = l + m + 2
      /\ \A i \in 1 .. l : s[i] = t[i]
      /\ \A i \in 1 .. m + 2 : s[l + i] = u[i]
  <2> HIDE DEF s
  <2>1. /\ s \in Seq(Cells) /\ Len(s) = Len(t) + Len(u)
        /\ \A i \in 1 .. Len(t) + Len(u) : s[i] = IF i <= Len(t) THEN t[i] ELSE u[i - Len(t)]
    BY <1>2, ConcatProperties DEF s
  <2>2. Len(t) = l /\ Len(u) = m + 2  BY <1>2
  <2> HIDE DEF l
  <2>3. s \in Seq(Cells) /\ Len(s) = l + m + 2  BY <1>1, <2>1, <2>2
  <2>4. ASSUME NEW i \in 1 .. l PROVE s[i] = t[i]  BY <1>1, <2>1, <2>2
  <2>5. ASSUME NEW i \in 1 .. m + 2 PROVE s[l + i] = u[i]
    <3>1. l + i \in 1 .. l + (m + 2) /\ ~ (l + i <= l) /\ l + i - l = i  BY <1>1
    <3> QED  BY <1>1, <2>1, <2>2, <3>1
  <2> QED  BY <2>3, <2>4, <2>5
<1> HIDE DEF s, l, c
<1>4. \A p \in 0 .. l : CountIn(s, p) = CountIn(t, p)
  BY <1>1, <1>3, CountOfPrefix, SMTT(30) DEF l
<1>5. /\ s[l + 1] = first /\ s[l + m + 2] = last
      /\ \A i \in 1 .. m : s[l + 1 + i] = ACell("data", c + i)
  <2>1. s[l + 1] = u[1] /\ s[l + (m + 2)] = u[m + 2]  BY <1>3
  <2>2. \A i \in 1 .. m : s[l + (1 + i)] = u[1 + i]  BY <1>3
  <2>3. l + (m + 2) = l + m + 2 /\ \A i \in 1 .. m : l + (1 + i) = l + 1 + i  BY <1>1
  <2> QED  BY <1>2, <2>1, <2>2, <2>3
<1>6. \A p \in Nat : CountIn(s, p) \in Nat  BY UnitsFinite
<1>7. CountIn(s, l + 1) = c
  <2>1. CountIn(s, l) = c  BY <1>1, <1>4 DEF c
  <2> QED  BY <1>1, <1>5, <2>1, CountStep
<1>8. \A i \in 0 .. m : CountIn(s, l + 1 + i) = c + i
  <2> DEFINE S == {i \in 0 .. m : CountIn(s, l + 1 + i) # c + i}
  <2>1. SUFFICES ASSUME S # {} PROVE FALSE  OBVIOUS
  <2>0. S \in SUBSET Nat  OBVIOUS
  <2>2. PICK i \in S : \A n \in S : i <= n  BY <2>0, <2>1, LeastNumber
  <2>3. i # 0  BY <1>1, <1>7, <2>2
  <2>4. i - 1 \in 0 .. m /\ i - 1 \notin S  BY <2>2, <2>3
  <2>5. CountIn(s, l + i) = c + i - 1
    <3>1. l + 1 + (i - 1) = l + i /\ c + (i - 1) = c + i - 1  BY <1>1, <2>4
    <3> QED  BY <2>4, <3>1
  <2>6. l + 1 + i \in 1 .. Len(s) /\ s[l + 1 + i].kind = "data"
    <3>1. i \in 1 .. m  BY <2>2, <2>3
    <3>2. l + 1 + i \in 1 .. l + m + 2  BY <1>1, <3>1
    <3>3. s[l + 1 + i] = ACell("data", c + i)  BY <1>5, <3>1
    <3>4. ACell("data", c + i).kind = "data"  BY DEF ACell
    <3> QED  BY <1>3, <3>2, <3>3, <3>4
  <2>7. l + i \in Nat /\ (l + i) + 1 = l + 1 + i  BY <1>1, <2>2
  <2>8. CountIn(s, l + 1 + i) = CountIn(s, l + i) + 1  BY <2>6, <2>7, CountStep
  <2> QED  BY <1>1, <2>2, <2>5, <2>8
<1>9. CountIn(s, l + m + 2) = c + m
  <2>1. CountIn(s, l + 1 + m) = c + m  BY <1>8
  <2>2. l + 1 + m \in Nat /\ (l + 1 + m) + 1 = l + m + 2  BY <1>1
  <2> QED  BY <1>5, <2>1, <2>2, CountStep
<1>10. Numbered(s)
  <2> SUFFICES ASSUME NEW i \in 1 .. Len(s), s[i].kind = "data" PROVE s[i].n = CountIn(s, i)
    BY DEF Numbered
  <2>1. CASE i <= l
    BY <1>1, <1>3, <1>4, <2>1 DEF Numbered, l
  <2>2. CASE i > l
    <3>1. i # l + 1 /\ i # l + m + 2  BY <1>5
    <3>0. i \in 1 .. l + m + 2  BY <1>3
    <3>2. i - l - 1 \in 1 .. m /\ l + 1 + (i - l - 1) = i  BY <1>1, <2>2, <3>0, <3>1
    <3>3. s[i] = ACell("data", c + (i - l - 1))  BY <1>5, <3>2
    <3>4. CountIn(s, i) = c + (i - l - 1)  BY <1>8, <3>2
    <3> QED  BY <3>3, <3>4 DEF ACell
  <2> QED  BY <1>1, <2>1, <2>2
<1>11. Len(s) = l + (m + 2)  BY <1>1, <1>3
<1>12. GoesOn(s, t, m + 2, m)  BY <1>3, <1>9, <1>10, <1>11 DEF GoesOn, c, l
<1> QED  BY <1>12 DEF s, u, c, l

LEMMA CellNumbered ==
  ASSUME NEW t \in Seq(Cells), Numbered(t), NEW cell \in Cells, cell.kind # "data"
  PROVE  GoesOn(t \o <<cell>>, t, 1, 0)
<1> DEFINE s == t \o <<cell>>
<1>1. /\ s \in Seq(Cells) /\ Len(s) = Len(t) + 1 /\ s[Len(t) + 1] = cell
      /\ \A i \in 1 .. Len(t) : s[i] = t[i]
  OBVIOUS
<1> HIDE DEF s
<1>2. \A p \in 0 .. Len(t) : CountIn(s, p) = CountIn(t, p)
  BY <1>1, CountOfPrefix
<1>3. CountIn(s, Len(s)) = CountIn(t, Len(t)) + 0
  <2>1. Len(t) \in Nat /\ CountIn(t, Len(t)) \in Nat  BY UnitsFinite
  <2>2. CountIn(s, Len(t)) = CountIn(t, Len(t))  BY <1>2, <2>1
  <2>3. CountIn(s, Len(t) + 1) = CountIn(s, Len(t))  BY <1>1, <2>1, CountStep
  <2> QED  BY <1>1, <2>1, <2>2, <2>3
<1>4. Numbered(s)
  BY <1>1, <1>2 DEF Numbered
<1> QED  BY <1>1, <1>3, <1>4 DEF s, GoesOn

(* No cell but one of the payload holds a unit.                             *)
LEMMA CellsAre ==
  /\ \A kind \in Kinds, n \in Nat : ACell(kind, n) \in Cells
  /\ \A kind, n : ACell(kind, n).kind = kind /\ ACell(kind, n).n = n
BY DEF ACell, Cells

LEMMA MemberNumbered ==
  ASSUME NEW t \in Seq(Cells), Numbered(t), NEW m \in Nat
  PROVE  GoesOn(t \o Member(UnitsFrom(CountIn(t, Len(t)), m)), t, m + 2, m)
<1> DEFINE first == ACell("head", IF dict THEN 1 ELSE 0)
           last == ACell("tail", 0)
<1>1. (IF dict THEN 1 ELSE 0) \in Nat  OBVIOUS
<1>2. first \in Cells /\ last \in Cells /\ first.kind = "head" /\ last.kind = "tail"
  BY <1>1, CellsAre DEF Kinds
<1>3. \A u : Member(u) = <<first>> \o DataCells(u) \o <<last>>  BY DEF Member
<1> HIDE DEF first, last
<1> QED  BY <1>2, <1>3, PieceNumbered DEF Piece

LEMMA ChunkCells ==
  ASSUME NEW c \in Nat, NEW m \in Nat
  PROVE  IsPiece(Chunk(UnitsFrom(c, m)), ACell("size", m), c, m, ACell("crlf", 0))
<1>1. ACell("size", m) \in Cells /\ ACell("crlf", 0) \in Cells
  BY CellsAre DEF Kinds
<1>2. Chunk(UnitsFrom(c, m)) = Piece(ACell("size", m), c, m, ACell("crlf", 0))
  BY DEF Chunk, UnitsFrom, Piece
<1> QED  BY <1>1, <1>2, PieceCells

LEMMA ChunkNumbered ==
  ASSUME NEW t \in Seq(Cells), Numbered(t), NEW m \in Nat
  PROVE  GoesOn(t \o Chunk(UnitsFrom(CountIn(t, Len(t)), m)), t, m + 2, m)
<1> DEFINE first == ACell("size", m)
           last == ACell("crlf", 0)
<1>2. first \in Cells /\ last \in Cells /\ first.kind = "size" /\ last.kind = "crlf"
  BY CellsAre DEF Kinds
<1>3. \A c : Chunk(UnitsFrom(c, m)) = Piece(first, c, m, last)
  BY DEF Chunk, UnitsFrom, Piece
<1> HIDE DEF first, last
<1> QED  BY <1>2, <1>3, PieceNumbered

-----------------------------------------------------------------------------
(***************************************************************************)
(* The writers.                                                            *)
(***************************************************************************)

(* The encoder holds what comes next, and together with the tape it is what *)
(* was written.  What it holds will be written when it is finished.         *)
WriterInv ==
  /\ codec \in Formats
  /\ tape \in Seq(Cells) /\ Numbered(tape)
  /\ written \in Nat
  /\ Len(encoder) \in Nat /\ encoder = UnitsFrom(AllUnits, Len(encoder))
  /\ ~closed => AllUnits + Len(encoder) = written
  /\ ~closed /\ ~started /\ codec \notin {"zstd", "brotli"} => encoder = << >>
  /\ whole => closed /\ AllUnits = written

LEMMA AllUnitsIs == AllUnits = CountIn(tape, Len(tape))
BY UnitsBeforeIs DEF AllUnits

(* What comes next, after what comes next.                                  *)
LEMMA UnitsGoOn ==
  ASSUME NEW a \in Nat, NEW m \in Nat, NEW n \in Nat
  PROVE  /\ UnitsFrom(a, m) \in Seq(Nat) /\ Len(UnitsFrom(a, m)) = m
         /\ UnitsFrom(a, m) \o UnitsFrom(a + m, n) = UnitsFrom(a, m + n)
<1> DEFINE x == UnitsFrom(a, m)
           y == UnitsFrom(a + m, n)
           z == UnitsFrom(a, m + n)
<1>1. x \in Seq(Nat) /\ y \in Seq(Nat) /\ z \in Seq(Nat) /\ Len(x) = m /\ Len(y) = n /\ Len(z) = m + n
  BY DEF UnitsFrom
<1>2. /\ \A j \in 1 .. m : x[j] = a + j
      /\ \A j \in 1 .. n : y[j] = a + m + j
      /\ \A j \in 1 .. m + n : z[j] = a + j
  BY DEF UnitsFrom
<1> HIDE DEF x, y, z
<1>3. /\ x \o y \in Seq(Nat) /\ Len(x \o y) = m + n
      /\ \A j \in 1 .. m + n : (x \o y)[j] = IF j <= m THEN x[j] ELSE y[j - m]
  <2>1. /\ x \o y \in Seq(Nat) /\ Len(x \o y) = Len(x) + Len(y)
        /\ \A j \in 1 .. Len(x) + Len(y) : (x \o y)[j] = IF j <= Len(x) THEN x[j] ELSE y[j - Len(x)]
    BY <1>1, ConcatProperties
  <2> QED  BY <1>1, <2>1
<1>4. ASSUME NEW j \in 1 .. m + n PROVE (x \o y)[j] = z[j]
  <2>1. CASE j <= m
    <3>1. j \in 1 .. m  BY <2>1
    <3> QED  BY <1>2, <1>3, <2>1, <3>1
  <2>2. CASE ~ (j <= m)
    <3>1. j - m \in 1 .. n /\ a + m + (j - m) = a + j  BY <2>2
    <3>2. (x \o y)[j] = y[j - m]  BY <1>3, <2>2
    <3> QED  BY <1>2, <3>1, <3>2
  <2> QED  BY <2>1, <2>2
<1>5. x \o y = z
  <2>1. Len(x \o y) = Len(z) /\ \A j \in 1 .. Len(x \o y) : (x \o y)[j] = z[j]
    BY <1>1, <1>3, <1>4
  <2> QED  BY <1>1, <1>3, <2>1, SeqEqual
<1> QED  BY <1>1, <1>5 DEF x, y, z

LEMMA EncoderGoesOn ==
  ASSUME WriterInv, ~closed, NEW n \in Nat
  PROVE  /\ AllUnits \in Nat
         /\ encoder \o NextUnits(n) = UnitsFrom(AllUnits, Len(encoder) + n)
<1> DEFINE a == AllUnits
           m == Len(encoder)
<1>1. a \in Nat /\ m \in Nat /\ encoder = UnitsFrom(a, m) /\ written = a + m
  BY UnitsFinite, AllUnitsIs DEF WriterInv
<1> HIDE DEF a, m
<1>2. NextUnits(n) = UnitsFrom(a + m, n)
  BY <1>1 DEF NextUnits, UnitsFrom
<1>3. UnitsFrom(a, m) \o UnitsFrom(a + m, n) = UnitsFrom(a, m + n)
  <2>1. a \in Nat /\ m \in Nat  BY <1>1
  <2> QED  BY <2>1, UnitsGoOn
<1>4. encoder \o NextUnits(n) = UnitsFrom(a, m + n)
  BY <1>1, <1>2, <1>3
<1> QED  BY <1>1, <1>4 DEF a, m

LEMMA EndingNumbered ==
  ASSUME WriterInv, ~closed
  PROVE  \E k \in Nat : GoesOn(tape \o Ending, tape, k, Len(encoder))
<1> DEFINE m == Len(encoder)
           c == CountIn(tape, Len(tape))
<1>1. m \in Nat /\ c \in Nat /\ tape \in Seq(Cells) /\ Numbered(tape) /\ encoder = UnitsFrom(c, m)
  BY UnitsFinite, AllUnitsIs DEF WriterInv
<1>2. CASE codec # "chunked"
  <2>1. GoesOn(tape \o Member(encoder), tape, m + 2, m)  BY <1>1, MemberNumbered
  <2> QED  BY <1>1, <1>2, <2>1 DEF Ending
<1>3. CASE codec = "chunked"
  <2> DEFINE s == tape \o Chunk(encoder)
  <2>1. GoesOn(s, tape, m + 2, m)  BY <1>1, ChunkNumbered
  <2>2. s \in Seq(Cells) /\ Numbered(s)  BY <2>1 DEF GoesOn
  <2>3. LastChunk = Chunk(UnitsFrom(CountIn(s, Len(s)), 0))  BY DEF LastChunk, UnitsFrom
  <2>4. GoesOn(s \o LastChunk, s, 0 + 2, 0)  BY <2>2, <2>3, ChunkNumbered
  <2>5. Chunk(encoder) \in Seq(Cells) /\ LastChunk \in Seq(Cells)
    <3>1. CountIn(s, Len(s)) \in Nat /\ 0 \in Nat  BY <2>2, UnitsFinite
    <3> QED  BY <1>1, <2>3, <3>1, ChunkCells DEF IsPiece
  <2>6. s \o LastChunk = tape \o (Chunk(encoder) \o LastChunk)
    BY <1>1, <2>5, ConcatAssociative
  <2>7. GoesOn(s \o LastChunk, tape, m + 4, m)
    <3>1. Len(s) = Len(tape) + (m + 2) /\ CountIn(s, Len(s)) = c + m  BY <2>1 DEF GoesOn
    <3>2. Len(s \o LastChunk) = Len(s) + (0 + 2)
          /\ CountIn(s \o LastChunk, Len(s \o LastChunk)) = CountIn(s, Len(s)) + 0
      BY <2>4 DEF GoesOn
    <3>3. s \o LastChunk \in Seq(Cells) /\ Numbered(s \o LastChunk)
      BY <2>4 DEF GoesOn
    <3>4. Len(s \o LastChunk) = Len(tape) + (m + 4)
      BY <1>1, <3>1, <3>2
    <3>5. CountIn(s \o LastChunk, Len(s \o LastChunk)) = c + m
      BY <1>1, <3>1, <3>2
    <3> QED  BY <3>3, <3>4, <3>5 DEF GoesOn
  <2> QED  BY <1>1, <1>3, <2>6, <2>7 DEF Ending
<1> QED  BY <1>2, <1>3

LEMMA NoUnits == /\ Len(<< >>) = 0 /\ \A c : UnitsFrom(c, 0) = << >>
                 /\ \A s \in Seq(Nat) : Len(s) = 0 => s = << >>
BY DEF UnitsFrom

(* A step that takes the tape on by m units and leaves e in the encoder.     *)
LEMMA TapeGoesOn ==
  ASSUME WriterInv, NEW k \in Nat, NEW m \in Nat, GoesOn(tape', tape, k, m)
  PROVE  /\ tape' \in Seq(Cells) /\ Numbered(tape')
         /\ AllUnits \in Nat /\ AllUnits' = AllUnits + m
<1>1. AllUnits' = CountIn(tape', Len(tape'))
  BY DEF AllUnits, UnitsBefore, Is, CountIn, UnitsIn
<1>2. CountIn(tape', Len(tape')) = CountIn(tape, Len(tape)) + m  BY DEF GoesOn
<1>3. AllUnits \in Nat  BY UnitsFinite, AllUnitsIs DEF WriterInv
<1> QED  BY <1>1, <1>2, <1>3, AllUnitsIs DEF GoesOn

LEMMA StaysOn == ASSUME WriterInv PROVE GoesOn(tape, tape, 0, 0)
BY UnitsFinite DEF WriterInv, GoesOn

LEMMA WriterGoesOn ==
  ASSUME WriterInv, NEW k \in Nat, NEW m \in Nat, GoesOn(tape', tape, k, m), codec' = codec,
         NEW e \in Nat, encoder' = UnitsFrom(AllUnits + m, e),
         written' = AllUnits + m + e, closed' = closed, whole' = whole, ~closed,
         ~started' /\ codec \notin {"zstd", "brotli"} => e = 0
  PROVE  WriterInv'
<1>1. /\ tape' \in Seq(Cells) /\ Numbered(tape')
      /\ AllUnits \in Nat /\ AllUnits' = AllUnits + m
  BY TapeGoesOn
<1>2. Len(encoder') = e  BY DEF UnitsFrom
<1>3. encoder' = UnitsFrom(AllUnits', Len(encoder'))  BY <1>1, <1>2
<1>4. written' = AllUnits' + Len(encoder') /\ written' \in Nat  BY <1>1, <1>2
<1>5. ~whole  BY DEF WriterInv
<1>6. codec' \in Formats  BY DEF WriterInv
<1>7. ~started' /\ codec' \notin {"zstd", "brotli"} => encoder' = << >>
  <2>1. e = 0 => encoder' = << >>  BY NoUnits
  <2> QED  BY <2>1
<1>8. Len(encoder') \in Nat  BY <1>2
<1> QED  BY <1>1, <1>3, <1>4, <1>5, <1>6, <1>7, <1>8 DEF WriterInv

LEMMA WriteStep ==
  ASSUME WriterInv, NEW n \in 0 .. MaxWrite, Write(n)
  PROVE  WriterInv'
<1> DEFINE a == AllUnits
           m == Len(encoder)
           units == encoder \o NextUnits(n)
<1>0. n \in Nat /\ MinChunk \in Nat \ {0}  BY WriterAssumption
<1>1. /\ ~closed /\ started' = TRUE /\ written' = written + n
      /\ codec' = codec /\ closed' = closed /\ whole' = whole
  BY DEF Write
<1>2. a \in Nat /\ m \in Nat /\ written = a + m /\ units = UnitsFrom(a, m + n)
  BY <1>0, <1>1, EncoderGoesOn DEF WriterInv
<1>3. Len(units) = m + n  BY <1>0, <1>2 DEF UnitsFrom
<1>4. tape \in Seq(Cells) /\ Numbered(tape) /\ a = CountIn(tape, Len(tape))
  BY AllUnitsIs DEF WriterInv
<1> HIDE DEF a, m, units
<1>5. CASE encoder' = units /\ (tape' = tape \/ tape' = tape \o <<ACell("dict", 0)>>)
  <2>1. \E k \in Nat : GoesOn(tape', tape, k, 0)
    <3>1. ACell("dict", 0) \in Cells /\ ACell("dict", 0).kind # "data"
      BY CellsAre DEF Kinds
    <3>2. GoesOn(tape, tape, 0, 0) /\ GoesOn(tape \o <<ACell("dict", 0)>>, tape, 1, 0)
      BY <1>4, <3>1, CellNumbered, StaysOn
    <3> QED  BY <1>5, <3>2
  <2>2. m + n \in Nat /\ a + 0 = a /\ written' = a + 0 + (m + n)  BY <1>0, <1>1, <1>2
  <2>3. encoder' = UnitsFrom(a + 0, m + n)  BY <1>2, <1>5, <2>2
  <2> QED  BY <1>1, <2>1, <2>2, <2>3, WriterGoesOn DEF a
<1>6. CASE encoder' = << >> /\ tape' = tape \o Chunk(units)
  <2>1. m + n \in Nat /\ GoesOn(tape', tape, m + n + 2, m + n)
    BY <1>0, <1>2, <1>4, <1>6, ChunkNumbered
  <2>2. m + n + 2 \in Nat /\ written' = a + (m + n) + 0  BY <1>0, <1>1, <1>2
  <2>3. encoder' = UnitsFrom(a + (m + n), 0)  BY <1>6, NoUnits
  <2> QED  BY <1>1, <2>1, <2>2, <2>3, WriterGoesOn DEF a
<1>7. \/ encoder' = units /\ (tape' = tape \/ tape' = tape \o <<ACell("dict", 0)>>)
      \/ encoder' = << >> /\ tape' = tape \o Chunk(units)
  BY DEF Write, Buffer, Encode, DictFrame, units
<1> QED  BY <1>5, <1>6, <1>7

LEMMA WriteAndEndStep ==
  ASSUME WriterInv, NEW n \in 0 .. MaxWrite, WriteAndEnd(n)
  PROVE  WriterInv'
<1> DEFINE a == AllUnits
           m == Len(encoder)
<1>0. n \in Nat  BY WriterAssumption
<1>1. /\ ~closed /\ started' = TRUE /\ written' = written + n
      /\ codec' = codec /\ closed' = closed /\ whole' = whole
      /\ encoder' = << >> /\ tape' = tape \o Member(encoder \o NextUnits(n))
  BY DEF WriteAndEnd
<1>2. /\ a \in Nat /\ m \in Nat /\ written = a + m
      /\ encoder \o NextUnits(n) = UnitsFrom(a, m + n)
  BY <1>0, <1>1, EncoderGoesOn DEF WriterInv
<1>3. tape \in Seq(Cells) /\ Numbered(tape) /\ a = CountIn(tape, Len(tape))
  BY AllUnitsIs DEF WriterInv
<1> HIDE DEF a, m
<1>4. m + n \in Nat /\ GoesOn(tape', tape, m + n + 2, m + n)
  BY <1>0, <1>1, <1>2, <1>3, MemberNumbered
<1>5. m + n + 2 \in Nat /\ written' = a + (m + n) + 0  BY <1>0, <1>1, <1>2
<1>6. encoder' = UnitsFrom(a + (m + n), 0)  BY <1>1, NoUnits
<1> QED  BY <1>1, <1>4, <1>5, <1>6, WriterGoesOn DEF a

LEMMA FinishStep ==
  ASSUME WriterInv, Finish
  PROVE  WriterInv'
<1> DEFINE a == AllUnits
           m == Len(encoder)
<1>1. /\ ~closed /\ written' = written /\ codec' = codec /\ closed' = closed /\ whole' = whole
      /\ encoder' = << >> /\ tape' = tape \o Ending
  BY DEF Finish
<1>2. PICK k \in Nat : GoesOn(tape', tape, k, m)  BY <1>1, EndingNumbered
<1>3. a \in Nat /\ m \in Nat /\ written = a + m
  BY <1>1, UnitsFinite, AllUnitsIs DEF WriterInv
<1> HIDE DEF a, m
<1>4. encoder' = UnitsFrom(a + m, 0) /\ written' = a + m + 0  BY <1>1, <1>3, NoUnits
<1> QED  BY <1>1, <1>2, <1>3, <1>4, WriterGoesOn DEF a

(* When the writer is gone, what is on the tape is all that will be.         *)
LEMMA WriterGone ==
  ASSUME WriterInv, codec' = codec, tape' \in Seq(Cells), Numbered(tape'), written' = written,
         encoder' = << >>, closed' = TRUE, whole' => AllUnits' = written
  PROVE  WriterInv'
<1>1. encoder' = UnitsFrom(AllUnits', 0) /\ Len(encoder') = 0  BY NoUnits
<1>2. encoder' = UnitsFrom(AllUnits', Len(encoder')) /\ Len(encoder') \in Nat  BY <1>1
<1> QED  BY <1>2 DEF WriterInv

LEMMA IntoInnerStep ==
  ASSUME WriterInv, IntoInner
  PROVE  WriterInv'
<1> DEFINE m == Len(encoder)
<1>1. /\ ~closed /\ written' = written /\ codec' = codec /\ closed' = TRUE
      /\ encoder' = << >>
  BY DEF IntoInner
<1>2. AllUnits \in Nat /\ m \in Nat /\ AllUnits + m = written
  BY <1>1, UnitsFinite, AllUnitsIs DEF WriterInv
<1>3. CASE tape' = tape \o Ending
  <2>1. PICK k \in Nat : GoesOn(tape', tape, k, m)  BY <1>1, <1>3, EndingNumbered
  <2>2. /\ tape' \in Seq(Cells) /\ Numbered(tape') /\ AllUnits' = AllUnits + m
    BY <1>2, <2>1, TapeGoesOn
  <2> QED  BY <1>1, <1>2, <2>2, WriterGone
<1>4. CASE tape' = tape /\ ~started /\ codec \notin {"zstd", "brotli"}
  <2>1. encoder = << >>  BY <1>1, <1>4 DEF WriterInv
  <2>2. m = 0  BY <2>1, NoUnits
  <2>3. AllUnits' = AllUnits  BY <1>4 DEF AllUnits, UnitsBefore, Is
  <2>4. tape' \in Seq(Cells) /\ Numbered(tape')  BY <1>4 DEF WriterInv
  <2> QED  BY <1>1, <1>2, <2>2, <2>3, <2>4, WriterGone
<1>5. \/ tape' = tape \o Ending
      \/ tape' = tape /\ ~started /\ codec \notin {"zstd", "brotli"}
  BY DEF IntoInner
<1> QED  BY <1>3, <1>4, <1>5

LEMMA CutStep ==
  ASSUME WriterInv, NEW length \in Nat, Cut(length)
  PROVE  WriterInv'
<1> DEFINE s == tape \o Ending
<1>1. /\ ~closed /\ written' = written /\ codec' = codec /\ closed' = TRUE /\ whole' = whole
      /\ encoder' = << >> /\ length <= Len(s) /\ tape' = SubSeq(s, 1, length)
  BY DEF Cut
<1>2. s \in Seq(Cells) /\ Numbered(s)  BY <1>1, EndingNumbered DEF GoesOn
<1> HIDE DEF s
<1>3. tape' \in Seq(Cells) /\ Numbered(tape')
  <2>1. length \in 0 .. Len(s)  BY <1>1, <1>2
  <2> QED  BY <1>1, <1>2, <2>1, PrefixNumbered
<1>4. ~whole'  BY <1>1 DEF WriterInv
<1> QED  BY <1>1, <1>3, <1>4, WriterGone

LEMMA WriterStep ==
  ASSUME WriterInv, WriterNext
  PROVE  WriterInv'
<1>1. MaxTape + MaxUnits + 4 \in Nat  BY TapeAssumption
<1> QED
  BY <1>1, WriteStep, WriteAndEndStep, FinishStep, IntoInnerStep, CutStep DEF WriterNext

LEMMA WriterStays ==
  ASSUME WriterInv, UNCHANGED <<codec, dict, tape, writerVars>>
  PROVE  WriterInv'
<1>1. AllUnits' = AllUnits  BY DEF AllUnits, UnitsBefore, Is
<1>2. Numbered(tape') <=> Numbered(tape)  OBVIOUS
<1> QED  BY <1>1, <1>2 DEF WriterInv, writerVars

LEMMA WriterStarts == Init => WriterInv
<1> SUFFICES ASSUME Init PROVE WriterInv  OBVIOUS
<1>1. /\ codec \in Codecs /\ tape = << >> /\ encoder = << >> /\ written = 0
      /\ ~started /\ ~closed /\ ~whole
  BY DEF Init, WriterInit
<1>2. tape \in Seq(Cells) /\ Len(tape) = 0 /\ Numbered(tape)  BY <1>1 DEF Numbered
<1>3. AllUnits = 0  BY <1>2, AllUnitsIs, CountStep
<1>4. Len(encoder) = 0 /\ encoder = UnitsFrom(AllUnits, 0)  BY <1>1, NoUnits
<1>5. encoder = UnitsFrom(AllUnits, Len(encoder))  BY <1>4
<1> QED  BY <1>1, <1>2, <1>3, <1>4, <1>5, TapeAssumption DEF WriterInv

(* The tape and the encoder of a writer hold all that was written, in order. *)
THEOREM WriterInvariant == Spec => []WriterInv
<1>1. WriterInv /\ [Next]_vars => WriterInv'
  BY WriterStep, WriterStays DEF Next, Writing, Reading, vars
<1> QED  BY <1>1, WriterStarts, PTL DEF Spec

(* into_inner() leaves every unit that write() accepted on the tape, once   *)
(* and in order, however the calls of write(), write_with_flush_opt() and    *)
(* finish() of stream_io's writers came between.                            *)
THEOREM WritesEverything == Spec => []WritesAll
<1>1. WriterInv => WritesAll
  <2> SUFFICES ASSUME WriterInv, whole
               PROVE  DataIn(0, Len(tape)) = [i \in 1 .. written |-> i]
    BY DEF WritesAll
  <2>1. Numbered(tape) /\ Len(tape) \in Nat /\ AllUnits = written /\ written \in Nat
    BY DEF WriterInv
  <2>2. UnitsBefore(0) = 0 /\ 0 + Len(tape) = Len(tape)
    BY <2>1, UnitsBeforeIs, CountStep
  <2>3. DataIn(0, Len(tape)) = UnitsFrom(0, written - 0)
    BY <2>1, <2>2, DataInIs DEF AllUnits
  <2> QED  BY <2>1, <2>3 DEF UnitsFrom
<1> QED  BY <1>1, WriterInvariant, PTL

-----------------------------------------------------------------------------
(***************************************************************************)
(* The readers.                                                            *)
(***************************************************************************)

(* A buffer holds the last of the first u units, of which those from number  *)
(* e on, after its first o, are unread.                                      *)
Follows(b, o, e, u) ==
  /\ u \in Nat /\ Len(b) \in 0 .. u
  /\ b = UnitsFrom(u - Len(b), Len(b))
  /\ o \in 0 .. Len(b)
  /\ e = u - Len(b) + o + 1

LEMMA NothingFollows ==
  ASSUME NEW u \in Nat
  PROVE  Follows(<< >>, 0, u + 1, u)
<1>1. UnitsFrom(u - 0, 0) = << >> /\ Len(<< >>) = 0  BY NoUnits
<1> QED  BY <1>1 DEF Follows

LEMMA FollowsOnTake ==
  ASSUME NEW b, NEW o, NEW e, NEW u, Follows(b, o, e, u), NEW n \in 0 .. Len(b) - o
  PROVE  Follows(b, o + n, e + n, u)
BY DEF Follows

LEMMA FollowsAll ==
  ASSUME NEW b, NEW e, NEW u, Follows(b, Len(b), e, u)
  PROVE  u \in Nat /\ e = u + 1 /\ Follows(<< >>, 0, e, u)
<1>1. u \in Nat /\ e = u + 1  BY DEF Follows
<1> QED  BY <1>1, NothingFollows

LEMMA FollowsPiece ==
  ASSUME NEW u \in Nat, NEW d \in Nat
  PROVE  Follows(UnitsFrom(u, d), 0, u + 1, u + d)
<1>1. Len(UnitsFrom(u, d)) = d  BY UnitsGoOn
<1>2. u + d - d = u  OBVIOUS
<1> QED  BY <1>1, <1>2 DEF Follows

LEMMA FollowsMore ==
  ASSUME NEW b, NEW o, NEW e, NEW u, Follows(b, o, e, u), NEW d \in Nat
  PROVE  /\ Follows(b \o UnitsFrom(u, d), o, e, u + d)
         /\ Len(b \o UnitsFrom(u, d)) = Len(b) + d
<1> DEFINE l == Len(b)
           c == u - l
<1>1. l \in Nat /\ c \in Nat /\ c + l = u /\ b = UnitsFrom(c, l) /\ o \in 0 .. l /\ e = c + o + 1
  BY DEF Follows
<1> HIDE DEF l, c
<1>2. UnitsFrom(c, l) \o UnitsFrom(c + l, d) = UnitsFrom(c, l + d) /\ Len(UnitsFrom(c, l + d)) = l + d
  <2>1. l + d \in Nat  BY <1>1
  <2> QED  BY <1>1, <2>1, UnitsGoOn
<1> DEFINE s == b \o UnitsFrom(u, d)
<1>3. s = UnitsFrom(c, l + d) /\ Len(s) = l + d  BY <1>1, <1>2
<1> HIDE DEF s
<1>4. u + d - (l + d) = c /\ l + d \in 0 .. u + d /\ o \in 0 .. l + d /\ u + d \in Nat  BY <1>1
<1>5. Follows(s, o, e, u + d)  BY <1>1, <1>3, <1>4 DEF Follows
<1> QED  BY <1>3, <1>5 DEF s, l

LEMMA FollowsInOrder ==
  ASSUME NEW b, NEW o, NEW e, NEW u, Follows(b, o, e, u)
  PROVE  /\ b \in Seq(Nat) /\ o \in 0 .. Len(b)
         /\ Len(SubSeq(b, o + 1, Len(b))) = Len(b) - o
         /\ \A i \in 1 .. Len(b) - o : b[o + i] = e + i - 1
<1> DEFINE l == Len(b)
           c == u - l
<1>1. l \in Nat /\ c \in Nat /\ b = UnitsFrom(c, l) /\ o \in 0 .. l /\ e = c + o + 1
  BY DEF Follows
<1> HIDE DEF c, l
<1>2. b \in Seq(Nat) /\ \A i \in 1 .. l : b[i] = c + i
  <2>1. UnitsFrom(c, l) \in Seq(Nat)  BY <1>1, UnitsGoOn
  <2>2. \A i \in 1 .. l : UnitsFrom(c, l)[i] = c + i  BY DEF UnitsFrom
  <2> QED  BY <1>1, <2>1, <2>2
<1>3. o + 1 \in Int /\ l \in Int /\ \A i \in o + 1 .. l : b[i] \in Nat
  BY <1>1, <1>2
<1>4. Len(SubSeq(b, o + 1, l)) = IF o + 1 <= l THEN l - (o + 1) + 1 ELSE 0
  BY <1>3, SubSeqProperties
<1>5. Len(SubSeq(b, o + 1, l)) = l - o  BY <1>1, <1>4
<1>6. ASSUME NEW i \in 1 .. l - o PROVE b[o + i] = e + i - 1
  <2>1. o + i \in 1 .. l  BY <1>1
  <2>2. b[o + i] = c + (o + i)  BY <1>2, <2>1
  <2> QED  BY <1>1, <2>2
<1> QED  BY <1>1, <1>2, <1>5, <1>6 DEF l

ReaderTypes ==
  /\ pos \in Nat /\ avail \in Nat
  /\ outSize \in Nat /\ streamPos \in Nat /\ remaining \in Nat
  /\ chunkSize \in Nat /\ chunkRead \in Nat

(* What fill_buf() has in its buffer while it runs.                         *)
InCall ==
  call # "idle" =>
    /\ codec # "chunked" => bufPos = 0
    /\ codec \in {"zstd", "lz4", "brotli"} => buf = << >>
    /\ codec = "gzip" => Len(buf) <= outSize
    /\ codec = "chunked" /\ call # "close" => bufPos = Len(buf)

(* The reader's buffer ends where its position on the tape is.              *)
ReaderInv ==
  /\ ReaderTypes
  /\ ~closed => pos = 0
  /\ Follows(buf, bufPos, expect, UnitsBefore(pos))
  /\ InCall

LEMMA TapeStands ==
  ASSUME tape' = tape
  PROVE  UnitsBefore(pos)' = UnitsBefore(pos')
BY DEF UnitsBefore, Is

LEMMA InputsAre ==
  ASSUME ReaderTypes, NEW input \in Inputs
  PROVE  /\ input \in Nat
         /\ \A kind : Is(kind, pos + 1) => 1 \in 0 .. input
<1>1. input \in Nat /\ (pos # Len(tape) => input # 0)
  BY DEF Inputs, ReaderTypes
<1>2. ASSUME NEW kind, Is(kind, pos + 1) PROVE pos # Len(tape)
  <2>1. pos \in Nat /\ pos + 1 \in 1 .. Len(tape)  BY <1>2 DEF Is, ReaderTypes
  <2>2. pos + 1 <= Len(tape)  BY <2>1
  <2>3. CASE pos = Len(tape)  BY <2>1, <2>2, <2>3
  <2> QED  BY <2>3
<1> QED  BY <1>1, <1>2

LEMMA TakeMoves ==
  ASSUME ReaderTypes, NEW input \in Nat, NEW k \in 0 .. input, Take(input, k)
  PROVE  pos' = pos + k /\ k \in Nat /\ pos' \in Nat /\ avail' \in Nat
BY DEF ReaderTypes, Take

(* There is always something that a decoder can take, if only nothing.      *)
LEMMA TakenIs ==
  ASSUME ReaderTypes, NEW input \in Nat, NEW space \in Nat
  PROVE  /\ Taken(input, space) \in 0 .. input
         /\ UnitsBefore(pos + Taken(input, space)) <= UnitsBefore(pos) + space
         /\ space > 0 /\ input > 0 => Taken(input, space) > 0
         /\ \A i \in pos + 1 .. pos + Taken(input, space) - 1 : ~Ends(i)
<1> DEFINE Fits(j) == /\ UnitsBefore(pos + j) <= UnitsBefore(pos) + space
                      /\ \A i \in pos + 1 .. pos + j - 1 : ~Ends(i)
           Good(k) == Fits(k) /\ (k < input => ~Fits(k + 1))
           S == {j \in 0 .. input : ~Fits(j)}
<1>1. pos \in Nat /\ UnitsBefore(pos) \in Nat  BY UnitsBeforeIs DEF ReaderTypes
<1>2. Fits(0)
  <2>1. pos + 0 = pos /\ \A i \in pos + 1 .. pos + 0 - 1 : FALSE  BY <1>1
  <2> QED  BY <1>1, <2>1
<1>3. \E k \in 0 .. input : Good(k)
  <2> HIDE DEF Fits
  <2>1. CASE S = {}
    <3>1. input \in 0 .. input /\ Fits(input)  BY <2>1
    <3> QED  BY <3>1
  <2>2. CASE S # {}
    <3>1. S \in SUBSET Nat  OBVIOUS
    <3>2. PICK m \in S : \A n \in S : m <= n  BY <2>2, <3>1, LeastNumber
    <3>3. m \in 1 .. input /\ ~Fits(m)  BY <1>2, <3>2
    <3>4. m - 1 \in 0 .. input /\ m - 1 \notin S /\ (m - 1) + 1 = m  BY <3>2, <3>3
    <3>5. Fits(m - 1) /\ ~Fits((m - 1) + 1)  BY <3>3, <3>4
    <3> QED  BY <3>4, <3>5
  <2> QED  BY <2>1, <2>2
<1>4. Taken(input, space) = CHOOSE k \in 0 .. input : Good(k)
  BY DEF Taken
<1>5. Taken(input, space) \in 0 .. input /\ Good(Taken(input, space))
  <2> HIDE DEF Good
  <2> QED  BY <1>3, <1>4
<1>6. space > 0 => Fits(1)
  <2>1. UnitsBefore(pos + 1) \in Nat /\ UnitsBefore(pos + 1) <= UnitsBefore(pos) + 1
    <3>1. CountIn(tape, pos + 1) = CountIn(tape, pos) + 1 \/ CountIn(tape, pos + 1) = CountIn(tape, pos)
      BY <1>1, CountStep
    <3>2. UnitsBefore(pos) = CountIn(tape, pos) /\ UnitsBefore(pos + 1) = CountIn(tape, pos + 1)
      BY UnitsBeforeIs
    <3> QED  BY <1>1, <3>1, <3>2
  <2>2. \A i \in pos + 1 .. pos + 1 - 1 : FALSE  BY <1>1
  <2> QED  BY <1>1, <2>1, <2>2
<1>7. space > 0 /\ input > 0 => Taken(input, space) > 0
  <2> HIDE DEF Fits
  <2>1. 0 + 1 = 1  OBVIOUS
  <2> QED  BY <1>5, <1>6, <2>1
<1> QED  BY <1>5, <1>7

(* What a decoder finds in the cells that it takes.                         *)
LEMMA TakenUnits ==
  ASSUME WriterInv, ReaderTypes, NEW k \in Nat
  PROVE  /\ UnitsBefore(pos) \in Nat
         /\ \E d \in Nat : /\ DataIn(pos, k) = UnitsFrom(UnitsBefore(pos), d)
                           /\ UnitsBefore(pos + k) = UnitsBefore(pos) + d
                           /\ Len(DataIn(pos, k)) = d
<1> DEFINE u == UnitsBefore(pos)
           v == UnitsBefore(pos + k)
<1>1. pos \in Nat /\ pos + k \in Nat /\ Numbered(tape)  BY DEF WriterInv, ReaderTypes
<1>2. u \in Nat /\ v \in Nat  BY <1>1, UnitsBeforeIs
<1>3. DataIn(pos, k) = UnitsFrom(u, v - u) /\ Len(DataIn(pos, k)) = v - u /\ u <= v
  BY <1>1, DataInIs
<1> HIDE DEF u, v
<1>4. v - u \in Nat /\ v = u + (v - u)  BY <1>2, <1>3
<1>5. \E d \in Nat : DataIn(pos, k) = UnitsFrom(u, d) /\ v = u + d /\ Len(DataIn(pos, k)) = d
  BY <1>3, <1>4
<1> QED  BY <1>2, <1>5 DEF u, v

LEMMA NoUnitTaken ==
  ASSUME ReaderTypes, ~Is("data", pos + 1)
  PROVE  UnitsBefore(pos + 1) = UnitsBefore(pos)
BY UnitsBeforeIs, CountStep DEF ReaderTypes, Is

(* A turn that takes cells without a unit and leaves the buffer as it is.    *)
Passes(k) ==
  /\ pos' = pos + k /\ UnitsBefore(pos + k) = UnitsBefore(pos)
  /\ UNCHANGED <<buf, bufPos, expect>>

LEMMA PassesKeeps ==
  ASSUME ReaderInv, tape' = tape, NEW k, Passes(k)
  PROVE  Follows(buf', bufPos', expect', UnitsBefore(pos)')
BY TapeStands DEF ReaderInv, Passes

LEMMA PassesNothing ==
  ASSUME ReaderTypes, pos' = pos + 0 \/ pos' = pos, UNCHANGED <<buf, bufPos, expect>>
  PROVE  Passes(0)
BY DEF ReaderTypes, Passes

LEMMA StartFillStep ==
  ASSUME WriterInv, ReaderInv, closed, tape' = tape, closed' = closed, codec' = codec, StartFill
  PROVE  ReaderInv'
<1>1. /\ UNCHANGED <<pos, avail, outSize, streamPos, remaining, chunkSize, chunkRead, expect>>
      /\ Unread = << >>
      /\ codec = "chunked" => UNCHANGED <<buf, bufPos>>
      /\ codec # "chunked" => buf' = << >> /\ bufPos' = 0
  BY DEF StartFill, inVars, gzipVars, chunkVars, outVars
<1>2. bufPos = Len(buf)
  <2>1. /\ Len(SubSeq(buf, bufPos + 1, Len(buf))) = Len(buf) - bufPos
        /\ Len(buf) \in Nat /\ bufPos \in 0 .. Len(buf)
    BY FollowsInOrder DEF ReaderInv, Follows
  <2>2. Len(buf) - bufPos = 0  BY <1>1, <2>1, NoUnits DEF Unread
  <2> QED  BY <2>1, <2>2
<1>3. Follows(buf', bufPos', expect', UnitsBefore(pos)')
  <2>1. UnitsBefore(pos)' = UnitsBefore(pos)  BY <1>1, TapeStands
  <2>2. Follows(buf, bufPos, expect, UnitsBefore(pos))  BY DEF ReaderInv
  <2>3. Follows(<< >>, 0, expect, UnitsBefore(pos))  BY <1>2, <2>2, FollowsAll
  <2> QED  BY <1>1, <2>1, <2>2, <2>3
<1>4. InCall'
  BY <1>1, <1>2, NoUnits DEF InCall, ReaderInv, ReaderTypes
<1>5. ReaderTypes'  BY <1>1 DEF ReaderInv, ReaderTypes
<1> QED  BY <1>3, <1>4, <1>5 DEF ReaderInv

LEMMA GzipStep ==
  ASSUME WriterInv, ReaderInv, closed, tape' = tape, closed' = closed, codec' = codec,
         codec = "gzip", call # "idle", GzipTurn, remaining' = remaining
  PROVE  ReaderInv'
<1>0. ReaderTypes /\ InCall /\ Follows(buf, bufPos, expect, UnitsBefore(pos))  BY DEF ReaderInv
<1>1. Len(buf) \in Nat /\ Len(buf) <= outSize /\ bufPos = 0 /\ outSize \in Nat
  BY <1>0 DEF InCall, Follows, ReaderTypes
<1> DEFINE space == outSize - Len(buf)
<1>2. space \in Nat  BY <1>1
<1>3. PICK input \in Inputs :
        LET k == Taken(input, space)
            units == buf \o DataIn(pos, k)
            ended == k > 0 /\ Ends(pos + k)
        IN  /\ Take(input, k)
            /\ outSize' \in Sizes(k, ended)
            /\ buf' = units
  BY DEF GzipTurn
<1> DEFINE k == Taken(input, space)
<1>4. /\ Take(input, k)
      /\ outSize' \in Sizes(k, k > 0 /\ Ends(pos + k))
      /\ buf' = buf \o DataIn(pos, k)
  BY <1>3
<1>5. UNCHANGED <<bufPos, streamPos, chunkSize, chunkRead, expect>>
  BY DEF GzipTurn, chunkVars
<1>6. input \in Nat  BY <1>0, InputsAre
<1>7. k \in 0 .. input /\ UnitsBefore(pos + k) <= UnitsBefore(pos) + space
  BY <1>0, <1>2, <1>6, TakenIs
<1> HIDE DEF k, space
<1>8. pos' = pos + k /\ k \in Nat /\ pos' \in Nat /\ avail' \in Nat
  BY <1>0, <1>4, <1>6, <1>7, TakeMoves
<1>9. PICK d \in Nat : /\ DataIn(pos, k) = UnitsFrom(UnitsBefore(pos), d)
                       /\ UnitsBefore(pos + k) = UnitsBefore(pos) + d
  BY <1>0, <1>8, TakenUnits
<1>10. Follows(buf', bufPos, expect, UnitsBefore(pos) + d) /\ Len(buf') = Len(buf) + d
  <2>1. /\ Follows(buf \o UnitsFrom(UnitsBefore(pos), d), bufPos, expect, UnitsBefore(pos) + d)
        /\ Len(buf \o UnitsFrom(UnitsBefore(pos), d)) = Len(buf) + d
    BY <1>0, FollowsMore
  <2>2. buf' = buf \o UnitsFrom(UnitsBefore(pos), d)  BY <1>4, <1>9
  <2> QED  BY <2>1, <2>2
<1>11. Follows(buf', bufPos', expect', UnitsBefore(pos)')
  BY <1>5, <1>8, <1>9, <1>10, TapeStands
<1>12. outSize' \in Nat /\ outSize <= outSize'
  BY <1>1, <1>4, ReaderAssumption DEF Sizes
<1>13. Len(buf') <= outSize'
  <2>1. UnitsBefore(pos) \in Nat  BY <1>0 DEF Follows
  <2>2. d <= space  BY <1>2, <1>7, <1>9, <2>1
  <2>3. d <= outSize - Len(buf)  BY <2>2 DEF space
  <2> QED  BY <1>1, <1>10, <1>12, <2>3
<1>14. InCall'  BY <1>1, <1>5, <1>13 DEF InCall
<1>15. ReaderTypes'  BY <1>0, <1>5, <1>8, <1>12 DEF ReaderTypes
<1> QED  BY <1>11, <1>14, <1>15 DEF ReaderInv

(* A turn of a decoder that starts with an empty buffer and puts what it     *)
(* finds there: once that is something, fill_buf() returns.                  *)
LEMMA DecoderStep ==
  ASSUME WriterInv, ReaderInv, closed, tape' = tape, closed' = closed, codec' = codec,
         codec \in {"zstd", "lz4", "brotli"}, call # "idle",
         UNCHANGED <<bufPos, expect, outSize, streamPos, chunkSize, chunkRead, remaining>>,
         NEW input \in Nat, NEW k \in 0 .. input, Take(input, k),
         \/ buf' = DataIn(pos, k) /\ (call' # "idle" => buf' = << >>)
         \/ buf' = buf /\ UnitsBefore(pos + k) = UnitsBefore(pos)
  PROVE  ReaderInv'
<1>0. ReaderTypes /\ InCall /\ Follows(buf, bufPos, expect, UnitsBefore(pos))  BY DEF ReaderInv
<1>1. buf = << >> /\ bufPos = 0  BY <1>0 DEF InCall
<1>2. pos' = pos + k /\ k \in Nat /\ pos' \in Nat /\ avail' \in Nat
  BY <1>0, TakeMoves
<1>3. Follows(buf', bufPos', expect', UnitsBefore(pos)')
  <2>1. CASE buf' = DataIn(pos, k)
    <3>1. PICK d \in Nat : /\ DataIn(pos, k) = UnitsFrom(UnitsBefore(pos), d)
                           /\ UnitsBefore(pos + k) = UnitsBefore(pos) + d
      BY <1>0, <1>2, TakenUnits
    <3>2. UnitsBefore(pos) \in Nat /\ expect = UnitsBefore(pos) + 1
      BY <1>0, <1>1, NoUnits, FollowsAll
    <3>3. Follows(buf', 0, expect, UnitsBefore(pos) + d)
      BY <2>1, <3>1, <3>2, FollowsPiece
    <3>4. UnitsBefore(pos)' = UnitsBefore(pos) + d  BY <1>2, <3>1, TapeStands
    <3> QED  BY <1>1, <3>3, <3>4
  <2>2. CASE buf' = buf /\ UnitsBefore(pos + k) = UnitsBefore(pos)
    <3>1. Passes(k)  BY <1>2, <2>2 DEF Passes
    <3> QED  BY <3>1, PassesKeeps
  <2> QED  BY <2>1, <2>2
<1>4. InCall'  BY <1>1 DEF InCall
<1>5. ReaderTypes'  BY <1>0, <1>2 DEF ReaderTypes
<1> QED  BY <1>3, <1>4, <1>5 DEF ReaderInv

LEMMA ZstdStep ==
  ASSUME WriterInv, ReaderInv, closed, tape' = tape, closed' = closed, codec' = codec,
         codec \in {"zstd", "brotli"}, call # "idle", remaining' = remaining,
         LoadDict \/ ZstdTurn \/ ZstdNext \/ StopsAtEnd
  PROVE  ReaderInv'
<1>0. ReaderTypes  BY DEF ReaderInv
<1>1. UNCHANGED <<bufPos, expect, outSize, streamPos, chunkSize, chunkRead, remaining>>
  BY DEF LoadDict, ZstdTurn, ZstdNext, StopsAtEnd, outVars, gzipVars, chunkVars
<1>2. CASE LoadDict
  <2>1. buf' = buf  BY <1>2 DEF LoadDict, outVars
  <2>2. CASE streamPos = 0 /\ frameStart = 0 /\ ~dictLoaded
    <3>1. PICK input \in Inputs : IF Is("dict", pos + 1) THEN Take(input, 1) ELSE Take(input, 0)
      BY <1>2, <2>2 DEF LoadDict
    <3>2. input \in Nat /\ 0 \in 0 .. input /\ UnitsBefore(pos + 0) = UnitsBefore(pos)
      BY <1>0, InputsAre DEF ReaderTypes
    <3>3. CASE Is("dict", pos + 1)
      <4>1. 1 \in 0 .. input  BY <1>0, <3>3, InputsAre
      <4>2. UnitsBefore(pos + 1) = UnitsBefore(pos)  BY <1>0, <3>3, NoUnitTaken DEF Is
      <4>3. Take(input, 1)  BY <3>1, <3>3
      <4> QED  BY <1>1, <2>1, <3>2, <4>1, <4>2, <4>3, DecoderStep
    <3>4. CASE ~Is("dict", pos + 1)
      <4>1. Take(input, 0)  BY <3>1, <3>4
      <4> QED  BY <1>1, <2>1, <3>2, <4>1, DecoderStep
    <3> QED  BY <3>3, <3>4
  <2>3. CASE ~ (streamPos = 0 /\ frameStart = 0 /\ ~dictLoaded)
    <3>1. pos' = pos /\ avail' = avail  BY <1>2, <2>3 DEF LoadDict
    <3>2. avail \in Nat /\ 0 \in 0 .. avail /\ Take(avail, 0) /\ UnitsBefore(pos + 0) = UnitsBefore(pos)
      BY <1>0, <3>1 DEF Take, ReaderTypes
    <3> QED  BY <1>1, <2>1, <3>2, DecoderStep
  <2> QED  BY <2>2, <2>3
<1>3. CASE ZstdTurn
  <2>1. PICK input \in Inputs :
          LET k == Taken(input, MaxOut)
              units == DataIn(pos, k)
          IN  \/ Take(input, 0) /\ UNCHANGED <<stage, buf>>
              \/ /\ Take(input, k)
                 /\ buf' = units
                 /\ IF units = << >> THEN Continue("decode") ELSE Return("data")
    BY <1>3 DEF ZstdTurn
  <2> DEFINE k == Taken(input, MaxOut)
  <2>2. input \in Nat /\ 0 \in 0 .. input /\ UnitsBefore(pos + 0) = UnitsBefore(pos)
    BY <1>0, InputsAre DEF ReaderTypes
  <2>3. k \in 0 .. input  BY <1>0, <2>2, TakenIs, ReaderAssumption
  <2>4. CASE Take(input, 0) /\ UNCHANGED <<stage, buf>>
    BY <1>1, <2>2, <2>4, DecoderStep
  <2>5. CASE /\ Take(input, k)
             /\ buf' = DataIn(pos, k)
             /\ IF DataIn(pos, k) = << >> THEN Continue("decode") ELSE Return("data")
    <3>1. call' # "idle" => buf' = << >>  BY <2>5 DEF Return
    <3> HIDE DEF k
    <3> QED  BY <1>1, <2>2, <2>3, <2>5, <3>1, DecoderStep
  <2> QED  BY <2>1, <2>4, <2>5
<1>4. CASE ZstdNext
  <2>1. PICK input \in Inputs : Take(input, 0)  BY <1>4 DEF ZstdNext
  <2>2. input \in Nat /\ 0 \in 0 .. input /\ UnitsBefore(pos + 0) = UnitsBefore(pos)
    BY <1>0, InputsAre DEF ReaderTypes
  <2>3. buf' = buf  BY <1>4 DEF ZstdNext, outVars
  <2> QED  BY <1>1, <2>1, <2>2, <2>3, DecoderStep
<1>5. CASE StopsAtEnd
  <2>1. buf' = buf /\ pos' = pos /\ avail' = avail  BY <1>5 DEF StopsAtEnd, outVars, inVars
  <2>2. avail \in Nat /\ 0 \in 0 .. avail /\ Take(avail, 0) /\ UnitsBefore(pos + 0) = UnitsBefore(pos)
    BY <1>0, <2>1 DEF Take, ReaderTypes
  <2> QED  BY <1>1, <2>1, <2>2, DecoderStep
<1> QED  BY <1>2, <1>3, <1>4, <1>5

LEMMA Lz4Step ==
  ASSUME WriterInv, ReaderInv, closed, tape' = tape, closed' = closed, codec' = codec,
         codec = "lz4", call # "idle", Lz4Turn, remaining' = remaining
  PROVE  ReaderInv'
<1>0. ReaderTypes  BY DEF ReaderInv
<1>1. UNCHANGED <<bufPos, expect, outSize, streamPos, chunkSize, chunkRead, remaining>>
  BY DEF Lz4Turn, gzipVars, chunkVars
<1>2. PICK input \in Inputs :
        /\ Take(input, IF input > 0 /\ Decodable THEN 1 ELSE 0)
        /\ IF input = 0 THEN Lz4TapeEnd
           ELSE IF ~Decodable THEN Return("error") /\ UNCHANGED <<stage, frameStart, buf>>
           ELSE IF Is("tail", pos + 1) THEN Lz4FrameEnd
           ELSE /\ buf' = DataIn(pos, 1)
                /\ IF Is("data", pos + 1) THEN Return("data") ELSE Continue(call)
  BY DEF Lz4Turn
<1>3. input \in Nat /\ 0 \in 0 .. input /\ UnitsBefore(pos + 0) = UnitsBefore(pos)
  BY <1>0, InputsAre DEF ReaderTypes
<1>4. CASE input = 0 \/ ~Decodable
  <2>1. Take(input, 0)  BY <1>2, <1>4, <1>3
  <2>2. buf' = buf  BY <1>2, <1>4 DEF Lz4TapeEnd
  <2> QED  BY <1>1, <1>3, <2>1, <2>2, DecoderStep
<1>5. CASE input # 0 /\ Decodable
  <2>1. Take(input, 1) /\ 1 \in 0 .. input  BY <1>2, <1>3, <1>5
  <2>2. CASE Is("tail", pos + 1)
    <3>1. buf' = buf  BY <1>2, <1>5, <2>2 DEF Lz4FrameEnd
    <3>2. UnitsBefore(pos + 1) = UnitsBefore(pos)  BY <1>0, <2>2, NoUnitTaken DEF Is
    <3> QED  BY <1>1, <1>3, <2>1, <3>1, <3>2, DecoderStep
  <2>3. CASE ~Is("tail", pos + 1)
    <3>1. buf' = DataIn(pos, 1) /\ IF Is("data", pos + 1) THEN Return("data") ELSE Continue(call)
      BY <1>2, <1>5, <2>3
    <3>2. CASE Is("data", pos + 1)
      <4>1. call' = "idle"  BY <3>1, <3>2 DEF Return
      <4> QED  BY <1>1, <1>3, <2>1, <3>1, <4>1, DecoderStep
    <3>3. CASE ~Is("data", pos + 1)
      <4>1. PICK d \in Nat : /\ DataIn(pos, 1) = UnitsFrom(UnitsBefore(pos), d)
                             /\ UnitsBefore(pos + 1) = UnitsBefore(pos) + d
        BY <1>0, TakenUnits
      <4>2. UnitsBefore(pos) \in Nat  BY <1>0, UnitsBeforeIs DEF ReaderTypes
      <4>3. d = 0  BY <1>0, <3>3, <4>1, <4>2, NoUnitTaken
      <4>4. buf' = << >>  BY <3>1, <4>1, <4>3, NoUnits
      <4> QED  BY <1>1, <1>3, <2>1, <3>1, <4>4, DecoderStep
    <3> QED  BY <3>2, <3>3
  <2> QED  BY <2>2, <2>3
<1> QED  BY <1>4, <1>5

LEMMA NewChunkStep ==
  ASSUME WriterInv, ReaderInv, closed, tape' = tape, closed' = closed, codec' = codec,
         codec = "chunked", call \notin {"idle", "close"}, NewChunk,
         UNCHANGED <<outSize, streamPos, remaining, expect>>
  PROVE  ReaderInv'
<1>0. ReaderTypes /\ bufPos = Len(buf)  BY DEF ReaderInv, InCall
<1>1. UNCHANGED <<buf, bufPos, chunkRead>>  BY DEF NewChunk, outVars
<1>2. PICK input \in Inputs :
        IF input = 0 \/ ~Is("size", pos + 1)
          THEN Take(input, 0) /\ UNCHANGED chunkSize
          ELSE Take(input, 1) /\ chunkSize' = tape[pos + 1].n
  BY DEF NewChunk
<1>3. input \in Nat  BY <1>0, InputsAre
<1>4. \E k \in {0, 1} : k \in 0 .. input /\ Take(input, k) /\ UnitsBefore(pos + k) = UnitsBefore(pos)
  <2>1. CASE input = 0 \/ ~Is("size", pos + 1)
    <3>1. 0 \in 0 .. input /\ UnitsBefore(pos + 0) = UnitsBefore(pos)
      BY <1>0, <1>3 DEF ReaderTypes
    <3> QED  BY <1>2, <2>1, <3>1
  <2>2. CASE ~ (input = 0 \/ ~Is("size", pos + 1))
    <3>1. 1 \in 0 .. input  BY <1>3, <2>2
    <3>2. UnitsBefore(pos + 1) = UnitsBefore(pos)  BY <1>0, <2>2, NoUnitTaken DEF Is
    <3> QED  BY <1>2, <2>2, <3>1, <3>2
  <2> QED  BY <2>1, <2>2
<1>5. PICK k \in {0, 1} : k \in 0 .. input /\ Take(input, k) /\ UnitsBefore(pos + k) = UnitsBefore(pos)
  BY <1>4
<1>6. pos' = pos + k /\ pos' \in Nat /\ avail' \in Nat
  BY <1>0, <1>3, <1>5, TakeMoves
<1>7. chunkSize' \in Nat
  <2>1. CASE input = 0 \/ ~Is("size", pos + 1)  BY <1>0, <1>2, <2>1 DEF ReaderTypes
  <2>2. CASE ~ (input = 0 \/ ~Is("size", pos + 1))
    <3>1. pos + 1 \in 1 .. Len(tape)  BY <2>2 DEF Is
    <3>2. tape[pos + 1] \in Cells  BY <3>1 DEF WriterInv
    <3>3. tape[pos + 1].n \in Nat  BY <3>2 DEF Cells
    <3> QED  BY <1>2, <2>2, <3>3
  <2> QED  BY <2>1, <2>2
<1>8. Passes(k)  BY <1>1, <1>5, <1>6 DEF Passes
<1>9. Follows(buf', bufPos', expect', UnitsBefore(pos)')  BY <1>8, PassesKeeps
<1>10. InCall'  BY <1>0, <1>1 DEF InCall
<1>11. ReaderTypes'  BY <1>0, <1>1, <1>6, <1>7 DEF ReaderTypes
<1> QED  BY <1>9, <1>10, <1>11 DEF ReaderInv

LEMMA WithinChunkStep ==
  ASSUME WriterInv, ReaderInv, closed, tape' = tape, closed' = closed, codec' = codec,
         codec = "chunked", call \notin {"idle", "close"}, WithinChunk,
         UNCHANGED <<outSize, streamPos, remaining, expect>>
  PROVE  ReaderInv'
<1>0. ReaderTypes /\ bufPos = Len(buf) /\ Follows(buf, bufPos, expect, UnitsBefore(pos))
  BY DEF ReaderInv, InCall
<1>1. PICK input \in Inputs :
        LET n == Least(input, chunkSize - chunkRead)
        IN  /\ Take(input, n)
            /\ chunkRead' = chunkRead + n
            /\ IF n = 0
                 THEN Return("error") /\ UNCHANGED outVars
                 ELSE /\ buf' = DataIn(pos, n) /\ bufPos' = 0
                      /\ IF chunkRead + n = chunkSize THEN Continue("close") ELSE Return("data")
  BY DEF WithinChunk
<1> DEFINE n == Least(input, chunkSize - chunkRead)
<1>2. input \in Nat /\ chunkSize' = chunkSize /\ chunkRead < chunkSize
  BY <1>0, InputsAre DEF WithinChunk
<1>3. n \in 0 .. input  BY <1>0, <1>2 DEF Least, ReaderTypes
<1>4. Take(input, n) /\ chunkRead' = chunkRead + n
  BY <1>1
<1>5. \/ n = 0 /\ call' = "idle" /\ UNCHANGED <<buf, bufPos>>
      \/ buf' = DataIn(pos, n) /\ bufPos' = 0 /\ call' \in {"idle", "close"}
  BY <1>1 DEF Return, Continue, outVars
<1> HIDE DEF n
<1>6. pos' = pos + n /\ n \in Nat /\ pos' \in Nat /\ avail' \in Nat
  BY <1>0, <1>2, <1>3, <1>4, TakeMoves
<1>7. Follows(buf', bufPos', expect', UnitsBefore(pos)')
  <2>1. CASE n = 0 /\ call' = "idle" /\ UNCHANGED <<buf, bufPos>>
    <3>1. Passes(0)  BY <1>0, <1>6, <2>1, PassesNothing
    <3> QED  BY <3>1, PassesKeeps
  <2>2. CASE buf' = DataIn(pos, n) /\ bufPos' = 0
    <3>1. PICK d \in Nat : /\ DataIn(pos, n) = UnitsFrom(UnitsBefore(pos), d)
                           /\ UnitsBefore(pos + n) = UnitsBefore(pos) + d
      BY <1>0, <1>6, TakenUnits
    <3>2. UnitsBefore(pos) \in Nat /\ expect = UnitsBefore(pos) + 1
      BY <1>0, FollowsAll
    <3>3. Follows(buf', 0, expect, UnitsBefore(pos) + d)
      BY <2>2, <3>1, <3>2, FollowsPiece
    <3>4. UnitsBefore(pos)' = UnitsBefore(pos) + d  BY <1>6, <3>1, TapeStands
    <3> QED  BY <2>2, <3>3, <3>4
  <2> QED  BY <1>5, <2>1, <2>2
<1>8. InCall'  BY <1>5 DEF InCall
<1>9. chunkRead' \in Nat  BY <1>0, <1>4, <1>6 DEF ReaderTypes
<1>10. ReaderTypes'  BY <1>0, <1>2, <1>6, <1>9 DEF ReaderTypes
<1> QED  BY <1>7, <1>8, <1>10 DEF ReaderInv

LEMMA CloseChunkStep ==
  ASSUME WriterInv, ReaderInv, closed, tape' = tape, closed' = closed, codec' = codec,
         codec = "chunked", CloseChunk,
         UNCHANGED <<outSize, streamPos, remaining, expect>>
  PROVE  ReaderInv'
<1>0. ReaderTypes  BY DEF ReaderInv
<1>1. UNCHANGED <<buf, bufPos>> /\ call' = "idle"  BY DEF CloseChunk, outVars, Return
<1>2. PICK input \in Inputs :
        IF Is("crlf", pos + 1)
          THEN Take(input, 1) /\ chunkSize' = 0 /\ chunkRead' = 0
          ELSE Take(input, 0) /\ UNCHANGED chunkVars
  BY DEF CloseChunk
<1>3. input \in Nat  BY <1>0, InputsAre
<1>4. \E k \in {0, 1} : k \in 0 .. input /\ Take(input, k) /\ UnitsBefore(pos + k) = UnitsBefore(pos)
  <2>1. CASE ~Is("crlf", pos + 1)
    <3>1. 0 \in 0 .. input /\ UnitsBefore(pos + 0) = UnitsBefore(pos)
      BY <1>0, <1>3 DEF ReaderTypes
    <3> QED  BY <1>2, <2>1, <3>1
  <2>2. CASE Is("crlf", pos + 1)
    <3>1. 1 \in 0 .. input  BY <1>0, <2>2, InputsAre
    <3>2. UnitsBefore(pos + 1) = UnitsBefore(pos)  BY <1>0, <2>2, NoUnitTaken DEF Is
    <3> QED  BY <1>2, <2>2, <3>1, <3>2
  <2> QED  BY <2>1, <2>2
<1>5. PICK k \in {0, 1} : k \in 0 .. input /\ Take(input, k) /\ UnitsBefore(pos + k) = UnitsBefore(pos)
  BY <1>4
<1>6. pos' = pos + k /\ pos' \in Nat /\ avail' \in Nat
  BY <1>0, <1>3, <1>5, TakeMoves
<1>7. Passes(k)  BY <1>1, <1>5, <1>6 DEF Passes
<1>8. Follows(buf', bufPos', expect', UnitsBefore(pos)')  BY <1>7, PassesKeeps
<1>9. InCall'  BY <1>1 DEF InCall
<1>10. chunkSize' \in Nat /\ chunkRead' \in Nat  BY <1>0, <1>2 DEF chunkVars, ReaderTypes
<1>11. ReaderTypes'  BY <1>0, <1>6, <1>10 DEF ReaderTypes
<1> QED  BY <1>8, <1>9, <1>11 DEF ReaderInv

LEMMA TurnStep ==
  ASSUME WriterInv, ReaderInv, closed, tape' = tape, closed' = closed, codec' = codec, Turn
  PROVE  ReaderInv'
<1>1. call # "idle" /\ remaining' = remaining /\ codec \in Formats
  BY DEF Turn, WriterInv
<1>2. CASE codec = "gzip"
  <2>1. GzipTurn  BY <1>2 DEF Turn
  <2> QED  BY <1>1, <1>2, <2>1, GzipStep
<1>3. CASE codec = "zstd"
  <2>1. LoadDict \/ ZstdTurn \/ ZstdNext  BY <1>3 DEF Turn
  <2> QED  BY <1>1, <1>3, <2>1, ZstdStep
<1>4. CASE codec = "brotli"
  <2>1. ZstdTurn \/ StopsAtEnd  BY <1>4 DEF Turn, BrotliTurn
  <2> QED  BY <1>1, <1>4, <2>1, ZstdStep
<1>5. CASE codec = "lz4"
  <2>1. Lz4Turn  BY <1>5 DEF Turn
  <2> QED  BY <1>1, <1>5, <2>1, Lz4Step
<1>6. CASE codec = "chunked"
  <2>1. ChunkedTurn  BY <1>6 DEF Turn
  <2>2. UNCHANGED <<outSize, streamPos, remaining, expect>>
    BY <1>1, <2>1 DEF ChunkedTurn, gzipVars
  <2>3. CASE call = "close"
    <3>1. CloseChunk  BY <2>1, <2>3 DEF ChunkedTurn
    <3> QED  BY <1>6, <2>2, <3>1, CloseChunkStep
  <2>4. CASE call # "close"
    <3>1. NewChunk \/ WithinChunk  BY <2>1, <2>4 DEF ChunkedTurn
    <3> QED  BY <1>1, <1>6, <2>2, <2>4, <3>1, NewChunkStep, WithinChunkStep
  <2> QED  BY <2>3, <2>4
<1> QED  BY <1>1, <1>2, <1>3, <1>4, <1>5, <1>6 DEF Formats

LEMMA TakeUnitsStep ==
  ASSUME WriterInv, ReaderInv, closed, tape' = tape, closed' = closed, codec' = codec,
         call = "idle", NEW n \in Nat, n <= Len(Unread), TakeUnits(n), remaining' \in Nat
  PROVE  ReaderInv'
<1>0. ReaderTypes /\ Follows(buf, bufPos, expect, UnitsBefore(pos))  BY DEF ReaderInv
<1>1. /\ UNCHANGED <<pos, avail, buf, outSize, chunkSize, chunkRead, call>>
      /\ bufPos' = bufPos + n /\ streamPos' = streamPos + n /\ expect' = expect + n
  BY DEF TakeUnits, inVars, gzipVars, chunkVars
<1>2. n \in 0 .. Len(buf) - bufPos
  <2>1. Len(SubSeq(buf, bufPos + 1, Len(buf))) = Len(buf) - bufPos
    BY <1>0, FollowsInOrder
  <2>2. Len(buf) \in Nat /\ bufPos \in 0 .. Len(buf)  BY <1>0 DEF Follows
  <2> QED  BY <2>1, <2>2 DEF Unread
<1>3. Follows(buf, bufPos + n, expect + n, UnitsBefore(pos))
  BY <1>0, <1>2, FollowsOnTake
<1>4. UnitsBefore(pos)' = UnitsBefore(pos)  BY <1>1, TapeStands
<1>5. Follows(buf', bufPos', expect', UnitsBefore(pos)')  BY <1>1, <1>3, <1>4
<1>6. InCall'  BY <1>1 DEF InCall
<1>7. streamPos' \in Nat  BY <1>0, <1>1 DEF ReaderTypes
<1>8. ReaderTypes'  BY <1>0, <1>1, <1>7 DEF ReaderTypes
<1> QED  BY <1>5, <1>6, <1>8 DEF ReaderInv

LEMMA SeekStepStep ==
  ASSUME WriterInv, ReaderInv, closed, tape' = tape, closed' = closed, codec' = codec, SeekStep
  PROVE  ReaderInv'
<1>0. ReaderTypes /\ Follows(buf, bufPos, expect, UnitsBefore(pos))  BY DEF ReaderInv
<1>1. CASE result \in {"end", "error"}
  <2>1. /\ UNCHANGED <<pos, avail, buf, bufPos, expect, outSize, streamPos, chunkSize, chunkRead, call>>
        /\ remaining' = 0 /\ call = "idle"
    BY <1>1 DEF SeekStep, inVars, outVars, gzipVars, chunkVars
  <2>2. UnitsBefore(pos)' = UnitsBefore(pos)  BY <2>1, TapeStands
  <2>3. InCall'  BY <2>1 DEF InCall
  <2>4. ReaderTypes'  BY <1>0, <2>1 DEF ReaderTypes
  <2> QED  BY <1>0, <2>1, <2>2, <2>3, <2>4 DEF ReaderInv
<1>2. CASE result \notin {"end", "error"}
  <2> DEFINE n == Least(Len(Unread), remaining)
  <2>1. n > 0 /\ TakeUnits(n) /\ remaining' = remaining - n /\ call = "idle"
    BY <1>2 DEF SeekStep
  <2>2. Len(Unread) \in Nat /\ remaining \in Nat
    <3>1. Len(Unread) = Len(buf) - bufPos  BY <1>0, FollowsInOrder DEF Unread
    <3>2. Len(buf) \in Nat /\ bufPos \in 0 .. Len(buf)  BY <1>0 DEF Follows
    <3> QED  BY <1>0, <3>1, <3>2 DEF ReaderTypes
  <2>3. n \in Nat /\ n <= Len(Unread) /\ n <= remaining  BY <2>2 DEF Least
  <2> HIDE DEF n
  <2>4. remaining' \in Nat  BY <2>1, <2>2, <2>3
  <2> QED  BY <2>1, <2>3, <2>4, TakeUnitsStep
<1> QED  BY <1>1, <1>2

LEMMA SeekStarts ==
  ASSUME WriterInv, ReaderInv, closed, tape' = tape, closed' = closed, codec' = codec,
         NEW p \in Nat, Seek(p)
  PROVE  ReaderInv'
<1>0. ReaderTypes /\ Follows(buf, bufPos, expect, UnitsBefore(pos))  BY DEF ReaderInv
<1>1. /\ UNCHANGED <<pos, avail, buf, bufPos, expect, outSize, streamPos, chunkSize, chunkRead, call>>
      /\ remaining' = p - streamPos /\ p > streamPos /\ call = "idle"
  BY DEF Seek, inVars, outVars, gzipVars, chunkVars
<1>2. UnitsBefore(pos)' = UnitsBefore(pos)  BY <1>1, TapeStands
<1>3. InCall'  BY <1>1 DEF InCall
<1>4. remaining' \in Nat  BY <1>0, <1>1 DEF ReaderTypes
<1>5. ReaderTypes'  BY <1>0, <1>1, <1>4 DEF ReaderTypes
<1> QED  BY <1>0, <1>1, <1>2, <1>3, <1>5 DEF ReaderInv

(* A chunked body that has been read from keeps its buffer, and what of it   *)
(* had been consumed: which is why seeks in it are left out.                 *)
LEMMA InnerSeekStep ==
  ASSUME WriterInv, ReaderInv, closed, tape' = tape, closed' = closed, codec' = codec,
         ~SeeksChunks, NEW p \in Nat, InnerSeek(p)
  PROVE  ReaderInv'
<1>0. ReaderTypes /\ codec \in Formats  BY DEF ReaderInv, WriterInv
<1>1. /\ UNCHANGED <<outSize, chunkRead, call, remaining>>
      /\ call = "idle" /\ expect' = UnitsBefore(p) + 1
      /\ codec = "chunked" => buf = << >>
  BY DEF InnerSeek
<1>2. pos' = p /\ avail' \in Nat
  BY <1>0 DEF InnerSeek, BrotliSeek, SeekTape, ReaderTypes
<1>3. buf' = << >> /\ bufPos' = 0 /\ chunkSize' \in Nat /\ streamPos' \in Nat
  <2>1. CASE codec = "brotli"
    BY <1>0, <2>1 DEF InnerSeek, BrotliSeek, ReaderTypes
  <2>2. CASE codec = "gzip"
    <3>1. GzipSeek(p) /\ streamPos' = 0  BY <2>2 DEF InnerSeek
    <3> QED  BY <1>0, <3>1 DEF GzipSeek, ReaderTypes
  <2>3. CASE codec = "chunked"
    <3>1. ChunkedSeek /\ streamPos' = 0  BY <2>3 DEF InnerSeek
    <3> QED  BY <1>1, <2>3, <3>1 DEF ChunkedSeek
  <2>4. CASE codec \in {"zstd", "lz4"}
    <3>1. FrameSeek(p) /\ streamPos' = 0  BY <2>4 DEF InnerSeek
    <3> QED  BY <1>0, <3>1 DEF FrameSeek, ReaderTypes
  <2> QED  BY <1>0, <2>1, <2>2, <2>3, <2>4 DEF Formats
<1>4. UnitsBefore(p) \in Nat /\ UnitsBefore(pos)' = UnitsBefore(p)
  BY <1>2, UnitsBeforeIs, TapeStands
<1>5. Follows(buf', bufPos', expect', UnitsBefore(pos)')
  BY <1>1, <1>3, <1>4, NothingFollows
<1>6. InCall'  BY <1>1 DEF InCall
<1>7. ReaderTypes'  BY <1>0, <1>1, <1>2, <1>3 DEF ReaderTypes
<1> QED  BY <1>5, <1>6, <1>7 DEF ReaderInv

LEMMA ReaderStep ==
  ASSUME WriterInv, ReaderInv, ~SeeksChunks, Reading
  PROVE  ReaderInv'
<1>1. /\ closed /\ tape' = tape /\ closed' = closed /\ codec' = codec /\ ReaderNext
  BY DEF Reading, writerVars
<1>2. ASSUME NEW n \in 1 .. MaxUnits, Consume(n) PROVE ReaderInv'
  <2>1. n \in Nat /\ n <= Len(Unread) /\ TakeUnits(n) /\ remaining' = remaining /\ call = "idle"
    BY <1>2, TapeAssumption DEF Consume
  <2>2. remaining' \in Nat  BY <2>1 DEF ReaderInv, ReaderTypes
  <2> QED  BY <1>1, <2>1, <2>2, TakeUnitsStep
<1>3. ASSUME NEW n \in 1 .. MaxUnits, Seek(n) PROVE ReaderInv'
  <2>1. n \in Nat  BY TapeAssumption
  <2> QED  BY <1>1, <1>3, <2>1, SeekStarts
<1>4. ASSUME NEW p \in 0 .. Len(tape), InnerSeek(p) PROVE ReaderInv'
  <2>1. p \in Nat  BY DEF WriterInv
  <2> QED  BY <1>1, <1>4, <2>1, InnerSeekStep
<1> QED
  BY <1>1, <1>2, <1>3, <1>4, StartFillStep, TurnStep, SeekStepStep DEF ReaderNext

(* Nothing is read before the writer is gone.                               *)
LEMMA WritingReads ==
  ASSUME WriterInv, ReaderInv, Writing
  PROVE  ReaderInv'
<1>1. /\ UNCHANGED <<pos, avail, buf, bufPos, expect, outSize, streamPos, remaining,
                     chunkSize, chunkRead, call>>
      /\ ~closed /\ codec' = codec
  BY DEF Writing, readerVars, WriterNext, Write, WriteAndEnd, Finish, IntoInner, Cut
<1>2. pos = 0 /\ pos' = 0  BY <1>1 DEF ReaderInv
<1>3. UnitsBefore(pos)' = 0
  <2>1. UnitsBefore(pos)' = CountIn(tape', 0)
    BY <1>2 DEF UnitsBefore, Is, CountIn, UnitsIn
  <2> QED  BY <2>1, CountStep
<1>4. UnitsBefore(pos) = 0  BY <1>2, UnitsBeforeIs, CountStep
<1> QED  BY <1>1, <1>2, <1>3, <1>4 DEF ReaderInv, ReaderTypes, InCall

LEMMA ReaderStays ==
  ASSUME ReaderInv, UNCHANGED vars
  PROVE  ReaderInv'
<1>1. UnitsBefore(pos)' = UnitsBefore(pos)  BY TapeStands DEF vars, readerVars
<1> QED  BY <1>1 DEF ReaderInv, ReaderTypes, InCall, vars, readerVars, writerVars

LEMMA ReaderStarts == Init => ReaderInv
<1> SUFFICES ASSUME Init PROVE ReaderInv  OBVIOUS
<1>1. /\ pos = 0 /\ avail = 0 /\ buf = << >> /\ bufPos = 0 /\ outSize \in 1 .. MaxOut
      /\ streamPos = 0 /\ chunkSize = 0 /\ chunkRead = 0
      /\ call = "idle" /\ remaining = 0 /\ expect = 1
  BY DEF Init, ReaderInit
<1>2. outSize \in Nat  BY <1>1, ReaderAssumption
<1>3. UnitsBefore(pos) = 0  BY <1>1, UnitsBeforeIs, CountStep
<1>4. Follows(<< >>, 0, 0 + 1, 0)  BY NothingFollows
<1>5. Follows(buf, bufPos, expect, UnitsBefore(pos))  BY <1>1, <1>3, <1>4
<1> QED  BY <1>1, <1>2, <1>5 DEF ReaderInv, ReaderTypes, InCall

(* The unread part of a reader's buffer ends with the last unit before its   *)
(* position on the tape, and begins with the one that consume() waits for.   *)
THEOREM ReaderInvariant == ASSUME ~SeeksChunks PROVE Spec => []ReaderInv
<1>1. WriterInv /\ ReaderInv /\ [Next]_vars => ReaderInv'
  BY ReaderStep, WritingReads, ReaderStays DEF Next
<1> QED  BY <1>1, ReaderStarts, WriterInvariant, PTL DEF Spec

(* What fill_buf() of a reader of any format hands out goes on where         *)
(* consume() stopped or inner_seek() went, whatever the size of its buffers, *)
(* and wherever the tape was cut.                                           *)
THEOREM ReadsInOrder == ASSUME ~SeeksChunks PROVE Spec => []InOrder
<1>1. ReaderInv => InOrder
  <2> SUFFICES ASSUME ReaderInv, NEW i \in 1 .. Len(Unread) PROVE Unread[i] = expect + i - 1
    BY DEF InOrder
  <2>1. Follows(buf, bufPos, expect, UnitsBefore(pos))  BY DEF ReaderInv
  <2>2. buf \in Seq(Nat) /\ bufPos \in 0 .. Len(buf) /\ Len(Unread) = Len(buf) - bufPos
    BY <2>1, FollowsInOrder DEF Unread
  <2>3. i \in 1 .. Len(buf) - bufPos  BY <2>2
  <2>4. buf[bufPos + i] = expect + i - 1  BY <2>1, <2>3, FollowsInOrder
  <2>5. Unread[i] = buf[bufPos + i]  BY <2>2, <2>3 DEF Unread
  <2> QED  BY <2>4, <2>5
<1> QED  BY <1>1, ReaderInvariant, PTL

-----------------------------------------------------------------------------
(***************************************************************************)
(* The order of the cells on a tape.                                       *)
(***************************************************************************)

(* Headers, contents and ends follow each other as in members and frames.    *)
MemberOrder(s) ==
  /\ \A i \in 1 .. Len(s) : s[i].kind \in {"head", "data", "tail", "dict"}
  /\ \A i \in 1 .. Len(s) - 1 :
       IF s[i].kind \in {"head", "data"} THEN s[i + 1].kind \in {"data", "tail"}
                                         ELSE s[i + 1].kind = "head"
  /\ Len(s) > 0 => s[1].kind \in {"head", "dict"}

(* After a size there is as much data, then an empty line.                   *)
ChunkOrder(s) ==
  /\ \A i \in 1 .. Len(s) : s[i].kind \in {"size", "data", "crlf"}
  /\ \A i \in 1 .. Len(s) : s[i].kind = "size" =>
       /\ \A j \in 1 .. s[i].n : i + j <= Len(s) => s[i + j].kind = "data"
       /\ i + s[i].n + 1 <= Len(s) => s[i + s[i].n + 1].kind = "crlf"
  /\ \A i \in 1 .. Len(s) - 1 : s[i].kind = "crlf" => s[i + 1].kind = "size"
  /\ Len(s) > 0 => s[1].kind = "size"

(* Nothing is begun that does not end.                                       *)
Complete(s) == Len(s) > 0 => s[Len(s)].kind \in {"tail", "dict", "crlf"}
Order(s) == IF codec = "chunked" THEN ChunkOrder(s) ELSE MemberOrder(s)

TapeInv ==
  /\ Order(tape)
  /\ ~closed \/ whole => Complete(tape)

(* Frames need the dictionary that is on the tape before them.               *)
DictInv ==
  /\ dict => codec = "zstd"
  /\ \A i \in 1 .. Len(tape) : /\ tape[i].kind = "head" => tape[i].n = IF dict THEN 1 ELSE 0
                               /\ tape[i].kind = "dict" => dict
  /\ ~closed /\ dict /\ started => dictDone
  /\ ~closed /\ dict /\ ~dictDone => tape = << >>
  /\ (~closed \/ whole) /\ dict /\ dictDone => Len(tape) > 0 /\ tape[1].kind = "dict"

(* There is one Brotli stream; into_inner() leaves a frame in any case.      *)
LoneInv ==
  /\ ~closed /\ codec = "brotli" => tape = << >>
  /\ codec = "brotli" => \A i \in 1 .. Len(tape) : tape[i].kind = "tail" => i = Len(tape)
  /\ whole /\ codec \in {"zstd", "brotli"} => Len(tape) > 0 /\ tape[Len(tape)].kind = "tail"

OrderInv == TapeInv /\ DictInv /\ LoneInv

(* The tape r is s and, behind it, cells that are complete.                  *)
Grown(r, s) ==
  /\ r \in Seq(Cells) /\ Len(r) > Len(s)
  /\ Order(r) /\ Complete(r)
  /\ codec # "chunked" => r[Len(r)].kind = "tail"
  /\ \A i \in 1 .. Len(s) : r[i] = s[i]
  /\ \A i \in Len(s) + 1 .. Len(r) :
       /\ r[i].kind # "dict"
       /\ r[i].kind = "head" => r[i].n = IF dict THEN 1 ELSE 0
       /\ r[i].kind = "tail" => i = Len(r)

(* The tape r is s and a member, or chunk, of m units.                       *)
Appended(r, s, first, m, last) ==
  /\ r \in Seq(Cells) /\ Len(r) = Len(s) + m + 2
  /\ \A i \in 1 .. Len(s) : r[i] = s[i]
  /\ r[Len(s) + 1] = first /\ r[Len(s) + m + 2] = last
  /\ \A i \in Len(s) + 2 .. Len(s) + m + 1 : r[i].kind = "data"

LEMMA PieceAppended ==
  ASSUME NEW s \in Seq(Cells), NEW c \in Nat, NEW m \in Nat,
         NEW first \in Cells, NEW last \in Cells
  PROVE  Appended(s \o Piece(first, c, m, last), s, first, m, last)
<1> DEFINE u == Piece(first, c, m, last)
           r == s \o u
           l == Len(s)
<1>1. IsPiece(u, first, c, m, last)  BY PieceCells
<1>2. /\ u \in Seq(Cells) /\ Len(u) = m + 2 /\ u[1] = first /\ u[m + 2] = last
      /\ \A i \in 1 .. m : u[1 + i] = ACell("data", c + i)
  BY <1>1 DEF IsPiece
<1> HIDE DEF u
<1>3. /\ r \in Seq(Cells) /\ Len(r) = l + m + 2
      /\ \A i \in 1 .. l : r[i] = s[i]
      /\ \A i \in 1 .. m + 2 : r[l + i] = u[i]
  <2> HIDE DEF r
  <2>1. /\ r \in Seq(Cells) /\ Len(r) = Len(s) + Len(u)
        /\ \A i \in 1 .. Len(s) + Len(u) : r[i] = IF i <= Len(s) THEN s[i] ELSE u[i - Len(s)]
    BY <1>2, ConcatProperties DEF r
  <2>2. l \in Nat /\ Len(s) = l /\ Len(u) = m + 2  BY <1>2
  <2> HIDE DEF l
  <2>3. r \in Seq(Cells) /\ Len(r) = l + m + 2  BY <2>1, <2>2
  <2>4. ASSUME NEW i \in 1 .. l PROVE r[i] = s[i]  BY <2>1, <2>2
  <2>5. ASSUME NEW i \in 1 .. m + 2 PROVE r[l + i] = u[i]
    <3>1. l + i \in 1 .. l + (m + 2) /\ ~ (l + i <= l) /\ l + i - l = i  BY <2>2
    <3> QED  BY <2>1, <2>2, <3>1
  <2> QED  BY <2>3, <2>4, <2>5
<1> HIDE DEF r, l
<1>4. l \in Nat  BY DEF l
<1>5. r[l + 1] = first /\ r[l + m + 2] = last
  <2>1. 1 \in 1 .. m + 2 /\ m + 2 \in 1 .. m + 2 /\ l + (m + 2) = l + m + 2  BY <1>4
  <2>2. r[l + 1] = u[1] /\ r[l + (m + 2)] = u[m + 2]  BY <1>3, <2>1
  <2> QED  BY <1>2, <2>1, <2>2
<1>6. ASSUME NEW i \in l + 2 .. l + m + 1 PROVE r[i].kind = "data"
  <2>1. i - l \in 1 .. m + 2 /\ l + (i - l) = i /\ i - l - 1 \in 1 .. m /\ 1 + (i - l - 1) = i - l
    BY <1>4
  <2>2. r[i] = u[i - l]  BY <1>3, <2>1
  <2>3. u[i - l] = ACell("data", c + (i - l - 1))  BY <1>2, <2>1
  <2> QED  BY <2>2, <2>3 DEF ACell
<1>7. Appended(r, s, first, m, last)  BY <1>3, <1>5, <1>6 DEF Appended, l
<1> QED  BY <1>7 DEF r, u

LEMMA MemberKeepsOrder ==
  ASSUME NEW s \in Seq(Cells), MemberOrder(s), Complete(s), NEW r, NEW m \in Nat,
         NEW first, NEW last, Appended(r, s, first, m, last),
         first.kind = "head", last.kind = "tail"
  PROVE  MemberOrder(r) /\ Complete(r)
<1> DEFINE l == Len(s)
<1>1. /\ l \in Nat /\ Len(r) = l + m + 2
      /\ \A i \in 1 .. l : r[i] = s[i]
      /\ r[l + 1].kind = "head" /\ r[l + m + 2].kind = "tail"
      /\ \A i \in l + 2 .. l + m + 1 : r[i].kind = "data"
  BY DEF Appended
<1>2. /\ \A i \in 1 .. l : s[i].kind \in {"head", "data", "tail", "dict"}
      /\ \A i \in 1 .. l - 1 : IF s[i].kind \in {"head", "data"} THEN s[i + 1].kind \in {"data", "tail"}
                                                                  ELSE s[i + 1].kind = "head"
      /\ l > 0 => s[1].kind \in {"head", "dict"} /\ s[l].kind \in {"tail", "dict", "crlf"}
  BY DEF MemberOrder, Complete
<1> HIDE DEF l
<1>3. ASSUME NEW i \in 1 .. Len(r)
      PROVE  r[i].kind \in {"head", "data", "tail", "dict"}
  <2>1. i \in 1 .. l \/ i = l + 1 \/ i \in l + 2 .. l + m + 1 \/ i = l + m + 2  BY <1>1
  <2> QED  BY <1>1, <1>2, <2>1
<1>4. ASSUME NEW i \in 1 .. Len(r) - 1
      PROVE  IF r[i].kind \in {"head", "data"} THEN r[i + 1].kind \in {"data", "tail"}
                                               ELSE r[i + 1].kind = "head"
  <2>1. i \in 1 .. l - 1 \/ (i = l /\ l > 0) \/ i = l + 1 \/ i \in l + 2 .. l + m + 1  BY <1>1
  <2>2. CASE i \in 1 .. l - 1
    <3>1. i \in 1 .. l /\ i + 1 \in 1 .. l  BY <1>1, <2>2
    <3> QED  BY <1>1, <1>2, <2>2, <3>1
  <2>3. CASE i = l /\ l > 0
    <3>1. l \in 1 .. l  BY <1>1, <2>3
    <3>2. r[l].kind \in {"tail", "dict"}  BY <1>1, <1>2, <2>3, <3>1
    <3> QED  BY <1>1, <2>3, <3>2
  <2>4. CASE i \in l + 1 .. l + m + 1
    <3>1. r[i].kind \in {"head", "data"}
      <4>1. i = l + 1 \/ i \in l + 2 .. l + m + 1  BY <1>1, <2>4
      <4> QED  BY <1>1, <4>1
    <3>2. r[i + 1].kind \in {"data", "tail"}
      <4>1. i + 1 = l + m + 2 \/ i + 1 \in l + 2 .. l + m + 1  BY <1>1, <2>4
      <4> QED  BY <1>1, <4>1
    <3> QED  BY <3>1, <3>2
  <2>5. i = l + 1 => i \in l + 1 .. l + m + 1  BY <1>1
  <2>6. i \in l + 2 .. l + m + 1 => i \in l + 1 .. l + m + 1  BY <1>1
  <2> QED  BY <2>1, <2>2, <2>3, <2>4, <2>5, <2>6
<1>5. r[1].kind \in {"head", "dict"}
  <2>1. CASE l = 0  BY <1>1, <2>1
  <2>2. CASE l # 0
    <3>1. 1 \in 1 .. l /\ l > 0  BY <1>1, <2>2
    <3> QED  BY <1>1, <1>2, <3>1
  <2> QED  BY <2>1, <2>2
<1>6. MemberOrder(r)  BY <1>3, <1>4, <1>5 DEF MemberOrder
<1>7. Complete(r)  BY <1>1 DEF Complete
<1> QED  BY <1>6, <1>7

LEMMA ChunkKeepsOrder ==
  ASSUME NEW s \in Seq(Cells), ChunkOrder(s), Complete(s), NEW r, NEW m \in Nat,
         NEW first, NEW last, Appended(r, s, first, m, last),
         first.kind = "size", first.n = m, last.kind = "crlf"
  PROVE  ChunkOrder(r) /\ Complete(r)
<1> DEFINE l == Len(s)
<1>1. /\ l \in Nat /\ Len(r) = l + m + 2
      /\ \A i \in 1 .. l : r[i] = s[i]
      /\ r[l + 1] = first /\ r[l + m + 2] = last
      /\ \A i \in l + 2 .. l + m + 1 : r[i].kind = "data"
  BY DEF Appended
<1>0. \A i \in 1 .. l : s[i].n \in Nat
  <2> SUFFICES ASSUME NEW i \in 1 .. Len(s) PROVE s[i].n \in Nat  OBVIOUS
  <2>1. s[i] \in Cells  OBVIOUS
  <2> QED  BY <2>1 DEF Cells
<1>2. /\ \A i \in 1 .. l : s[i].kind \in {"size", "data", "crlf"}
      /\ \A i \in 1 .. l : s[i].kind = "size" =>
           /\ \A j \in 1 .. s[i].n : i + j <= l => s[i + j].kind = "data"
           /\ i + s[i].n + 1 <= l => s[i + s[i].n + 1].kind = "crlf"
      /\ \A i \in 1 .. l - 1 : s[i].kind = "crlf" => s[i + 1].kind = "size"
      /\ l > 0 => s[1].kind = "size" /\ s[l].kind \in {"tail", "dict", "crlf"}
  BY DEF ChunkOrder, Complete
<1> HIDE DEF l
<1>3. ASSUME NEW i \in 1 .. Len(r)
      PROVE  r[i].kind \in {"size", "data", "crlf"}
  <2>1. i \in 1 .. l \/ i = l + 1 \/ i \in l + 2 .. l + m + 1 \/ i = l + m + 2  BY <1>1
  <2> QED  BY <1>1, <1>2, <2>1
<1>4. ASSUME NEW i \in 1 .. l, s[i].kind = "size"
      PROVE  i + s[i].n + 1 <= l
  <2> DEFINE n == s[i].n
  <2>1. n \in Nat  BY <1>0
  <2>2. ASSUME i + n + 1 > l PROVE FALSE
    <3>1. s[l].kind = "crlf"
      <4>1. l > 0 /\ l \in 1 .. l  BY <1>1
      <4> QED  BY <1>2, <4>1
    <3>2. l # i  BY <1>4, <3>1
    <3>3. l - i \in 1 .. n /\ i + (l - i) = l  BY <1>1, <2>1, <2>2, <3>2
    <3>4. i + (l - i) <= l => s[i + (l - i)].kind = "data"  BY <1>2, <1>4, <3>3
    <3> QED  BY <1>1, <3>1, <3>3, <3>4
  <2> QED  BY <1>1, <2>1, <2>2
<1>5. ASSUME NEW i \in 1 .. Len(r), r[i].kind = "size"
      PROVE  /\ \A j \in 1 .. r[i].n : i + j <= Len(r) => r[i + j].kind = "data"
             /\ i + r[i].n + 1 <= Len(r) => r[i + r[i].n + 1].kind = "crlf"
  <2>1. CASE i \in 1 .. l
    <3>1. r[i] = s[i] /\ s[i].kind = "size" /\ i + s[i].n + 1 <= l /\ s[i].n \in Nat
      BY <1>0, <1>1, <1>4, <1>5, <2>1
    <3>2. ASSUME NEW j \in 1 .. s[i].n PROVE r[i + j].kind = "data"
      <4>1. i + j \in 1 .. l  BY <1>1, <2>1, <3>1
      <4>2. s[i + j].kind = "data"  BY <1>2, <2>1, <3>1, <4>1
      <4> QED  BY <1>1, <4>1, <4>2
    <3>3. r[i + s[i].n + 1].kind = "crlf"
      <4>1. i + s[i].n + 1 \in 1 .. l  BY <1>1, <2>1, <3>1
      <4>2. s[i + s[i].n + 1].kind = "crlf"  BY <1>2, <2>1, <3>1
      <4> QED  BY <1>1, <4>1, <4>2
    <3> QED  BY <3>1, <3>2, <3>3
  <2>2. CASE i = l + 1
    <3>1. r[i].n = m  BY <1>1, <2>2
    <3>2. ASSUME NEW j \in 1 .. m PROVE r[i + j].kind = "data"
      <4>1. i + j \in l + 2 .. l + m + 1  BY <1>1, <2>2
      <4> QED  BY <1>1, <4>1
    <3>3. i + m + 1 = l + m + 2  BY <1>1, <2>2
    <3> QED  BY <1>1, <3>1, <3>2, <3>3
  <2>3. CASE i \in l + 2 .. l + m + 1 \/ i = l + m + 2
    BY <1>1, <1>5, <2>3
  <2>4. i \in 1 .. l \/ i = l + 1 \/ i \in l + 2 .. l + m + 1 \/ i = l + m + 2  BY <1>1
  <2> QED  BY <2>1, <2>2, <2>3, <2>4
<1>6. ASSUME NEW i \in 1 .. Len(r) - 1, r[i].kind = "crlf"
      PROVE  r[i + 1].kind = "size"
  <2>1. CASE i \in 1 .. l - 1
    <3>1. i \in 1 .. l /\ i + 1 \in 1 .. l  BY <1>1, <2>1
    <3> QED  BY <1>1, <1>2, <1>6, <2>1, <3>1
  <2>2. CASE i = l
    BY <1>1, <2>2
  <2>3. CASE i = l + 1 \/ i \in l + 2 .. l + m + 1
    BY <1>1, <1>6, <2>3
  <2>4. i \in 1 .. l - 1 \/ i = l \/ i = l + 1 \/ i \in l + 2 .. l + m + 1  BY <1>1
  <2> QED  BY <2>1, <2>2, <2>3, <2>4
<1>7. r[1].kind = "size"
  <2>1. CASE l = 0  BY <1>1, <2>1
  <2>2. CASE l # 0
    <3>1. 1 \in 1 .. l /\ l > 0  BY <1>1, <2>2
    <3> QED  BY <1>1, <1>2, <3>1
  <2> QED  BY <2>1, <2>2
<1>8. ChunkOrder(r)  BY <1>3, <1>5, <1>6, <1>7 DEF ChunkOrder
<1>9. Complete(r)  BY <1>1 DEF Complete
<1> QED  BY <1>8, <1>9

(* What a member, or a chunk, adds.                                         *)
LEMMA MemberGrows ==
  ASSUME NEW s \in Seq(Cells), codec # "chunked", Order(s), Complete(s), NEW c \in Nat, NEW m \in Nat
  PROVE  Grown(s \o Member(UnitsFrom(c, m)), s)
<1> DEFINE h == IF dict THEN 1 ELSE 0
           first == ACell("head", h)
           last == ACell("tail", 0)
           r == s \o Member(UnitsFrom(c, m))
<1>1. h \in Nat  OBVIOUS
<1> HIDE DEF h
<1>2. /\ first \in Cells /\ last \in Cells /\ first.kind = "head" /\ first.n = h
      /\ last.kind = "tail"
  BY <1>1, CellsAre DEF Kinds
<1>3. Member(UnitsFrom(c, m)) = Piece(first, c, m, last)  BY DEF Member, Piece, h
<1> HIDE DEF first, last
<1>4. Appended(r, s, first, m, last)  BY <1>2, <1>3, PieceAppended
<1> HIDE DEF r
<1>5. MemberOrder(s)  BY DEF Order
<1>6. MemberOrder(r) /\ Complete(r)  BY <1>2, <1>4, <1>5, MemberKeepsOrder
<1>7. /\ r \in Seq(Cells) /\ Len(s) \in Nat /\ Len(r) = Len(s) + m + 2
      /\ \A i \in 1 .. Len(s) : r[i] = s[i]
      /\ r[Len(s) + 1] = first /\ r[Len(s) + m + 2] = last
      /\ \A i \in Len(s) + 2 .. Len(s) + m + 1 : r[i].kind = "data"
  BY <1>4 DEF Appended
<1>8. ASSUME NEW i \in Len(s) + 1 .. Len(r)
      PROVE  /\ r[i].kind # "dict"
             /\ r[i].kind = "head" => r[i].n = h
             /\ r[i].kind = "tail" => i = Len(r)
  <2>1. i = Len(s) + 1 \/ i \in Len(s) + 2 .. Len(s) + m + 1 \/ i = Len(s) + m + 2  BY <1>7
  <2>2. CASE i = Len(s) + 1  BY <1>2, <1>7, <2>2
  <2>3. CASE i \in Len(s) + 2 .. Len(s) + m + 1  BY <1>7, <2>3
  <2>4. CASE i = Len(s) + m + 2  BY <1>2, <1>7, <2>4
  <2> QED  BY <2>1, <2>2, <2>3, <2>4
<1>9. Len(r) > Len(s) /\ r[Len(r)].kind = "tail"  BY <1>2, <1>7
<1>10. Grown(r, s)  BY <1>6, <1>7, <1>8, <1>9 DEF Grown, Order, h
<1> QED  BY <1>10 DEF r

LEMMA ChunkGrows ==
  ASSUME NEW s \in Seq(Cells), codec = "chunked", Order(s), Complete(s), NEW c \in Nat, NEW m \in Nat
  PROVE  Grown(s \o Chunk(UnitsFrom(c, m)), s)
<1> DEFINE first == ACell("size", m)
           last == ACell("crlf", 0)
           r == s \o Chunk(UnitsFrom(c, m))
<1>2. /\ first \in Cells /\ last \in Cells /\ first.kind = "size" /\ first.n = m
      /\ last.kind = "crlf"
  BY CellsAre DEF Kinds
<1>3. Chunk(UnitsFrom(c, m)) = Piece(first, c, m, last)  BY DEF Chunk, UnitsFrom, Piece
<1> HIDE DEF first, last
<1>4. Appended(r, s, first, m, last)  BY <1>2, <1>3, PieceAppended
<1> HIDE DEF r
<1>5. ChunkOrder(s)  BY DEF Order
<1>6. ChunkOrder(r) /\ Complete(r)  BY <1>2, <1>4, <1>5, ChunkKeepsOrder
<1>7. /\ r \in Seq(Cells) /\ Len(s) \in Nat /\ Len(r) = Len(s) + m + 2
      /\ \A i \in 1 .. Len(s) : r[i] = s[i]
  BY <1>4 DEF Appended
<1>8. \A i \in Len(s) + 1 .. Len(r) : r[i].kind \notin {"dict", "head", "tail"}
  <2>1. \A i \in Len(s) + 1 .. Len(r) : i \in 1 .. Len(r)  BY <1>7
  <2> QED  BY <1>6, <2>1 DEF ChunkOrder
<1>9. Len(r) > Len(s)  BY <1>7
<1>10. Grown(r, s)  BY <1>6, <1>7, <1>8, <1>9 DEF Grown, Order
<1> QED  BY <1>10 DEF r

LEMMA GrowsAgain ==
  ASSUME NEW q, NEW r, NEW s, Len(s) \in Nat, Len(r) \in Nat, codec = "chunked", Grown(r, s), Grown(q, r)
  PROVE  Grown(q, s)
<1>1. /\ q \in Seq(Cells) /\ Len(q) \in Nat /\ Len(q) > Len(r) /\ Len(r) > Len(s)
      /\ ChunkOrder(q) /\ Complete(q)
  BY DEF Grown, Order
<1>2. \A i \in 1 .. Len(s) : q[i] = s[i]
  <2>1. \A i \in 1 .. Len(s) : i \in 1 .. Len(r)  BY <1>1
  <2> QED  BY <2>1 DEF Grown
<1>3. \A i \in Len(s) + 1 .. Len(q) : q[i].kind \notin {"dict", "head", "tail"}
  <2>1. \A i \in Len(s) + 1 .. Len(q) : i \in 1 .. Len(q)  BY <1>1
  <2> QED  BY <1>1, <2>1 DEF ChunkOrder
<1>4. Len(q) > Len(s)  BY <1>1
<1> QED  BY <1>1, <1>2, <1>3, <1>4 DEF Grown, Order

LEMMA EndingGrows ==
  ASSUME WriterInv, OrderInv, ~closed
  PROVE  Grown(tape \o Ending, tape)
<1> DEFINE m == Len(encoder)
           c == AllUnits
<1>1. /\ m \in Nat /\ c \in Nat /\ tape \in Seq(Cells) /\ encoder = UnitsFrom(c, m)
      /\ Order(tape) /\ Complete(tape)
  BY UnitsFinite, AllUnitsIs DEF WriterInv, OrderInv, TapeInv
<1> HIDE DEF m, c
<1>2. CASE codec # "chunked"
  <2>1. Grown(tape \o Member(UnitsFrom(c, m)), tape)  BY <1>1, <1>2, MemberGrows
  <2> QED  BY <1>1, <1>2, <2>1 DEF Ending
<1>3. CASE codec = "chunked"
  <2> DEFINE x == Chunk(UnitsFrom(c, m))
             s == tape \o x
             y == Chunk(UnitsFrom(0, 0))
  <2>1. Grown(s, tape)  BY <1>1, <1>3, ChunkGrows
  <2>2. s \in Seq(Cells) /\ Order(s) /\ Complete(s)  BY <2>1 DEF Grown
  <2>3. x \in Seq(Cells) /\ y \in Seq(Cells)  BY <1>1, ChunkCells DEF IsPiece
  <2> HIDE DEF x, y
  <2>4. Grown(s \o y, s)
    <3> HIDE DEF s
    <3> QED  BY <1>3, <2>2, ChunkGrows DEF y
  <2>5. Len(tape) \in Nat /\ Len(s) \in Nat  BY <1>1, <2>2
  <2>6. Grown(s \o y, tape)  BY <1>3, <2>1, <2>4, <2>5, GrowsAgain
  <2>7. s \o y = tape \o (x \o y)  BY <1>1, <2>3, ConcatAssociative
  <2>8. Ending = x \o y
    <3>1. LastChunk = y  BY NoUnits DEF LastChunk, y
    <3> QED  BY <1>1, <1>3, <3>1 DEF Ending, x
  <2> QED  BY <2>6, <2>7, <2>8
<1> QED  BY <1>2, <1>3

LEMMA OrderOfPrefix ==
  ASSUME NEW s \in Seq(Cells), Order(s), NEW l \in 0 .. Len(s)
  PROVE  Order(SubSeq(s, 1, l))
<1> DEFINE r == SubSeq(s, 1, l)
<1>1. Len(r) = l /\ l \in Nat /\ l <= Len(s) /\ Len(s) \in Nat /\ \A i \in 1 .. l : r[i] = s[i]  OBVIOUS
<1> HIDE DEF r
<1>2. CASE codec = "chunked"
  <2>1. ChunkOrder(s)  BY <1>2 DEF Order
  <2>2. \A i \in 1 .. l : i \in 1 .. Len(s)  BY <1>1
  <2>3. \A i \in 1 .. l : r[i].kind \in {"size", "data", "crlf"}  BY <1>1, <2>1, <2>2 DEF ChunkOrder
  <2>4. ASSUME NEW i \in 1 .. l, r[i].kind = "size"
        PROVE  /\ \A j \in 1 .. r[i].n : i + j <= l => r[i + j].kind = "data"
               /\ i + r[i].n + 1 <= l => r[i + r[i].n + 1].kind = "crlf"
    <3>1. r[i] = s[i] /\ s[i].n \in Nat
      <4>1. s[i] \in Cells  BY <2>2
      <4> QED  BY <1>1, <4>1 DEF Cells
    <3> DEFINE n == s[i].n
    <3>2. /\ \A j \in 1 .. n : i + j <= Len(s) => s[i + j].kind = "data"
          /\ i + n + 1 <= Len(s) => s[i + n + 1].kind = "crlf"
      BY <2>1, <2>2, <2>4, <3>1 DEF ChunkOrder
    <3>3. n \in Nat /\ r[i].n = n  BY <3>1
    <3> HIDE DEF n
    <3>4. ASSUME NEW j \in 1 .. n, i + j <= l PROVE r[i + j].kind = "data"
      <4>1. i + j \in 1 .. l /\ i + j <= Len(s)  BY <1>1, <3>3, <3>4
      <4> QED  BY <1>1, <3>2, <4>1
    <3>5. ASSUME i + n + 1 <= l PROVE r[i + n + 1].kind = "crlf"
      <4>1. i + n + 1 \in 1 .. l /\ i + n + 1 <= Len(s)  BY <1>1, <3>3, <3>5
      <4> QED  BY <1>1, <3>2, <4>1
    <3> QED  BY <3>3, <3>4, <3>5
  <2>5. ASSUME NEW i \in 1 .. l - 1, r[i].kind = "crlf" PROVE r[i + 1].kind = "size"
    <3>1. i \in 1 .. l /\ i + 1 \in 1 .. l /\ i \in 1 .. Len(s) - 1  BY <1>1
    <3> QED  BY <1>1, <2>1, <2>5, <3>1 DEF ChunkOrder
  <2>6. l > 0 => r[1].kind = "size"
    <3>1. l > 0 => 1 \in 1 .. l /\ Len(s) > 0  BY <1>1
    <3> QED  BY <1>1, <2>1, <3>1 DEF ChunkOrder
  <2>7. \A i \in 1 .. Len(r) : r[i].kind = "size" =>
          /\ \A j \in 1 .. r[i].n : i + j <= Len(r) => r[i + j].kind = "data"
          /\ i + r[i].n + 1 <= Len(r) => r[i + r[i].n + 1].kind = "crlf"
    BY <1>1, <2>4
  <2>8. ChunkOrder(r)  BY <1>1, <2>3, <2>5, <2>6, <2>7 DEF ChunkOrder
  <2> QED  BY <1>2, <2>8 DEF Order, r
<1>3. CASE codec # "chunked"
  <2>1. MemberOrder(s)  BY <1>3 DEF Order
  <2>2. \A i \in 1 .. l : i \in 1 .. Len(s)  BY <1>1
  <2>3. \A i \in 1 .. l : r[i].kind \in {"head", "data", "tail", "dict"}
    BY <1>1, <2>1, <2>2 DEF MemberOrder
  <2>4. ASSUME NEW i \in 1 .. l - 1
        PROVE  IF r[i].kind \in {"head", "data"} THEN r[i + 1].kind \in {"data", "tail"}
                                                 ELSE r[i + 1].kind = "head"
    <3>1. i \in 1 .. l /\ i + 1 \in 1 .. l /\ i \in 1 .. Len(s) - 1  BY <1>1
    <3>2. IF s[i].kind \in {"head", "data"} THEN s[i + 1].kind \in {"data", "tail"}
                                            ELSE s[i + 1].kind = "head"
      BY <2>1, <3>1 DEF MemberOrder
    <3>3. r[i] = s[i] /\ r[i + 1] = s[i + 1]  BY <1>1, <3>1
    <3> QED  BY <3>2, <3>3
  <2>5. l > 0 => r[1].kind \in {"head", "dict"}
    <3>1. l > 0 => 1 \in 1 .. l /\ Len(s) > 0  BY <1>1
    <3> QED  BY <1>1, <2>1, <3>1 DEF MemberOrder
  <2> QED  BY <1>1, <1>3, <2>3, <2>4, <2>5 DEF Order, MemberOrder, r
<1> QED  BY <1>2, <1>3

LEMMA GrownKeeps ==
  ASSUME WriterInv, OrderInv, ~closed, Grown(tape', tape), codec' = codec, dict' = dict, dictDone' = dictDone,
         closed' \/ (codec # "brotli" /\ (dict => dictDone))
  PROVE  OrderInv'
<1>0. tape \in Seq(Cells) /\ Len(tape) \in Nat  BY DEF WriterInv
<1>1. /\ tape' \in Seq(Cells) /\ Len(tape') \in Nat /\ Len(tape') > Len(tape)
      /\ Order(tape') /\ Complete(tape')
      /\ codec # "chunked" => tape'[Len(tape')].kind = "tail"
      /\ \A i \in 1 .. Len(tape) : tape'[i] = tape[i]
      /\ \A i \in Len(tape) + 1 .. Len(tape') :
           /\ tape'[i].kind # "dict"
           /\ tape'[i].kind = "head" => tape'[i].n = IF dict THEN 1 ELSE 0
           /\ tape'[i].kind = "tail" => i = Len(tape')
  BY DEF Grown
<1>2. \A i \in 1 .. Len(tape') : i \in 1 .. Len(tape) \/ i \in Len(tape) + 1 .. Len(tape')
  BY <1>0, <1>1
<1>3. TapeInv'
  <2>1. Order(tape)'  BY <1>1 DEF Order
  <2> QED  BY <1>1, <2>1 DEF TapeInv
<1>4. DictInv'
  <2>1. \A i \in 1 .. Len(tape') : /\ tape'[i].kind = "head" => tape'[i].n = IF dict THEN 1 ELSE 0
                                   /\ tape'[i].kind = "dict" => dict
    BY <1>1, <1>2 DEF OrderInv, DictInv
  <2>2. dict /\ dictDone => Len(tape') > 0 /\ tape'[1].kind = "dict"
    <3>1. dict /\ dictDone => Len(tape) > 0 /\ tape[1].kind = "dict"  BY DEF OrderInv, DictInv
    <3>2. Len(tape) > 0 => 1 \in 1 .. Len(tape)  BY <1>0
    <3> QED  BY <1>0, <1>1, <3>1, <3>2
  <2> QED  BY <2>1, <2>2 DEF OrderInv, DictInv
<1>5. LoneInv'
  <2>1. codec = "brotli" => \A i \in 1 .. Len(tape') : tape'[i].kind = "tail" => i = Len(tape')
    <3>1. codec = "brotli" => Len(tape) = 0  BY NoUnits DEF OrderInv, LoneInv
    <3> QED  BY <1>0, <1>1, <1>2, <3>1
  <2>2. Len(tape') > 0  BY <1>0, <1>1
  <2>3. codec \in {"zstd", "brotli"} => codec # "chunked"  OBVIOUS
  <2> QED  BY <1>1, <2>1, <2>2, <2>3 DEF OrderInv, LoneInv
<1> QED  BY <1>3, <1>4, <1>5 DEF OrderInv

(* Nothing, or the dictionary frame, is written.                            *)
LEMMA EncodeKeeps ==
  ASSUME WriterInv, OrderInv, ~closed, codec' = codec, dict' = dict, closed' = closed,
         whole' = whole, codec # "chunked", DictFrame
  PROVE  OrderInv'
<1>0. tape \in Seq(Cells) /\ Len(tape) \in Nat /\ ~whole  BY DEF WriterInv
<1>1. CASE dict /\ ~dictDone
  <2>1. tape = << >> /\ dictDone' = TRUE /\ tape' = tape \o <<ACell("dict", 0)>> /\ codec = "zstd"
    BY <1>1 DEF OrderInv, DictInv, DictFrame
  <2>2. Len(tape') = 1 /\ tape'[1] = ACell("dict", 0)  BY <2>1
  <2>3. tape'[1].kind = "dict" /\ \A i \in 1 .. Len(tape') : i = 1  BY <2>2, CellsAre
  <2>4. Order(tape)' /\ Complete(tape)'
    <3>1. MemberOrder(tape')  BY <2>2, <2>3 DEF MemberOrder
    <3> QED  BY <2>1, <2>2, <2>3, <3>1 DEF Order, Complete
  <2>5. TapeInv'  BY <2>4 DEF TapeInv
  <2>6. DictInv'  BY <1>1, <2>1, <2>2, <2>3 DEF DictInv
  <2>7. LoneInv'  BY <1>0, <2>1 DEF LoneInv
  <2> QED  BY <2>5, <2>6, <2>7 DEF OrderInv
<1>2. CASE ~ (dict /\ ~dictDone)
  <2>1. dictDone' = dictDone /\ tape' = tape  BY <1>2 DEF DictFrame
  <2>2. Order(tape)' <=> Order(tape)  BY <2>1 DEF Order
  <2>3. TapeInv'  BY <2>1, <2>2 DEF OrderInv, TapeInv
  <2>4. DictInv'  BY <1>2, <2>1 DEF OrderInv, DictInv
  <2>5. LoneInv'  BY <2>1 DEF OrderInv, LoneInv
  <2> QED  BY <2>3, <2>4, <2>5 DEF OrderInv
<1> QED  BY <1>1, <1>2

LEMMA SameTapeKeeps ==
  ASSUME OrderInv, UNCHANGED <<tape, codec, dict, dictDone, closed, whole>>,
         started' = started \/ ~dict
  PROVE  OrderInv'
<1>1. Order(tape)' <=> Order(tape)  BY DEF Order
<1>2. TapeInv'  BY <1>1 DEF OrderInv, TapeInv
<1>3. DictInv'  BY DEF OrderInv, DictInv
<1>4. LoneInv'  BY DEF OrderInv, LoneInv
<1> QED  BY <1>2, <1>3, <1>4 DEF OrderInv

LEMMA OrderStep ==
  ASSUME WriterInv, OrderInv, WriterNext
  PROVE  OrderInv'
<1>0. /\ tape \in Seq(Cells) /\ Order(tape) /\ (Complete(tape) \/ closed)
      /\ AllUnits \in Nat /\ Len(encoder) \in Nat
      /\ dict => codec = "zstd"
  BY UnitsFinite, AllUnitsIs DEF WriterInv, OrderInv, TapeInv, DictInv
<1>1. ASSUME NEW n \in 0 .. MaxWrite, Write(n) PROVE OrderInv'
  <2>1. ~closed /\ UNCHANGED <<codec, dict, closed, whole>>  BY <1>1 DEF Write
  <2>2. CASE codec # "chunked"
    <3>1. DictFrame  BY <1>1, <2>2 DEF Write, Encode
    <3> QED  BY <2>1, <2>2, <3>1, EncodeKeeps
  <2>3. CASE codec = "chunked"
    <3> DEFINE units == encoder \o NextUnits(n)
    <3>0. n \in Nat  BY WriterAssumption
    <3>1. n \in Nat /\ units = UnitsFrom(AllUnits, Len(encoder) + n)
      BY <2>1, <3>0, EncoderGoesOn
    <3>2. dictDone' = dictDone /\ (tape' = tape \/ tape' = tape \o Chunk(units))
      BY <1>1, <2>3 DEF Write, Buffer
    <3> HIDE DEF units
    <3>3. CASE tape' = tape
      BY <1>0, <2>1, <2>3, <3>2, <3>3, SameTapeKeeps
    <3>4. CASE tape' = tape \o Chunk(units)
      <4>1. Len(encoder) + n \in Nat  BY <1>0, <3>1
      <4>2. Grown(tape', tape)  BY <1>0, <2>1, <2>3, <3>1, <3>4, <4>1, ChunkGrows
      <4> QED  BY <1>0, <2>1, <2>3, <3>2, <4>2, GrownKeeps
    <3> QED  BY <3>2, <3>3, <3>4
  <2> QED  BY <2>2, <2>3
<1>2. ASSUME NEW n \in 0 .. MaxWrite, WriteAndEnd(n) PROVE OrderInv'
  <2>1. /\ ~closed /\ UNCHANGED <<codec, dict, dictDone, closed, whole>> /\ codec = "gzip"
        /\ tape' = tape \o Member(encoder \o NextUnits(n))
    BY <1>2 DEF WriteAndEnd
  <2>0. n \in Nat  BY WriterAssumption
  <2>2. n \in Nat /\ encoder \o NextUnits(n) = UnitsFrom(AllUnits, Len(encoder) + n)
    BY <2>0, <2>1, EncoderGoesOn
  <2>3. Len(encoder) + n \in Nat  BY <1>0, <2>2
  <2>4. Grown(tape', tape)  BY <1>0, <2>1, <2>2, <2>3, MemberGrows
  <2> QED  BY <1>0, <2>1, <2>4, GrownKeeps
<1>3. ASSUME Finish PROVE OrderInv'
  <2>1. /\ ~closed /\ UNCHANGED <<codec, dict, dictDone, closed, whole>> /\ codec # "brotli"
        /\ tape' = tape \o Ending /\ started
    BY <1>3 DEF Finish
  <2>2. Grown(tape', tape)  BY <2>1, EndingGrows
  <2>3. dict => dictDone  BY <2>1 DEF OrderInv, DictInv
  <2> QED  BY <2>1, <2>2, <2>3, GrownKeeps
<1>4. ASSUME IntoInner PROVE OrderInv'
  <2>1. ~closed /\ UNCHANGED <<codec, dict, dictDone>> /\ closed' = TRUE /\ whole' = TRUE
    BY <1>4 DEF IntoInner
  <2>2. CASE started \/ codec \in {"zstd", "brotli"}
    <3>1. Grown(tape', tape)  BY <1>4, <2>1, <2>2, EndingGrows DEF IntoInner
    <3> QED  BY <2>1, <3>1, GrownKeeps
  <2>3. CASE ~ (started \/ codec \in {"zstd", "brotli"})
    <3>1. tape' = tape  BY <1>4, <2>3 DEF IntoInner
    <3>2. Order(tape)' <=> Order(tape)  BY <2>1, <3>1 DEF Order
    <3>3. TapeInv'  BY <2>1, <3>1, <3>2 DEF OrderInv, TapeInv
    <3>4. DictInv'  BY <2>1, <2>3, <3>1 DEF OrderInv, DictInv
    <3>5. LoneInv'  BY <2>1, <2>3, <3>1 DEF OrderInv, LoneInv
    <3> QED  BY <3>3, <3>4, <3>5 DEF OrderInv
  <2> QED  BY <2>2, <2>3
<1>5. ASSUME NEW length \in Nat, Cut(length) PROVE OrderInv'
  <2> DEFINE s == tape \o Ending
  <2>1. /\ ~closed /\ UNCHANGED <<codec, dict, dictDone, whole>> /\ closed' = TRUE
        /\ length <= Len(s) /\ tape' = SubSeq(s, 1, length)
    BY <1>5 DEF Cut
  <2>2. ~whole  BY <2>1 DEF WriterInv
  <2>3. Grown(s, tape)  BY <2>1, EndingGrows
  <2>4. s \in Seq(Cells) /\ Len(s) \in Nat /\ Order(s)  BY <2>3 DEF Grown
  <2>5. \A i \in 1 .. Len(s) : /\ s[i].kind = "head" => s[i].n = IF dict THEN 1 ELSE 0
                               /\ s[i].kind = "dict" => dict
                               /\ codec = "brotli" /\ s[i].kind = "tail" => i = Len(s)
    <3>1. \A i \in 1 .. Len(s) : i \in 1 .. Len(tape) \/ i \in Len(tape) + 1 .. Len(s)
      <4>1. Len(tape) \in Nat  BY DEF WriterInv
      <4> QED  BY <2>4, <4>1
    <3>2. \A i \in 1 .. Len(tape) : /\ s[i] = tape[i]
                                    /\ tape[i].kind = "head" => tape[i].n = IF dict THEN 1 ELSE 0
                                    /\ tape[i].kind = "dict" => dict
      BY <2>3 DEF Grown, OrderInv, DictInv
    <3>3. codec = "brotli" => \A i \in 1 .. Len(tape) : FALSE
      <4>1. codec = "brotli" => Len(tape) = 0  BY <2>1, NoUnits DEF OrderInv, LoneInv
      <4> QED  BY <4>1
    <3>4. \A i \in Len(tape) + 1 .. Len(s) :
            /\ s[i].kind # "dict"
            /\ s[i].kind = "head" => s[i].n = IF dict THEN 1 ELSE 0
            /\ s[i].kind = "tail" => i = Len(s)
      BY <2>3 DEF Grown
    <3> QED  BY <3>1, <3>2, <3>3, <3>4
  <2> HIDE DEF s
  <2>6. length \in 0 .. Len(s)  BY <2>1, <2>4
  <2>7. Len(tape') = length /\ \A i \in 1 .. Len(tape') : tape'[i] = s[i] /\ i \in 1 .. Len(s)
    BY <2>1, <2>4, <2>6
  <2>8. TapeInv'
    <3>1. Order(tape')  BY <2>1, <2>4, <2>6, OrderOfPrefix
    <3>2. Order(tape)'  BY <2>1, <3>1 DEF Order
    <3> QED  BY <2>1, <2>2, <3>2 DEF TapeInv
  <2>9. DictInv'  BY <2>1, <2>2, <2>5, <2>7 DEF OrderInv, DictInv
  <2>10. LoneInv'
    <3>1. codec = "brotli" => \A i \in 1 .. Len(tape') : tape'[i].kind = "tail" => i = Len(tape')
      <4> SUFFICES ASSUME codec = "brotli", NEW i \in 1 .. Len(tape'), tape'[i].kind = "tail"
                   PROVE  i = Len(tape')
        OBVIOUS
      <4>1. i = Len(s)  BY <2>5, <2>7
      <4> QED  BY <2>4, <2>6, <2>7, <4>1
    <3> QED  BY <2>1, <2>2, <3>1 DEF LoneInv
  <2> QED  BY <2>8, <2>9, <2>10 DEF OrderInv
<1>6. MaxTape + MaxUnits + 4 \in Nat  BY TapeAssumption
<1> QED  BY <1>1, <1>2, <1>3, <1>4, <1>5, <1>6 DEF WriterNext

LEMMA OrderStarts == Init => OrderInv
<1> SUFFICES ASSUME Init PROVE OrderInv  OBVIOUS
<1>1. tape = << >> /\ ~started /\ ~dictDone /\ ~closed /\ ~whole
  BY DEF Init, WriterInit
<1>6. dict => codec = "zstd"  BY DEF Init, WriterInit
<1>0. /\ ~ (Len(tape) > 0)
      /\ \A i \in 1 .. Len(tape) : FALSE
      /\ \A i \in 1 .. Len(tape) - 1 : FALSE
  <2>1. Len(tape) = 0  BY <1>1, NoUnits
  <2> QED  BY <2>1
<1>2. MemberOrder(tape) /\ ChunkOrder(tape) /\ Complete(tape)
  BY <1>0 DEF MemberOrder, ChunkOrder, Complete
<1>3. TapeInv  BY <1>1, <1>2 DEF TapeInv, Order
<1>4. DictInv
  <2>1. \A i \in 1 .. Len(tape) : /\ tape[i].kind = "head" => tape[i].n = IF dict THEN 1 ELSE 0
                                  /\ tape[i].kind = "dict" => dict
    BY <1>0
  <2> QED  BY <1>1, <1>6, <2>1 DEF DictInv
<1>5. LoneInv  BY <1>0, <1>1 DEF LoneInv
<1> QED  BY <1>3, <1>4, <1>5 DEF OrderInv

-----------------------------------------------------------------------------
(***************************************************************************)
(* Where a reader stands.                                                  *)
(***************************************************************************)

(* A position behind which a decoder is inside of a member.                  *)
InMember(p) == p > 0 /\ tape[p].kind \in {"head", "data"}
(* The chunk that the reader is in begins where its counters say.            *)
OfChunk ==
  pos - chunkRead \in 1 .. Len(tape) /\ tape[pos - chunkRead] = ACell("size", chunkSize)

(* A decoder is inside of a member exactly if its position is.               *)
StageInv ==
  /\ pos \in 0 .. Len(tape) /\ pos + avail <= Len(tape)
  /\ codec # "chunked" =>
       /\ stage \in {"fresh", "inside", "over"}
       /\ stage = "inside" <=> InMember(pos)
       /\ stage = "over" => codec \in {"zstd", "brotli"} /\ pos > 0
       /\ call \in {"idle", "begin", "decode"}
       /\ call = "begin" => codec \in {"zstd", "lz4"}

(* A chunked reader is where it takes itself to be.                          *)
ChunkInv ==
  codec = "chunked" =>
    /\ call = "close" => chunkRead = chunkSize /\ OfChunk /\ (chunkSize = 0 => bufPos = Len(buf))
    /\ call # "close" /\ ~(call = "idle" /\ result = "error") =>
         IF chunkSize = 0 THEN chunkRead = 0 /\ (pos > 0 => tape[pos].kind = "crlf")
         ELSE chunkRead < chunkSize /\ OfChunk
    /\ buf = << >> => chunkRead = 0

(* A tape that is whole: nothing failed, a fresh decoder has a frame before   *)
(* it, and a reader that has no dictionary yet is going to load it.          *)
SoundInv ==
  whole /\ (dict => dictDone) =>
    /\ result # "error"
    /\ codec \in {"zstd", "brotli"} /\ stage = "fresh" => pos < Len(tape)
    /\ dict /\ ~dictLoaded =>
         pos = 0 /\ streamPos = 0 /\ frameStart = 0 /\ call \in {"idle", "begin"}

(* fill_buf() leaves sync_next_frame() outside of a frame, or at the start    *)
(* of one; and so does a frame of which nothing was read.                    *)
Lz4Inv ==
  codec = "lz4" =>
    /\ call = "decode" => stage = "fresh" \/ tape[pos].kind = "head"
    /\ call = "idle" /\ result # "error" /\ streamPos = 0 /\ bufPos = Len(buf) => stage = "fresh"

(* What the readers have before them when they return nothing.               *)
EndInv ==
  result = "end" /\ call = "idle" =>
    /\ bufPos = Len(buf)
    /\ codec = "gzip" => pos = Len(tape) \/ Ends(pos)
    /\ codec \in {"zstd", "brotli"} => pos = Len(tape) /\ Ends(pos)
    /\ codec = "lz4" => (pos > 0 => Ends(pos)) /\ (pos = Len(tape) \/ EmptyMember)
    /\ codec = "chunked" => pos = Len(tape) \/ Begins(pos)

(* Nothing is read before the tape is written.                               *)
Unmoved ==
  /\ pos = 0 /\ avail = 0 /\ stage = "fresh" /\ buf = << >> /\ bufPos = 0
  /\ streamPos = 0 /\ frameStart = 0 /\ chunkSize = 0 /\ chunkRead = 0
  /\ call = "idle" /\ result = "none"

PlaceInv ==
  /\ outSize \in Nat /\ outSize > 0
  /\ IF closed THEN StageInv /\ ChunkInv /\ SoundInv /\ Lz4Inv /\ EndInv ELSE Unmoved

(* The setting of every step of a reader.                                    *)
Reads ==
  /\ WriterInv /\ OrderInv /\ ReaderInv /\ PlaceInv /\ closed
  /\ UNCHANGED <<codec, dict, tape, writerVars>>

LEMMA Setting ==
  ASSUME Reads
  PROVE  /\ Len(tape) \in Nat /\ \A i \in 1 .. Len(tape) : tape[i] \in Cells
         /\ ReaderTypes /\ InCall /\ outSize \in Nat /\ outSize > 0
         /\ Order(tape) /\ DictInv /\ LoneInv /\ (whole => Complete(tape))
         /\ StageInv /\ ChunkInv /\ SoundInv /\ Lz4Inv /\ EndInv
         /\ UNCHANGED <<codec, dict, tape, dictDone, closed, whole>> /\ closed
<1>1. Len(tape) \in Nat /\ \A i \in 1 .. Len(tape) : tape[i] \in Cells
  <2>1. tape \in Seq(Cells)  BY DEF Reads, WriterInv
  <2> QED  BY <2>1
<1>2. ReaderTypes /\ InCall  BY DEF Reads, ReaderInv
<1>3. Order(tape) /\ DictInv /\ LoneInv /\ (whole => Complete(tape))  BY DEF Reads, OrderInv, TapeInv
<1>4. outSize \in Nat /\ outSize > 0 /\ StageInv /\ ChunkInv /\ SoundInv /\ Lz4Inv /\ EndInv
  BY DEF Reads, PlaceInv
<1>5. UNCHANGED <<codec, dict, tape, dictDone, closed, whole>> /\ closed  BY DEF Reads, writerVars
<1> QED  BY <1>1, <1>2, <1>3, <1>4, <1>5

LEMMA Settles ==
  ASSUME Reads, outSize' \in Nat, outSize' > 0, StageInv', ChunkInv', SoundInv', Lz4Inv', EndInv'
  PROVE  PlaceInv'
<1>1. closed'  BY Setting
<1> QED  BY <1>1 DEF PlaceInv

LEMMA InputsFit ==
  ASSUME Reads, NEW input \in Inputs
  PROVE  input \in Nat /\ pos + input <= Len(tape) /\ (input = 0 <=> pos = Len(tape))
<1>1. pos \in Nat /\ avail \in Nat /\ Len(tape) \in Nat /\ pos <= Len(tape) /\ pos + avail <= Len(tape)
  BY Setting DEF StageInv, ReaderTypes
<1> QED  BY <1>1, ReaderAssumption DEF Inputs, Least

LEMMA Moves ==
  ASSUME Reads, NEW input \in Inputs, NEW k \in 0 .. input, Take(input, k)
  PROVE  /\ pos \in Nat /\ k \in Nat /\ pos' = pos + k /\ pos' <= Len(tape)
         /\ pos' \in 0 .. Len(tape') /\ pos' + avail' <= Len(tape')
         /\ InMember(pos)' <=> InMember(pos + k)
         /\ Ends(pos)' <=> Ends(pos + k)
<1>1. pos \in Nat /\ Len(tape) \in Nat /\ tape' = tape  BY Setting DEF ReaderTypes
<1>2. input \in Nat /\ pos + input <= Len(tape)  BY InputsFit
<1>3. pos' = pos + k /\ avail' = input - k  BY DEF Take
<1>4. InMember(pos)' <=> InMember(pos + k)  BY <1>1, <1>3 DEF InMember
<1>5. Ends(pos)' <=> Ends(pos + k)  BY <1>1, <1>3 DEF Ends, Is
<1> QED  BY <1>1, <1>2, <1>3, <1>4, <1>5

(* In the members of a tape every cell ends its member, or another follows.  *)
LEMMA MemberGoesOn ==
  ASSUME WriterInv, OrderInv, codec # "chunked", NEW p \in 0 .. Len(tape)
  PROVE  /\ p > 0 => (Ends(p) <=> ~InMember(p))
         /\ InMember(p) /\ p < Len(tape) => Is("data", p + 1) \/ Is("tail", p + 1)
         /\ ~InMember(p) /\ p < Len(tape) =>
              Is("head", p + 1) \/ (p = 0 /\ codec = "zstd" /\ Is("dict", p + 1))
<1>1. Len(tape) \in Nat /\ DictInv /\ MemberOrder(tape)
  BY DEF WriterInv, OrderInv, TapeInv, Order
<1>2. ASSUME p > 0 PROVE Ends(p) <=> ~InMember(p)
  <2>1. p \in 1 .. Len(tape)  BY <1>1, <1>2
  <2>2. tape[p].kind \in {"head", "data", "tail", "dict"}  BY <1>1, <2>1 DEF MemberOrder
  <2> QED  BY <1>2, <2>1, <2>2 DEF Ends, Is, InMember
<1>3. ASSUME p < Len(tape)
      PROVE  /\ InMember(p) => Is("data", p + 1) \/ Is("tail", p + 1)
             /\ ~InMember(p) => Is("head", p + 1) \/ (p = 0 /\ codec = "zstd" /\ Is("dict", p + 1))
  <2>1. p + 1 \in 1 .. Len(tape)  BY <1>1, <1>3
  <2>2. CASE p > 0
    <3>1. p \in 1 .. Len(tape) - 1  BY <1>1, <1>3, <2>2
    <3>2. IF tape[p].kind \in {"head", "data"} THEN tape[p + 1].kind \in {"data", "tail"}
                                               ELSE tape[p + 1].kind = "head"
      BY <1>1, <3>1 DEF MemberOrder
    <3> QED  BY <2>1, <2>2, <3>2 DEF InMember, Is
  <2>3. CASE p = 0
    <3>1. tape[1].kind \in {"head", "dict"}  BY <1>1, <1>3, <2>3 DEF MemberOrder
    <3>2. 1 \in 1 .. Len(tape) /\ 0 + 1 = 1  BY <2>1, <2>3
    <3>3. tape[1].kind = "dict" => codec = "zstd"  BY <1>1, <3>2 DEF DictInv
    <3>4. Is("head", 1) \/ (codec = "zstd" /\ Is("dict", 1))  BY <3>1, <3>2, <3>3 DEF Is
    <3>5. ~InMember(p)  BY <2>3 DEF InMember
    <3> QED  BY <2>3, <3>2, <3>4, <3>5
  <2> QED  BY <2>2, <2>3
<1> QED  BY <1>2, <1>3

LEMMA EndsOrGoesOn ==
  ASSUME Reads, codec # "chunked", NEW p \in 0 .. Len(tape)
  PROVE  /\ p > 0 => (Ends(p) <=> ~InMember(p))
         /\ InMember(p) /\ p < Len(tape) => Is("data", p + 1) \/ Is("tail", p + 1)
         /\ ~InMember(p) /\ p < Len(tape) =>
              Is("head", p + 1) \/ (p = 0 /\ codec = "zstd" /\ Is("dict", p + 1))
BY MemberGoesOn DEF Reads

(* Whatever a decoder finds behind its position is what it wants.            *)
LEMMA FindsWhatItWants ==
  ASSUME Reads, codec # "chunked", pos < Len(tape)
  PROVE  Decodable
<1>1. pos \in 0 .. Len(tape) /\ (stage = "inside" <=> InMember(pos))  BY Setting DEF StageInv
<1> QED  BY <1>1, EndsOrGoesOn DEF Decodable

LEMMA TakesToTheEnd ==
  ASSUME Reads, NEW input \in Inputs, NEW space \in Nat
  PROVE  /\ Taken(input, space) \in 0 .. input
         /\ space > 0 /\ input > 0 => Taken(input, space) > 0
         /\ \A i \in pos + 1 .. pos + Taken(input, space) - 1 : ~Ends(i)
<1> QED  BY Setting, InputsFit, TakenIs

-----------------------------------------------------------------------------
LEMMA NothingUnread ==
  ASSUME ReaderInv, Unread = << >>
  PROVE  bufPos = Len(buf)
<1>1. /\ Len(SubSeq(buf, bufPos + 1, Len(buf))) = Len(buf) - bufPos
      /\ Len(buf) \in Nat /\ bufPos \in 0 .. Len(buf)
  BY FollowsInOrder DEF ReaderInv, Follows
<1>2. Len(buf) - bufPos = 0  BY <1>1, NoUnits DEF Unread
<1> QED  BY <1>1, <1>2

LEMMA StartFillPlace ==
  ASSUME Reads, StartFill
  PROVE  PlaceInv'
<1>1. /\ call = "idle" /\ result # "error" /\ bufPos = Len(buf)
      /\ call' = IF codec = "zstd" \/ (codec = "lz4" /\ Lz4Begin) THEN "begin" ELSE "decode"
      /\ codec = "chunked" => buf' = buf
      /\ UNCHANGED <<pos, avail, stage, outSize, streamPos, frameStart, dictLoaded,
                     chunkSize, chunkRead, result>>
  BY NothingUnread DEF Reads, StartFill, inVars, outVars, gzipVars, chunkVars
<1>2. /\ StageInv /\ ChunkInv /\ SoundInv /\ Lz4Inv /\ outSize \in Nat /\ outSize > 0 /\ DictInv
      /\ UNCHANGED <<codec, dict, tape, dictDone, closed, whole>>
  BY Setting
<1>3. StageInv'  BY <1>1, <1>2 DEF StageInv, InMember
<1>4. ChunkInv'
  <2>1. call' # "close"  BY <1>1
  <2> QED  BY <1>1, <1>2, <2>1 DEF ChunkInv, OfChunk
<1>5. SoundInv'  BY <1>1, <1>2 DEF SoundInv, DictInv
<1>6. Lz4Inv'  BY <1>1, <1>2 DEF Lz4Inv, Lz4Begin
<1>7. EndInv'  BY <1>1 DEF EndInv
<1> QED  BY <1>1, <1>2, <1>3, <1>4, <1>5, <1>6, <1>7, Settles

LEMMA GzipPlace ==
  ASSUME Reads, codec = "gzip", call # "idle", GzipTurn
  PROVE  PlaceInv'
<1>0. /\ ReaderTypes /\ InCall /\ outSize \in Nat /\ outSize > 0 /\ DictInv /\ StageInv /\ SoundInv
      /\ Len(tape) \in Nat
      /\ UNCHANGED <<codec, dict, tape, dictDone, closed, whole>>
      /\ Len(buf) \in Nat /\ Len(buf) <= outSize /\ bufPos = 0
  BY Setting DEF InCall, Reads, ReaderInv, Follows
<1> DEFINE space == outSize - Len(buf)
<1>1. space \in Nat  BY <1>0
<1>2. PICK input \in Inputs :
        LET k == Taken(input, space)
            units == buf \o DataIn(pos, k)
            ended == k > 0 /\ Ends(pos + k)
        IN  /\ Take(input, k)
            /\ outSize' \in Sizes(k, ended)
            /\ buf' = units
            /\ IF k > 0 /\ ~Decodable
                 THEN Return("error")
                 ELSE /\ stage' = IF ended THEN "fresh" ELSE IF k > 0 THEN "inside" ELSE stage
                      /\ IF ended \/ Len(units) = outSize' \/ k = 0
                           THEN ReturnBuffer(units)
                           ELSE Continue("decode")
  BY DEF GzipTurn
<1> DEFINE k == Taken(input, space)
           units == buf \o DataIn(pos, k)
           ended == k > 0 /\ Ends(pos + k)
<1>3. /\ Take(input, k) /\ outSize' \in Sizes(k, ended) /\ buf' = units
      /\ \/ k > 0 /\ ~Decodable
         \/ /\ stage' = IF ended THEN "fresh" ELSE IF k > 0 THEN "inside" ELSE stage
            /\ \/ (ended \/ Len(units) = outSize' \/ k = 0) /\ ReturnBuffer(units)
               \/ Continue("decode")
  BY <1>2
<1>4. UNCHANGED <<bufPos, streamPos, dictLoaded>>  BY DEF GzipTurn
<1>5. k \in 0 .. input /\ (space > 0 /\ input > 0 => k > 0)  BY <1>1, TakesToTheEnd
<1>6. input \in Nat /\ pos + input <= Len(tape) /\ (input = 0 <=> pos = Len(tape))  BY InputsFit
<1> HIDE DEF k, units
<1>7. /\ pos \in Nat /\ k \in Nat /\ pos' = pos + k /\ pos' <= Len(tape)
      /\ pos' \in 0 .. Len(tape') /\ pos' + avail' <= Len(tape')
      /\ InMember(pos)' <=> InMember(pos + k)
      /\ Ends(pos)' <=> Ends(pos + k)
  BY <1>3, <1>5, Moves
<1>8. Decodable \/ k = 0
  <2>1. k > 0 => pos < Len(tape)  BY <1>0, <1>5, <1>6, <1>7
  <2> QED  BY <1>7, <2>1, FindsWhatItWants
<1>9. /\ stage' = IF ended THEN "fresh" ELSE IF k > 0 THEN "inside" ELSE stage
      /\ \/ (ended \/ Len(units) = outSize' \/ k = 0) /\ ReturnBuffer(units)
         \/ Continue("decode")
  BY <1>3, <1>7, <1>8
<1>10. outSize' \in Nat /\ outSize' > 0
  BY <1>0, <1>3, ReaderAssumption DEF Sizes
<1>11. call' \in {"idle", "decode"} /\ result' \in {result, "data", "end"}
  BY <1>9 DEF ReturnBuffer, Return, Continue
<1>12. StageInv'
  <2>1. stage \in {"fresh", "inside"} /\ (stage = "inside" <=> InMember(pos))  BY <1>0 DEF StageInv
  <2>2. k > 0 => (Ends(pos + k) <=> ~InMember(pos + k))
    <3>1. pos + k \in 0 .. Len(tape) /\ (k > 0 => pos + k > 0)  BY <1>0, <1>7
    <3> QED  BY <3>1, EndsOrGoesOn
  <2>3. k = 0 => pos + k = pos  BY <1>7
  <2>4. stage' \in {"fresh", "inside"} /\ (stage' = "inside" <=> InMember(pos + k))
    <3>1. CASE k = 0  BY <1>9, <2>1, <2>3, <3>1
    <3>2. CASE k > 0  BY <1>9, <2>2, <3>2
    <3> QED  BY <1>7, <3>1, <3>2
  <2> QED  BY <1>0, <1>7, <1>11, <2>4 DEF StageInv
<1>13. ChunkInv' /\ Lz4Inv'  BY <1>0 DEF ChunkInv, Lz4Inv
<1>14. SoundInv'
  <2>1. ~dict  BY <1>0 DEF DictInv
  <2> QED  BY <1>0, <1>11, <2>1 DEF SoundInv
<1>15. EndInv'
  <2> SUFFICES ASSUME result' = "end", call' = "idle"
               PROVE  bufPos' = Len(buf') /\ (pos' = Len(tape') \/ Ends(pos)')
    BY <1>0 DEF EndInv
  <2>1. units = << >> /\ (ended \/ Len(units) = outSize' \/ k = 0)
    BY <1>9 DEF ReturnBuffer, Return, Continue
  <2>2. Len(units) = 0 /\ Len(buf) = 0
    <3>1. Len(buf') = 0  BY <1>3, <2>1, NoUnits
    <3>2. PICK d \in Nat : DataIn(pos, k) = UnitsFrom(UnitsBefore(pos), d)
      BY <1>0, <1>7, TakenUnits DEF Reads
    <3>3. Len(buf \o UnitsFrom(UnitsBefore(pos), d)) = Len(buf) + d
      BY FollowsMore DEF Reads, ReaderInv
    <3> QED  BY <1>0, <1>3, <3>1, <3>2, <3>3 DEF units
  <2>3. bufPos' = Len(buf')  BY <1>0, <1>3, <1>4, <2>2
  <2>4. CASE ended  BY <1>7, <2>3, <2>4
  <2>5. CASE k = 0
    <3>1. space > 0  BY <1>0, <2>2
    <3>2. input = 0  BY <1>5, <1>6, <2>5, <3>1
    <3> QED  BY <1>0, <1>6, <1>7, <2>3, <2>5, <3>2
  <2> QED  BY <1>10, <2>1, <2>2, <2>4, <2>5
<1> QED  BY <1>10, <1>12, <1>13, <1>14, <1>15, Settles

(* A reader that has not met its dictionary yet is at the start of fill_buf(). *)
LEMMA DictIsLoaded ==
  ASSUME Reads, call \notin {"idle", "begin"}, whole, dict => dictDone
  PROVE  dict => dictLoaded
BY Setting DEF SoundInv

LEMMA LoadDictPlace ==
  ASSUME Reads, codec = "zstd", call = "begin", LoadDict
  PROVE  PlaceInv'
<1>0. /\ ReaderTypes /\ InCall /\ outSize \in Nat /\ outSize > 0 /\ DictInv /\ StageInv /\ SoundInv
      /\ Len(tape) \in Nat /\ LoneInv
      /\ UNCHANGED <<codec, dict, tape, dictDone, closed, whole>>
  BY Setting
<1>1. UNCHANGED <<buf, bufPos, outSize, streamPos, chunkSize, chunkRead, result>> /\ call' = "decode"
  BY DEF LoadDict, outVars, gzipVars, chunkVars, Continue
<1>2. outSize' \in Nat /\ outSize' > 0  BY <1>0, <1>1
<1>3. ChunkInv' /\ Lz4Inv' /\ EndInv'  BY <1>0, <1>1 DEF ChunkInv, Lz4Inv, EndInv
<1>4. /\ stage \in {"fresh", "inside", "over"} /\ (stage = "inside" <=> InMember(pos))
      /\ stage = "over" => pos > 0
      /\ pos \in Nat
  BY <1>0 DEF StageInv, ReaderTypes
<1>5. CASE Is("dict", pos + 1) /\ streamPos = 0 /\ frameStart = 0 /\ ~dictLoaded
  <2>1. PICK input \in Inputs : Take(input, 1) /\ dictLoaded' = TRUE /\ stage' = "fresh"
    BY <1>5 DEF LoadDict
  <2>2. 1 \in 0 .. input  BY <1>0, <1>5, InputsAre
  <2>3. /\ pos' = pos + 1 /\ pos' \in 0 .. Len(tape') /\ pos' + avail' <= Len(tape')
        /\ InMember(pos)' <=> InMember(pos + 1)
    BY <2>1, <2>2, Moves
  <2>4. ~InMember(pos + 1)  BY <1>5 DEF InMember, Is
  <2>5. StageInv'  BY <1>0, <1>1, <2>1, <2>3, <2>4 DEF StageInv
  <2>6. SoundInv'
    <3>1. whole => pos' < Len(tape')
      <4>1. whole => Len(tape) > 0 /\ tape[Len(tape)].kind = "tail"  BY <1>0 DEF LoneInv
      <4>2. tape[pos + 1].kind = "dict" /\ pos + 1 <= Len(tape)  BY <1>4, <1>5 DEF Is
      <4>3. whole => pos + 1 # Len(tape)  BY <4>1, <4>2
      <4> QED  BY <1>0, <1>4, <2>3, <4>2, <4>3
    <3> QED  BY <1>0, <1>1, <2>1, <3>1 DEF SoundInv
  <2> QED  BY <1>2, <1>3, <2>5, <2>6, Settles
<1>6. CASE ~ (Is("dict", pos + 1) /\ streamPos = 0 /\ frameStart = 0 /\ ~dictLoaded)
  <2>1. UNCHANGED <<dictLoaded, stage, frameStart>>
    BY <1>6 DEF LoadDict
  <2>2. /\ pos' = pos /\ pos' \in 0 .. Len(tape') /\ pos' + avail' <= Len(tape')
        /\ InMember(pos)' <=> InMember(pos)
    <3>1. CASE streamPos = 0 /\ frameStart = 0 /\ ~dictLoaded
      <4>1. PICK input \in Inputs : Take(input, 0)  BY <1>6, <3>1 DEF LoadDict
      <4>2. 0 \in 0 .. input  BY InputsFit
      <4>3. pos + 0 = pos  BY <1>4
      <4> QED  BY <4>1, <4>2, <4>3, Moves
    <3>2. CASE ~ (streamPos = 0 /\ frameStart = 0 /\ ~dictLoaded)
      <4>1. pos' = pos /\ avail' = avail  BY <3>2 DEF LoadDict
      <4> QED  BY <1>0, <4>1 DEF StageInv, InMember
    <3> QED  BY <3>1, <3>2
  <2>3. StageInv'  BY <1>0, <1>1, <1>4, <2>1, <2>2 DEF StageInv
  <2>4. SoundInv'
    <3>1. ASSUME whole, dict, dictDone, ~dictLoaded PROVE FALSE
      <4>1. pos = 0 /\ streamPos = 0 /\ frameStart = 0  BY <1>0, <3>1 DEF SoundInv
      <4>2. Len(tape) > 0 /\ tape[1].kind = "dict"  BY <1>0, <3>1 DEF DictInv
      <4>3. pos + 1 = 1 /\ 1 \in 1 .. Len(tape)  BY <1>0, <4>1, <4>2
      <4>4. Is("dict", pos + 1)  BY <4>2, <4>3 DEF Is
      <4> QED  BY <1>6, <3>1, <4>1, <4>4
    <3>2. pos' = pos /\ stage' = stage /\ result' = result /\ dictLoaded' = dictLoaded
      BY <1>1, <2>1, <2>2
    <3> QED  BY <1>0, <3>1, <3>2 DEF SoundInv
  <2> QED  BY <1>2, <1>3, <2>3, <2>4, Settles
<1> QED  BY <1>5, <1>6

LEMMA ZstdTurnPlace ==
  ASSUME Reads, codec \in {"zstd", "brotli"}, call # "idle", call # "begin", ZstdTurn
  PROVE  PlaceInv'
<1>0. /\ ReaderTypes /\ InCall /\ outSize \in Nat /\ outSize > 0 /\ DictInv /\ StageInv /\ SoundInv
      /\ Len(tape) \in Nat /\ LoneInv
      /\ UNCHANGED <<codec, dict, tape, dictDone, closed, whole>>
  BY Setting
<1>1. UNCHANGED <<bufPos, outSize, frameStart, streamPos, dictLoaded, chunkSize, chunkRead>> /\ stage # "over"
  BY DEF ZstdTurn, gzipVars, chunkVars
<1>2. outSize' \in Nat /\ outSize' > 0  BY <1>0, <1>1
<1>3. ChunkInv' /\ Lz4Inv'  BY <1>0 DEF ChunkInv, Lz4Inv
<1>4. /\ stage \in {"fresh", "inside"} /\ (stage = "inside" <=> InMember(pos))
      /\ pos \in 0 .. Len(tape) /\ pos \in Nat
  BY <1>0, <1>1 DEF StageInv, ReaderTypes
<1>5. PICK input \in Inputs :
        LET k == Taken(input, MaxOut)
            units == DataIn(pos, k)
        IN  IF input = 0 \/ ~Decodable \/ ~HasDict
              THEN Take(input, 0) /\ Return("error") /\ UNCHANGED <<stage, buf>>
              ELSE /\ Take(input, k)
                   /\ stage' = IF Ends(pos + k) THEN "over" ELSE "inside"
                   /\ buf' = units
                   /\ IF units = << >> THEN Continue("decode") ELSE Return("data")
  BY DEF ZstdTurn
<1> DEFINE k == Taken(input, MaxOut)
<1>6. input \in Nat /\ pos + input <= Len(tape) /\ (input = 0 <=> pos = Len(tape))  BY InputsFit
<1>7. k \in 0 .. input /\ (input > 0 => k > 0)
  <2>1. MaxOut \in Nat /\ MaxOut > 0  BY ReaderAssumption
  <2> QED  BY <2>1, TakesToTheEnd
<1>8. CASE input = 0 \/ ~Decodable \/ ~HasDict
  <2>1. Take(input, 0) /\ call' = "idle" /\ result' = "error" /\ stage' = stage
    BY <1>5, <1>8 DEF Return
  <2>2. 0 \in 0 .. input /\ pos + 0 = pos  BY <1>4, <1>6
  <2>3. /\ pos' = pos /\ pos' \in 0 .. Len(tape') /\ pos' + avail' <= Len(tape')
        /\ InMember(pos)' <=> InMember(pos)
    BY <2>1, <2>2, Moves
  <2>4. StageInv'  BY <1>0, <1>4, <2>1, <2>3 DEF StageInv
  <2>5. EndInv'  BY <2>1 DEF EndInv
  <2>6. ASSUME whole, dict => dictDone PROVE FALSE
    <3>1. pos < Len(tape)
      <4>1. CASE stage = "fresh"  BY <1>0, <2>6, <4>1 DEF SoundInv
      <4>2. CASE stage = "inside"
        <5>1. tape[Len(tape)].kind = "tail"  BY <1>0, <2>6 DEF LoneInv
        <5>2. pos # Len(tape)  BY <1>4, <4>2, <5>1 DEF InMember
        <5> QED  BY <1>0, <1>4, <5>2
      <4> QED  BY <1>4, <4>1, <4>2
    <3>2. input # 0  BY <1>6, <3>1
    <3>3. Decodable
      <4>1. codec # "chunked"  OBVIOUS
      <4> QED  BY <3>1, <4>1, FindsWhatItWants
    <3>4. HasDict
      <4>1. dict => dictLoaded
        <5>1. call \notin {"idle", "begin"}  OBVIOUS
        <5> QED  BY <2>6, <5>1, DictIsLoaded
      <4>2. Is("head", pos + 1) => tape[pos + 1].n = IF dict THEN 1 ELSE 0  BY <1>0 DEF DictInv, Is
      <4>3. Is("head", pos + 1) /\ tape[pos + 1].n = 1 => dict  BY <4>2
      <4> QED  BY <4>1, <4>3 DEF HasDict
    <3> QED  BY <1>8, <3>2, <3>3, <3>4
  <2>7. SoundInv'  BY <1>0, <2>6 DEF SoundInv
  <2> QED  BY <1>2, <1>3, <2>4, <2>5, <2>7, Settles
<1>9. CASE ~ (input = 0 \/ ~Decodable \/ ~HasDict)
  <2>1. /\ Take(input, k) /\ stage' = IF Ends(pos + k) THEN "over" ELSE "inside"
        /\ \/ call' = "decode" /\ result' = result
           \/ call' = "idle" /\ result' = "data"
    BY <1>5, <1>9 DEF Return, Continue
  <2>2. k > 0  BY <1>6, <1>7, <1>9
  <2> HIDE DEF k
  <2>3. /\ pos' = pos + k /\ k \in Nat /\ pos' <= Len(tape)
        /\ pos' \in 0 .. Len(tape') /\ pos' + avail' <= Len(tape')
        /\ InMember(pos)' <=> InMember(pos + k)
    BY <1>7, <2>1, Moves
  <2>4. pos + k \in 0 .. Len(tape) /\ pos + k > 0 /\ codec # "chunked"
    BY <1>0, <1>4, <2>2, <2>3
  <2>5. Ends(pos + k) <=> ~InMember(pos + k)  BY <2>4, EndsOrGoesOn
  <2>6. StageInv'  BY <1>0, <2>1, <2>3, <2>4, <2>5 DEF StageInv
  <2>7. SoundInv'
    <3>1. ASSUME whole, dict => dictDone PROVE dict => dictLoaded
      <4>1. call \notin {"idle", "begin"}  OBVIOUS
      <4> QED  BY <3>1, <4>1, DictIsLoaded
    <3>2. result' \in {result, "data"} /\ stage' # "fresh"  BY <2>1
    <3> QED  BY <1>0, <1>1, <3>1, <3>2 DEF SoundInv
  <2>8. EndInv'  BY <2>1 DEF EndInv
  <2> QED  BY <1>2, <1>3, <2>6, <2>7, <2>8, Settles
<1> QED  BY <1>8, <1>9

LEMMA ZstdEndPlace ==
  ASSUME Reads, codec \in {"zstd", "brotli"}, call # "idle", call # "begin",
         (codec = "zstd" /\ ZstdNext) \/ (codec = "brotli" /\ StopsAtEnd)
  PROVE  PlaceInv'
<1>0. /\ ReaderTypes /\ InCall /\ outSize \in Nat /\ outSize > 0 /\ DictInv /\ StageInv /\ SoundInv
      /\ Len(tape) \in Nat /\ LoneInv
      /\ UNCHANGED <<codec, dict, tape, dictDone, closed, whole>>
  BY Setting
<1>1. UNCHANGED <<buf, bufPos, outSize, streamPos, dictLoaded>> /\ stage = "over"
  BY DEF ZstdNext, StopsAtEnd, outVars, gzipVars
<1>2. outSize' \in Nat /\ outSize' > 0  BY <1>0, <1>1
<1>3. ChunkInv' /\ Lz4Inv'  BY <1>0 DEF ChunkInv, Lz4Inv
<1>4. pos \in 0 .. Len(tape) /\ pos \in Nat /\ ~InMember(pos) /\ pos > 0 /\ Ends(pos)
  <2>1. pos \in 0 .. Len(tape) /\ ~InMember(pos) /\ pos > 0  BY <1>0, <1>1 DEF StageInv
  <2>2. codec # "chunked"  OBVIOUS
  <2> QED  BY <2>1, <2>2, EndsOrGoesOn
<1>5. bufPos' = Len(buf')  BY <1>0, <1>1, NoUnits DEF InCall
<1>6. ASSUME whole, dict => dictDone PROVE dict => dictLoaded
  <2>1. call \notin {"idle", "begin"}  OBVIOUS
  <2> QED  BY <1>6, <2>1, DictIsLoaded
<1>7. CASE codec = "zstd" /\ ZstdNext
  <2>1. PICK input \in Inputs :
          /\ Take(input, 0)
          /\ IF input = 0 THEN Return("end") /\ stage' = stage
             ELSE Continue("decode") /\ stage' = "fresh"
    BY <1>7 DEF ZstdNext
  <2>2. input \in Nat /\ pos + input <= Len(tape) /\ (input = 0 <=> pos = Len(tape))  BY InputsFit
  <2>3. 0 \in 0 .. input /\ pos + 0 = pos  BY <1>4, <2>2
  <2>4. /\ pos' = pos /\ pos' \in 0 .. Len(tape') /\ pos' + avail' <= Len(tape')
        /\ InMember(pos)' <=> InMember(pos)
        /\ Ends(pos)' <=> Ends(pos)
    BY <2>1, <2>3, Moves
  <2>5. \/ call' = "idle" /\ result' = "end" /\ stage' = "over" /\ pos = Len(tape)
        \/ call' = "decode" /\ result' = result /\ stage' = "fresh" /\ pos < Len(tape)
    <3>1. input # 0 => pos < Len(tape)  BY <1>4, <2>2
    <3> QED  BY <1>1, <2>1, <2>2, <3>1 DEF Return, Continue
  <2>6. StageInv'  BY <1>0, <1>4, <1>7, <2>4, <2>5 DEF StageInv
  <2>7. SoundInv'
    <3>1. result' \in {result, "end"} /\ (stage' = "fresh" => pos' < Len(tape')) /\ dictLoaded' = dictLoaded
      BY <1>0, <1>1, <2>4, <2>5
    <3> QED  BY <1>0, <1>6, <3>1 DEF SoundInv
  <2>8. EndInv'
    <3>1. call' = "idle" => pos' = Len(tape') /\ Ends(pos)'  BY <1>0, <1>4, <2>4, <2>5
    <3> QED  BY <1>0, <1>5, <1>7, <3>1 DEF EndInv
  <2> QED  BY <1>2, <1>3, <2>6, <2>7, <2>8, Settles
<1>8. CASE codec = "brotli" /\ StopsAtEnd
  <2>1. /\ pos' = pos /\ avail' = avail /\ stage' = stage /\ call' = "idle" /\ result' = "end"
    BY <1>8 DEF StopsAtEnd, Return, inVars
  <2>2. pos = Len(tape)
    <3>1. pos \in 1 .. Len(tape) /\ tape[pos].kind \in {"tail", "dict"}  BY <1>4 DEF Ends, Is
    <3>2. tape[pos].kind # "dict"  BY <1>0, <1>8, <3>1 DEF DictInv
    <3> QED  BY <1>0, <1>8, <3>1, <3>2 DEF LoneInv
  <2>3. InMember(pos)' <=> InMember(pos)  BY <1>0, <2>1 DEF InMember
  <2>4. Ends(pos)' <=> Ends(pos)  BY <1>0, <2>1 DEF Ends, Is
  <2>5. StageInv'  BY <1>0, <1>4, <2>1, <2>3 DEF StageInv
  <2>6. SoundInv'
    <3>1. result' = "end" /\ stage' # "fresh" /\ dictLoaded' = dictLoaded  BY <1>1, <2>1
    <3> QED  BY <1>0, <1>6, <3>1 DEF SoundInv
  <2>7. EndInv'  BY <1>0, <1>4, <1>5, <1>8, <2>1, <2>2, <2>4 DEF EndInv
  <2> QED  BY <1>2, <1>3, <2>5, <2>6, <2>7, Settles
<1> QED  BY <1>7, <1>8

(* A frame ends in fill_buf()'s own loop only if it is empty.               *)
LEMMA EndsEmptyFrame ==
  ASSUME Reads, codec = "lz4", call = "decode", stage = "inside", Is("tail", pos + 1)
  PROVE  EmptyMember
<1>1. pos \in Nat /\ pos \in 0 .. Len(tape) /\ InMember(pos) /\ tape[pos].kind = "head"
  BY Setting DEF StageInv, Lz4Inv, ReaderTypes
<1> DEFINE p == pos - 1
<1>2. p \in 0 .. Len(tape) /\ p + 1 = pos /\ p + 2 = pos + 1 /\ pos \in 1 .. Len(tape)
  BY <1>1, Setting DEF InMember
<1> HIDE DEF p
<1>3. Is("head", p + 1) /\ Is("tail", p + 2)  BY <1>1, <1>2 DEF Is
<1> QED  BY <1>2, <1>3 DEF EmptyMember

LEMMA Lz4Place ==
  ASSUME Reads, codec = "lz4", call # "idle", Lz4Turn
  PROVE  PlaceInv'
<1>0. /\ ReaderTypes /\ InCall /\ outSize \in Nat /\ outSize > 0 /\ DictInv /\ StageInv /\ SoundInv
      /\ Lz4Inv /\ Len(tape) \in Nat /\ (whole => Complete(tape))
      /\ UNCHANGED <<codec, dict, tape, dictDone, closed, whole>>
  BY Setting
<1>1. UNCHANGED <<bufPos, outSize, streamPos, dictLoaded>>
  BY DEF Lz4Turn, gzipVars
<1>2. outSize' \in Nat /\ outSize' > 0  BY <1>0, <1>1
<1>3. ChunkInv'  BY <1>0 DEF ChunkInv
<1>4. /\ stage \in {"fresh", "inside"} /\ (stage = "inside" <=> InMember(pos))
      /\ pos \in 0 .. Len(tape) /\ pos \in Nat /\ call \in {"begin", "decode"}
      /\ ~dict
      /\ (pos > 0 => (Ends(pos) <=> ~InMember(pos)))
  <2>1. codec # "chunked" /\ pos \in 0 .. Len(tape)  BY <1>0 DEF StageInv
  <2>2. pos > 0 => (Ends(pos) <=> ~InMember(pos))  BY <2>1, EndsOrGoesOn
  <2> QED  BY <1>0, <2>2 DEF StageInv, ReaderTypes, DictInv
<1>5. buf = << >> /\ bufPos = 0 /\ bufPos' = 0  BY <1>0, <1>1 DEF InCall
<1>6. PICK input \in Inputs :
        /\ Take(input, IF input > 0 /\ Decodable THEN 1 ELSE 0)
        /\ IF input = 0 THEN Lz4TapeEnd
           ELSE IF ~Decodable THEN Return("error") /\ UNCHANGED <<stage, frameStart, buf>>
           ELSE IF Is("tail", pos + 1) THEN Lz4FrameEnd
           ELSE /\ stage' = "inside"
                /\ buf' = DataIn(pos, 1)
                /\ IF Is("data", pos + 1) THEN Return("data") ELSE Continue(call)
  BY DEF Lz4Turn
<1>7. input \in Nat /\ pos + input <= Len(tape) /\ (input = 0 <=> pos = Len(tape))  BY InputsFit
(* The rest of PlaceInv, from where the decoder is after the turn.          *)
<1>8. ASSUME pos' \in 0 .. Len(tape'), pos' + avail' <= Len(tape'),
             stage' \in {"fresh", "inside"}, stage' = "inside" <=> InMember(pos)',
             call' \in {"idle", "begin", "decode"},
             result' = "error" => ~whole
      PROVE  StageInv' /\ (result' \in {result, "data", "end", "error"} => SoundInv')
  <2>1. StageInv'  BY <1>0, <1>8 DEF StageInv
  <2>2. result' \in {result, "data", "end", "error"} => SoundInv'
    BY <1>0, <1>4, <1>8 DEF SoundInv
  <2> QED  BY <2>1, <2>2
<1>9. CASE input = 0
  <2>1. Take(input, 0) /\ Lz4TapeEnd  BY <1>6, <1>9
  <2>2. 0 \in 0 .. input /\ pos + 0 = pos  BY <1>4, <1>7
  <2>3. /\ pos' = pos /\ pos' \in 0 .. Len(tape') /\ pos' + avail' <= Len(tape')
        /\ InMember(pos)' <=> InMember(pos)
        /\ Ends(pos)' <=> Ends(pos)
    BY <2>1, <2>2, Moves
  <2>4. /\ stage' = stage /\ buf' = buf
        /\ \/ stage = "inside" /\ call' = "idle" /\ result' = "error"
           \/ stage = "fresh" /\ call' = "decode" /\ result' = result
           \/ stage = "fresh" /\ call' = "idle" /\ result' = "end"
    BY <1>4, <2>1 DEF Lz4TapeEnd, Return, Continue
  <2>5. stage = "inside" => ~whole
    <3>1. SUFFICES ASSUME stage = "inside", whole PROVE FALSE  OBVIOUS
    <3>2. InMember(Len(tape)) /\ Len(tape) > 0  BY <1>4, <1>7, <1>9, <3>1 DEF InMember
    <3>3. tape[Len(tape)].kind \in {"tail", "dict", "crlf"}  BY <1>0, <3>1, <3>2 DEF Complete
    <3> QED  BY <3>2, <3>3 DEF InMember
  <2>6. result' = "error" => ~whole
    <3>1. whole => result # "error"  BY <1>0, <1>4 DEF SoundInv
    <3> QED  BY <2>4, <2>5, <3>1
  <2>7. StageInv' /\ SoundInv'  BY <1>4, <1>8, <2>3, <2>4, <2>6
  <2>8. Lz4Inv'  BY <2>4 DEF Lz4Inv
  <2>9. EndInv'
    <3>1. bufPos' = Len(buf')  BY <1>5, <2>4, NoUnits
    <3>2. stage = "fresh" => (pos' > 0 => Ends(pos)')  BY <1>4, <2>3
    <3>3. pos' = Len(tape')  BY <1>0, <1>7, <1>9, <2>3
    <3> QED  BY <1>0, <2>4, <3>1, <3>2, <3>3 DEF EndInv
  <2> QED  BY <1>2, <1>3, <2>7, <2>8, <2>9, Settles
<1>10. CASE input # 0
  <2>1. pos < Len(tape) /\ pos + 1 <= Len(tape) /\ pos + 1 > 0 /\ input > 0  BY <1>4, <1>7, <1>10
  <2>2. Decodable
    <3>1. codec # "chunked"  OBVIOUS
    <3> QED  BY <2>1, <3>1, FindsWhatItWants
  <2>3. /\ Take(input, 1)
        /\ \/ Is("tail", pos + 1) /\ Lz4FrameEnd
           \/ /\ ~Is("tail", pos + 1) /\ stage' = "inside" /\ buf' = DataIn(pos, 1)
              /\ IF Is("data", pos + 1) THEN Return("data") ELSE Continue(call)
    BY <1>6, <2>1, <2>2
  <2>4. 1 \in 0 .. input  BY <1>7, <2>1
  <2>5. /\ pos' = pos + 1 /\ pos' \in 0 .. Len(tape') /\ pos' + avail' <= Len(tape')
        /\ InMember(pos)' <=> InMember(pos + 1)
        /\ Ends(pos)' <=> Ends(pos + 1)
    BY <2>3, <2>4, Moves
  <2>6. IF stage = "inside" THEN Is("data", pos + 1) \/ Is("tail", pos + 1) ELSE Is("head", pos + 1)
    BY <2>2 DEF Decodable
  <2>7. whole => result # "error"  BY <1>0, <1>4 DEF SoundInv
  <2>8. CASE Is("tail", pos + 1) /\ Lz4FrameEnd
    <3>1. /\ stage' = "fresh" /\ buf' = buf
          /\ \/ call' = "decode" /\ result' = result
             \/ call = "decode" /\ call' = "idle" /\ result' = "end"
      BY <1>4, <2>8 DEF Lz4FrameEnd, Return, Continue
    <3>2. ~InMember(pos + 1) /\ Ends(pos + 1)  BY <2>8 DEF InMember, Is, Ends
    <3>3. StageInv' /\ SoundInv'  BY <1>8, <2>5, <2>7, <3>1, <3>2
    <3>4. Lz4Inv'  BY <3>1 DEF Lz4Inv
    <3>5. call = "decode" => EmptyMember
      <4>1. stage = "inside"  BY <1>4, <2>6, <2>8 DEF Is
      <4> QED  BY <2>8, <4>1, EndsEmptyFrame
    <3>6. EmptyMember' <=> EmptyMember  BY <1>0 DEF EmptyMember, Is
    <3>7. bufPos' = Len(buf')  BY <1>5, <3>1, NoUnits
    <3>8. EndInv'  BY <1>0, <2>5, <3>1, <3>2, <3>5, <3>6, <3>7 DEF EndInv
    <3> QED  BY <1>2, <1>3, <3>3, <3>4, <3>8, Settles
  <2>9. CASE /\ ~Is("tail", pos + 1) /\ stage' = "inside" /\ buf' = DataIn(pos, 1)
             /\ IF Is("data", pos + 1) THEN Return("data") ELSE Continue(call)
    <3>1. Is("data", pos + 1) \/ Is("head", pos + 1)  BY <2>6, <2>9
    <3>2. InMember(pos + 1)  BY <2>1, <3>1 DEF InMember, Is
    <3>3. \/ Is("data", pos + 1) /\ call' = "idle" /\ result' = "data"
          \/ Is("head", pos + 1) /\ call' = call /\ result' = result
      BY <2>9, <3>1 DEF Return, Continue
    <3>4. call' \in {"idle", "begin", "decode"} /\ result' \in {result, "data"}
      BY <1>4, <3>3
    <3>5. StageInv' /\ SoundInv'  BY <1>8, <2>5, <2>7, <2>9, <3>2, <3>4
    <3>6. Lz4Inv'
      <4>1. Is("data", pos + 1) => bufPos' # Len(buf')
        <5>1. SUFFICES ASSUME Is("data", pos + 1) PROVE bufPos' # Len(buf')  OBVIOUS
        <5>2. PICK d \in Nat : /\ DataIn(pos, 1) = UnitsFrom(UnitsBefore(pos), d)
                               /\ UnitsBefore(pos + 1) = UnitsBefore(pos) + d
                               /\ Len(DataIn(pos, 1)) = d
          BY <1>0, TakenUnits DEF Reads
        <5>3. UnitsBefore(pos) \in Nat /\ UnitsBefore(pos + 1) = UnitsBefore(pos) + 1
          <6>1. CountIn(tape, pos + 1) = CountIn(tape, pos) + 1  BY <1>4, <5>1, CountStep DEF Is
          <6> QED  BY <1>4, <6>1, UnitsBeforeIs
        <5>4. Len(buf') = 1
          <6>1. d = 1
            <7> HIDE DEF UnitsBefore
            <7>1. UnitsBefore(pos) + d = UnitsBefore(pos) + 1  BY <5>2, <5>3
            <7> QED  BY <5>3, <7>1
          <6>2. Len(buf') = Len(DataIn(pos, 1))  BY <2>9
          <6> QED  BY <5>2, <6>1, <6>2
        <5> QED  BY <1>5, <5>4
      <4>2. call' = "decode" => tape'[pos'].kind = "head"  BY <1>0, <2>5, <3>3 DEF Is
      <4>3. call' = "idle" => bufPos' # Len(buf')  BY <1>4, <3>3, <4>1
      <4> QED  BY <4>2, <4>3 DEF Lz4Inv
    <3>7. EndInv'  BY <1>4, <3>3 DEF EndInv
    <3> QED  BY <1>2, <1>3, <3>5, <3>6, <3>7, Settles
  <2> QED  BY <2>3, <2>8, <2>9
<1> QED  BY <1>9, <1>10

(* The cells of the chunk that the reader is in.                            *)
LEMMA ChunkStands ==
  ASSUME Reads, codec = "chunked", OfChunk, chunkRead <= chunkSize
  PROVE  /\ chunkRead < chunkSize /\ pos < Len(tape) => Is("data", pos + 1)
         /\ chunkRead = chunkSize /\ pos < Len(tape) => Is("crlf", pos + 1)
         /\ whole => pos < Len(tape)
         /\ chunkRead = 0 => pos \in 1 .. Len(tape) /\ tape[pos] = ACell("size", chunkSize)
<1> DEFINE s == pos - chunkRead
<1>1. /\ pos \in Nat /\ chunkRead \in Nat /\ chunkSize \in Nat /\ Len(tape) \in Nat /\ pos <= Len(tape)
      /\ ChunkOrder(tape) /\ (whole => Complete(tape))
  BY Setting DEF ReaderTypes, StageInv, Order
<1>2. s \in 1 .. Len(tape) /\ tape[s] = ACell("size", chunkSize) /\ s + chunkRead = pos /\ s \in Nat
  BY <1>1 DEF OfChunk
<1>3. tape[s].kind = "size" /\ tape[s].n = chunkSize  BY <1>2 DEF ACell
<1> HIDE DEF s
<1>4. /\ \A j \in 1 .. chunkSize : s + j <= Len(tape) => tape[s + j].kind = "data"
      /\ s + chunkSize + 1 <= Len(tape) => tape[s + chunkSize + 1].kind = "crlf"
  BY <1>1, <1>2, <1>3 DEF ChunkOrder
<1>5. ASSUME pos < Len(tape) PROVE pos + 1 \in 1 .. Len(tape)  BY <1>1, <1>5
<1>6. ASSUME chunkRead < chunkSize, pos < Len(tape) PROVE Is("data", pos + 1)
  <2>1. chunkRead + 1 \in 1 .. chunkSize /\ s + (chunkRead + 1) = pos + 1 /\ pos + 1 <= Len(tape)
    BY <1>1, <1>2, <1>6
  <2>2. tape[s + (chunkRead + 1)].kind = "data"  BY <1>4, <2>1
  <2> QED  BY <1>5, <1>6, <2>1, <2>2 DEF Is
<1>7. ASSUME chunkRead = chunkSize, pos < Len(tape) PROVE Is("crlf", pos + 1)
  <2>1. s + chunkSize + 1 = pos + 1 /\ pos + 1 <= Len(tape)  BY <1>1, <1>2, <1>7
  <2>2. tape[s + chunkSize + 1].kind = "crlf"  BY <1>4, <2>1
  <2> QED  BY <1>5, <1>7, <2>1, <2>2 DEF Is
<1>8. ASSUME whole PROVE pos < Len(tape)
  <2>1. Len(tape) > 0 /\ tape[Len(tape)].kind \in {"tail", "dict", "crlf"}
    BY <1>1, <1>2, <1>8 DEF Complete
  <2>2. ASSUME pos = Len(tape) PROVE FALSE
    <3>1. CASE chunkRead = 0
      <4>1. s = Len(tape)  BY <1>1, <1>2, <2>2, <3>1
      <4> QED  BY <1>3, <2>1, <4>1
    <3>2. CASE chunkRead # 0
      <4>1. chunkRead \in 1 .. chunkSize /\ s + chunkRead <= Len(tape)  BY <1>1, <1>2, <3>2
      <4>2. tape[s + chunkRead].kind = "data"  BY <1>4, <4>1
      <4> QED  BY <1>2, <2>1, <2>2, <4>2
    <3> QED  BY <3>1, <3>2
  <2> QED  BY <1>1, <2>2
<1>9. ASSUME chunkRead = 0 PROVE pos \in 1 .. Len(tape) /\ tape[pos] = ACell("size", chunkSize)
  <2>1. s = pos  BY <1>1, <1>2, <1>9
  <2> QED  BY <1>2, <2>1
<1> QED  BY <1>6, <1>7, <1>8, <1>9

(* What is left to show of a turn of the chunked reader.                    *)
LEMMA ChunkSettles ==
  ASSUME Reads, codec = "chunked", UNCHANGED <<stage, outSize, streamPos, frameStart, dictLoaded>>,
         pos' \in 0 .. Len(tape'), pos' + avail' <= Len(tape'),
         result' = "error" => ~whole, ChunkInv', EndInv'
  PROVE  PlaceInv'
<1>1. /\ outSize \in Nat /\ outSize > 0 /\ DictInv
      /\ UNCHANGED <<codec, dict, tape, dictDone, closed, whole>>
  BY Setting
<1>2. StageInv' /\ Lz4Inv'  BY <1>1 DEF StageInv, Lz4Inv
<1>3. SoundInv'  BY <1>1 DEF SoundInv, DictInv
<1> QED  BY <1>1, <1>2, <1>3, Settles

LEMMA NewChunkPlace ==
  ASSUME Reads, codec = "chunked", call # "idle", call # "close", NewChunk,
         UNCHANGED <<stage, outSize, streamPos, frameStart, dictLoaded>>
  PROVE  PlaceInv'
<1>0. /\ ReaderTypes /\ InCall /\ ChunkInv /\ SoundInv /\ DictInv
      /\ Len(tape) \in Nat /\ (\A i \in 1 .. Len(tape) : tape[i] \in Cells) /\ ChunkOrder(tape)
      /\ UNCHANGED <<codec, dict, tape, dictDone, closed, whole>>
      /\ pos \in Nat /\ pos \in 0 .. Len(tape) /\ chunkSize \in Nat
  BY Setting DEF Order, StageInv, ReaderTypes
<1>1. chunkRead = chunkSize /\ UNCHANGED <<buf, bufPos, chunkRead>>  BY DEF NewChunk, outVars
<1>2. /\ chunkSize = 0 /\ chunkRead = 0 /\ (pos > 0 => tape[pos].kind = "crlf")
      /\ bufPos = Len(buf)
  BY <1>0, <1>1 DEF ChunkInv, InCall
<1>3. pos < Len(tape) => Is("size", pos + 1)
  <2>1. SUFFICES ASSUME pos < Len(tape) PROVE Is("size", pos + 1)  OBVIOUS
  <2>2. pos + 1 \in 1 .. Len(tape)  BY <1>0, <2>1
  <2>3. CASE pos = 0
    <3>1. tape[1].kind = "size" /\ pos + 1 = 1  BY <1>0, <2>1, <2>3 DEF ChunkOrder
    <3> QED  BY <2>2, <3>1 DEF Is
  <2>4. CASE pos # 0
    <3>1. pos \in 1 .. Len(tape) - 1 /\ pos > 0  BY <1>0, <2>1, <2>4
    <3>2. tape[pos + 1].kind = "size"  BY <1>0, <1>2, <3>1 DEF ChunkOrder
    <3> QED  BY <2>2, <3>2 DEF Is
  <2> QED  BY <2>3, <2>4
<1>4. PICK input \in Inputs :
        IF input = 0 \/ ~Is("size", pos + 1)
          THEN /\ Take(input, 0)
               /\ Return(IF input = 0 THEN "end" ELSE "error")
               /\ UNCHANGED chunkSize
          ELSE /\ Take(input, 1)
               /\ chunkSize' = tape[pos + 1].n
               /\ Continue(IF tape[pos + 1].n = 0 THEN "close" ELSE "decode")
  BY DEF NewChunk
<1>5. input \in Nat /\ pos + input <= Len(tape) /\ (input = 0 <=> pos = Len(tape))  BY InputsFit
<1>6. whole => result # "error"  BY <1>0 DEF SoundInv, DictInv
<1>7. CASE input = 0
  <2>1. Take(input, 0) /\ call' = "idle" /\ result' = "end" /\ chunkSize' = chunkSize
    BY <1>4, <1>7 DEF Return
  <2>2. 0 \in 0 .. input /\ pos + 0 = pos  BY <1>0, <1>5
  <2>3. pos' = pos /\ pos' \in 0 .. Len(tape') /\ pos' + avail' <= Len(tape')
    BY <2>1, <2>2, Moves
  <2>4. ChunkInv'  BY <1>0, <1>1, <1>2, <2>1, <2>3 DEF ChunkInv
  <2>5. pos' = Len(tape')  BY <1>0, <1>5, <1>7, <2>3
  <2>6. EndInv'  BY <1>0, <1>1, <1>2, <2>5 DEF EndInv
  <2> QED  BY <2>1, <2>3, <2>4, <2>6, ChunkSettles
<1>8. CASE input # 0
  <2>0. pos < Len(tape) /\ 1 \in 0 .. input /\ pos + 1 \in 1 .. Len(tape) /\ pos + 1 - 0 = pos + 1
    BY <1>0, <1>5, <1>8
  <2> DEFINE n == tape[pos + 1].n
  <2>1. tape[pos + 1] \in Cells /\ tape[pos + 1].kind = "size"  BY <1>0, <1>3, <2>0 DEF Is
  <2>2. n \in Nat /\ tape[pos + 1] = ACell("size", n)  BY <2>1 DEF Cells, ACell
  <2>3. /\ Take(input, 1) /\ chunkSize' = n /\ call' = (IF n = 0 THEN "close" ELSE "decode")
        /\ result' = result
    BY <1>3, <1>4, <1>8, <2>0 DEF Continue
  <2> HIDE DEF n
  <2>4. pos' = pos + 1 /\ pos' \in 0 .. Len(tape') /\ pos' + avail' <= Len(tape')
    BY <2>0, <2>3, Moves
  <2>5. OfChunk'
    <3>1. pos' - chunkRead' = pos + 1  BY <1>1, <1>2, <2>0, <2>4
    <3> QED  BY <1>0, <2>0, <2>2, <2>3, <3>1 DEF OfChunk
  <2>6. ChunkInv'
    <3>1. chunkRead' = 0 /\ bufPos' = Len(buf') /\ call' # "idle"  BY <1>1, <1>2, <2>3
    <3>2. CASE n = 0  BY <2>3, <2>5, <3>1, <3>2 DEF ChunkInv
    <3>3. CASE n # 0
      <4>1. chunkSize' # 0 /\ chunkRead' < chunkSize' /\ call' # "close"  BY <2>2, <2>3, <3>1, <3>3
      <4> QED  BY <2>5, <3>1, <4>1 DEF ChunkInv
    <3> QED  BY <3>2, <3>3
  <2>7. EndInv'  BY <2>3 DEF EndInv
  <2> QED  BY <1>6, <2>3, <2>4, <2>6, <2>7, ChunkSettles
<1> QED  BY <1>7, <1>8

LEMMA WithinChunkPlace ==
  ASSUME Reads, codec = "chunked", call # "idle", call # "close", WithinChunk,
         UNCHANGED <<stage, outSize, streamPos, frameStart, dictLoaded>>
  PROVE  PlaceInv'
<1>0. /\ ReaderTypes /\ ChunkInv /\ SoundInv /\ DictInv
      /\ Len(tape) \in Nat
      /\ UNCHANGED <<codec, dict, tape, dictDone, closed, whole>>
      /\ pos \in Nat /\ pos \in 0 .. Len(tape) /\ chunkSize \in Nat /\ chunkRead \in Nat
  BY Setting DEF StageInv, ReaderTypes
<1>1. chunkRead < chunkSize /\ chunkSize' = chunkSize  BY DEF WithinChunk
<1>2. OfChunk /\ chunkSize # 0  BY <1>0, <1>1 DEF ChunkInv
<1>3. /\ pos < Len(tape) => Is("data", pos + 1)
      /\ whole => pos < Len(tape)
  BY <1>0, <1>1, <1>2, ChunkStands
<1>4. PICK input \in Inputs :
        LET n == Least(input, chunkSize - chunkRead)
        IN  /\ Take(input, n)
            /\ chunkRead' = chunkRead + n
            /\ IF n = 0
                 THEN Return("error") /\ UNCHANGED outVars
                 ELSE /\ buf' = DataIn(pos, n) /\ bufPos' = 0
                      /\ IF chunkRead + n = chunkSize THEN Continue("close") ELSE Return("data")
  BY DEF WithinChunk
<1>5. input \in Nat /\ pos + input <= Len(tape) /\ (input = 0 <=> pos = Len(tape))  BY InputsFit
<1>6. whole => result # "error"  BY <1>0 DEF SoundInv, DictInv
<1> DEFINE n == Least(input, chunkSize - chunkRead)
<1>7. /\ Take(input, n) /\ chunkRead' = chunkRead + n
      /\ IF n = 0
           THEN Return("error") /\ UNCHANGED outVars
           ELSE /\ buf' = DataIn(pos, n) /\ bufPos' = 0
                /\ IF chunkRead + n = chunkSize THEN Continue("close") ELSE Return("data")
  BY <1>4
<1>8. n \in 0 .. input /\ n \in Nat /\ chunkRead + n <= chunkSize /\ (n = 0 => input = 0)
  BY <1>0, <1>1, <1>5 DEF Least
<1> HIDE DEF n
<1>9. pos' = pos + n /\ pos' \in 0 .. Len(tape') /\ pos' + avail' <= Len(tape')
  BY <1>7, <1>8, Moves
<1>10. CASE n = 0
  <2>1. call' = "idle" /\ result' = "error" /\ buf' = buf /\ chunkRead' = chunkRead
    BY <1>0, <1>7, <1>10 DEF Return, outVars
  <2>2. ChunkInv'  BY <1>0, <2>1 DEF ChunkInv
  <2>3. ~whole  BY <1>0, <1>3, <1>5, <1>8, <1>10
  <2>4. EndInv'  BY <2>1 DEF EndInv
  <2> QED  BY <1>9, <2>2, <2>3, <2>4, ChunkSettles
<1>11. CASE n # 0
  <2>1. /\ buf' = DataIn(pos, n) /\ bufPos' = 0
        /\ \/ chunkRead' = chunkSize' /\ call' = "close" /\ result' = result
           \/ chunkRead' < chunkSize' /\ call' = "idle" /\ result' = "data"
    BY <1>0, <1>1, <1>7, <1>8, <1>11 DEF Continue, Return
  <2>2. buf' # << >>
    <3>1. pos < Len(tape) /\ n >= 1  BY <1>0, <1>5, <1>8, <1>11
    <3>2. Is("data", pos + 1)  BY <1>3, <3>1
    <3>3. /\ CountIn(tape, pos + 1) = CountIn(tape, pos) + 1
          /\ CountIn(tape, pos + 1) <= CountIn(tape, pos + n)
          /\ CountIn(tape, pos) \in Nat /\ CountIn(tape, pos + n) \in Nat
      <4>1. CountIn(tape, pos + 1) = CountIn(tape, pos) + 1  BY <1>0, <3>2, CountStep DEF Is
      <4>2. pos + 1 \in Nat /\ pos + n \in Nat /\ pos + 1 <= pos + n  BY <1>0, <1>8, <3>1
      <4>3. CountIn(tape, pos + 1) <= CountIn(tape, pos + n)  BY <4>2, CountGrows
      <4> QED  BY <1>0, <4>1, <4>2, <4>3, UnitsFinite
    <3>4. PICK d \in Nat : /\ UnitsBefore(pos + n) = UnitsBefore(pos) + d
                           /\ Len(DataIn(pos, n)) = d
      BY <1>0, <1>8, TakenUnits DEF Reads
    <3>5. CountIn(tape, pos + n) = CountIn(tape, pos) + d
      <4> HIDE DEF CountIn
      <4>1. UnitsBefore(pos + n) = CountIn(tape, pos + n) /\ UnitsBefore(pos) = CountIn(tape, pos)
        BY UnitsBeforeIs
      <4> QED  BY <3>4, <4>1
    <3>6. d # 0  BY <3>3, <3>5
    <3>7. Len(buf') # 0  BY <2>1, <3>4, <3>6
    <3> QED  BY <3>7, NoUnits
  <2>3. OfChunk'
    <3>1. pos' - chunkRead' = pos - chunkRead  BY <1>0, <1>7, <1>8, <1>9
    <3> QED  BY <1>0, <1>1, <1>2, <3>1 DEF OfChunk
  <2>4. ChunkInv'  BY <1>1, <1>2, <2>1, <2>2, <2>3 DEF ChunkInv
  <2>5. EndInv'  BY <2>1 DEF EndInv
  <2>6. result' = "error" => ~whole  BY <1>6, <2>1
  <2> QED  BY <1>9, <2>4, <2>5, <2>6, ChunkSettles
<1> QED  BY <1>10, <1>11

LEMMA CloseChunkPlace ==
  ASSUME Reads, codec = "chunked", call = "close", CloseChunk,
         UNCHANGED <<stage, outSize, streamPos, frameStart, dictLoaded>>
  PROVE  PlaceInv'
<1>0. /\ ReaderTypes /\ ChunkInv /\ SoundInv /\ DictInv
      /\ Len(tape) \in Nat
      /\ UNCHANGED <<codec, dict, tape, dictDone, closed, whole>>
      /\ pos \in Nat /\ pos \in 0 .. Len(tape) /\ chunkSize \in Nat /\ chunkRead \in Nat
  BY Setting DEF StageInv, ReaderTypes
<1>1. chunkRead = chunkSize /\ OfChunk /\ (chunkSize = 0 => bufPos = Len(buf))  BY <1>0 DEF ChunkInv
<1>2. UNCHANGED <<buf, bufPos>>  BY DEF CloseChunk, outVars
<1>3. /\ pos < Len(tape) => Is("crlf", pos + 1)
      /\ whole => pos < Len(tape)
      /\ chunkRead = 0 => pos \in 1 .. Len(tape) /\ tape[pos] = ACell("size", chunkSize)
  BY <1>0, <1>1, ChunkStands
<1>4. PICK input \in Inputs :
        IF Is("crlf", pos + 1)
          THEN /\ Take(input, 1)
               /\ chunkSize' = 0 /\ chunkRead' = 0
               /\ Return(IF chunkSize = 0 THEN "end" ELSE "data")
          ELSE Take(input, 0) /\ UNCHANGED chunkVars /\ Return("error")
  BY DEF CloseChunk
<1>5. CASE Is("crlf", pos + 1)
  <2>1. /\ Take(input, 1) /\ chunkSize' = 0 /\ chunkRead' = 0 /\ call' = "idle"
        /\ result' = IF chunkSize = 0 THEN "end" ELSE "data"
    BY <1>4, <1>5 DEF Return
  <2>2. 1 \in 0 .. input  BY <1>0, <1>5, InputsAre
  <2>3. pos' = pos + 1 /\ pos' \in 0 .. Len(tape') /\ pos' + avail' <= Len(tape')
    BY <2>1, <2>2, Moves
  <2>4. ChunkInv'
    <3>1. tape'[pos'].kind = "crlf"  BY <1>0, <1>5, <2>3 DEF Is
    <3> QED  BY <2>1, <3>1 DEF ChunkInv
  <2>5. EndInv'
    <3>1. SUFFICES ASSUME chunkSize = 0 PROVE bufPos' = Len(buf') /\ Begins(pos)'
      BY <1>0, <2>1 DEF EndInv
    <3>2. bufPos' = Len(buf')  BY <1>1, <1>2, <3>1
    <3>3. pos' - 1 = pos /\ tape'[pos] = ACell("size", 0)  BY <1>0, <1>1, <1>3, <2>3, <3>1
    <3>4. Is("crlf", pos)'  BY <1>0, <1>5, <2>3 DEF Is
    <3>5. Begins(pos)'  BY <1>0, <3>3, <3>4 DEF Begins
    <3> QED  BY <3>2, <3>5
  <2> QED  BY <2>1, <2>3, <2>4, <2>5, ChunkSettles
<1>6. CASE ~Is("crlf", pos + 1)
  <2>1. Take(input, 0) /\ chunkRead' = chunkRead /\ call' = "idle" /\ result' = "error"
    BY <1>4, <1>6 DEF Return, chunkVars
  <2>2. input \in Nat /\ 0 \in 0 .. input  BY InputsFit
  <2>3. pos' \in 0 .. Len(tape') /\ pos' + avail' <= Len(tape')
    BY <2>1, <2>2, Moves
  <2>4. ChunkInv'  BY <1>0, <1>2, <2>1 DEF ChunkInv
  <2>5. EndInv'  BY <2>1 DEF EndInv
  <2>6. ~whole  BY <1>3, <1>6
  <2> QED  BY <2>3, <2>4, <2>5, <2>6, ChunkSettles
<1> QED  BY <1>5, <1>6

LEMMA TurnPlace ==
  ASSUME Reads, Turn
  PROVE  PlaceInv'
<1>0. call # "idle" /\ codec \in Formats /\ StageInv
  BY Setting DEF Turn, Reads, WriterInv
<1>1. CASE codec = "gzip"
  <2>1. GzipTurn  BY <1>1 DEF Turn
  <2> QED  BY <1>0, <1>1, <2>1, GzipPlace
<1>2. CASE codec = "zstd"
  <2>1. IF call = "begin" THEN LoadDict ELSE ZstdTurn \/ ZstdNext  BY <1>2 DEF Turn
  <2> QED  BY <1>0, <1>2, <2>1, LoadDictPlace, ZstdTurnPlace, ZstdEndPlace
<1>3. CASE codec = "lz4"
  <2>1. Lz4Turn  BY <1>3 DEF Turn
  <2> QED  BY <1>0, <1>3, <2>1, Lz4Place
<1>4. CASE codec = "brotli"
  <2>1. ZstdTurn \/ StopsAtEnd  BY <1>4 DEF Turn, BrotliTurn
  <2>2. call # "begin"  BY <1>0, <1>4 DEF StageInv
  <2> QED  BY <1>0, <1>4, <2>1, <2>2, ZstdTurnPlace, ZstdEndPlace
<1>5. CASE codec = "chunked"
  <2>1. ChunkedTurn  BY <1>5 DEF Turn
  <2>2. UNCHANGED <<stage, outSize, streamPos, frameStart, dictLoaded>>
    BY <2>1 DEF ChunkedTurn, gzipVars
  <2>3. IF call = "close" THEN CloseChunk ELSE NewChunk \/ WithinChunk  BY <2>1 DEF ChunkedTurn
  <2> QED  BY <1>0, <1>5, <2>2, <2>3, CloseChunkPlace, NewChunkPlace, WithinChunkPlace
<1> QED  BY <1>0, <1>1, <1>2, <1>3, <1>4, <1>5 DEF Formats

LEMMA TakeUnitsPlace ==
  ASSUME Reads, call = "idle", NEW n \in Nat, n > 0, n <= Len(Unread), TakeUnits(n)
  PROVE  PlaceInv'
<1>0. /\ ReaderTypes /\ StageInv /\ ChunkInv /\ SoundInv /\ Lz4Inv /\ EndInv
      /\ outSize \in Nat /\ outSize > 0
      /\ UNCHANGED <<codec, dict, tape, dictDone, closed, whole>>
      /\ Follows(buf, bufPos, expect, UnitsBefore(pos))
  BY Setting DEF Reads, ReaderInv
<1>1. /\ UNCHANGED <<pos, avail, stage, buf, outSize, frameStart, dictLoaded, chunkSize, chunkRead,
                     call, result>>
      /\ streamPos' = streamPos + n
  BY DEF TakeUnits, inVars, gzipVars, chunkVars
<1>2. Len(buf) \in Nat /\ bufPos \in Nat /\ Len(buf) > bufPos
  <2>1. Len(Unread) = Len(buf) - bufPos /\ bufPos \in 0 .. Len(buf) /\ Len(buf) \in Nat
    BY <1>0, FollowsInOrder DEF Unread, Follows
  <2> QED  BY <2>1
<1>3. StageInv'  BY <1>0, <1>1 DEF StageInv, InMember
<1>4. ChunkInv'  BY <1>0, <1>1 DEF ChunkInv, OfChunk
<1>5. SoundInv'
  <2>1. pos # 0
    <3>1. CountIn(tape, 0) = 0  BY CountStep
    <3>2. UnitsBefore(0) = 0  BY <3>1, UnitsBeforeIs
    <3>3. UnitsBefore(pos) # 0  BY <1>0, <1>2 DEF Follows
    <3> QED  BY <3>2, <3>3
  <2> QED  BY <1>0, <1>1, <2>1 DEF SoundInv
<1>6. Lz4Inv'
  <2>1. streamPos' # 0  BY <1>0, <1>1 DEF ReaderTypes
  <2> QED  BY <1>1, <2>1 DEF Lz4Inv
<1>7. EndInv'
  <2>1. result # "end"  BY <1>0, <1>2 DEF EndInv
  <2> QED  BY <1>1, <2>1 DEF EndInv
<1>8. outSize' \in Nat /\ outSize' > 0  BY <1>0, <1>1
<1> QED  BY <1>3, <1>4, <1>5, <1>6, <1>7, <1>8, Settles

(* A seek forgets what the last fill_buf() returned, or gives up.           *)
LEMMA SeekPlace ==
  ASSUME Reads, call = "idle",
         UNCHANGED <<pos, avail, stage, buf, bufPos, outSize, streamPos, frameStart, dictLoaded,
                     chunkSize, chunkRead, call>>,
         result' = result \/ (result # "error" /\ result' = "none")
  PROVE  PlaceInv'
<1>0. /\ StageInv /\ ChunkInv /\ SoundInv /\ Lz4Inv /\ EndInv
      /\ outSize \in Nat /\ outSize > 0
      /\ UNCHANGED <<codec, dict, tape, dictDone, closed, whole>>
  BY Setting
<1>1. (result' = "error" => result = "error") /\ (result = "error" => result' = "error")
      /\ (result' = "end" => result = "end")
  OBVIOUS
<1>2. StageInv'  BY <1>0 DEF StageInv, InMember
<1>3. ChunkInv'  BY <1>0, <1>1 DEF ChunkInv, OfChunk
<1>4. SoundInv'  BY <1>0, <1>1 DEF SoundInv
<1>5. Lz4Inv'  BY <1>0, <1>1 DEF Lz4Inv
<1>6. EndInv'
  <2>1. /\ Ends(pos)' <=> Ends(pos)
        /\ Begins(pos)' <=> Begins(pos)
        /\ EmptyMember' <=> EmptyMember
    BY <1>0 DEF Ends, Is, Begins, EmptyMember
  <2> QED  BY <1>0, <1>1, <2>1 DEF EndInv
<1>7. outSize' \in Nat /\ outSize' > 0  BY <1>0
<1> QED  BY <1>2, <1>3, <1>4, <1>5, <1>6, <1>7, Settles

LEMMA InnerSeekPlace ==
  ASSUME Reads, ~SeeksChunks, NEW p \in 0 .. Len(tape), InnerSeek(p)
  PROVE  PlaceInv'
<1>0. /\ ReaderTypes /\ StageInv /\ ChunkInv /\ SoundInv /\ Lz4Inv /\ EndInv
      /\ outSize \in Nat /\ outSize > 0 /\ Len(tape) \in Nat
      /\ UNCHANGED <<codec, dict, tape, dictDone, closed, whole>>
      /\ pos + avail <= Len(tape) /\ pos \in Nat /\ avail \in Nat
  BY Setting DEF StageInv, ReaderTypes
<1>1. /\ call = "idle" /\ Begins(p) /\ (dict => dictLoaded) /\ (codec = "chunked" => buf = << >>)
      /\ result' = "none" /\ UNCHANGED <<outSize, dictLoaded, chunkRead, call>>
  BY DEF InnerSeek
<1>2. pos' = p /\ (avail' = 0 \/ (avail' = avail /\ p = pos))
  BY DEF InnerSeek, BrotliSeek, SeekTape
<1>3. pos' \in 0 .. Len(tape') /\ pos' + avail' <= Len(tape')  BY <1>0, <1>2
<1>4. codec # "chunked" => stage' = "fresh"
  BY DEF InnerSeek, BrotliSeek, GzipSeek, FrameSeek
<1>5. ASSUME codec # "chunked" PROVE ~InMember(p) /\ p < Len(tape)
  <2>1. Is("head", p + 1)  BY <1>1, <1>5 DEF Begins
  <2>2. p < Len(tape)  BY <1>0, <2>1 DEF Is
  <2>3. ~Is("data", p + 1) /\ ~Is("tail", p + 1)  BY <2>1 DEF Is
  <2> QED  BY <1>5, <2>2, <2>3, EndsOrGoesOn
<1>6. StageInv'
  <2>1. InMember(pos)' <=> InMember(p)  BY <1>0, <1>2 DEF InMember
  <2> QED  BY <1>0, <1>1, <1>3, <1>4, <1>5, <2>1 DEF StageInv
<1>7. ChunkInv'
  <2>1. SUFFICES ASSUME codec = "chunked" PROVE ChunkInv'  BY <1>0 DEF ChunkInv
  <2>2. ChunkedSeek  BY <2>1 DEF InnerSeek
  <2>3. chunkSize' = 0 /\ chunkRead' = 0  BY <1>0, <1>1, <2>1, <2>2 DEF ChunkedSeek, ChunkInv
  <2>4. p > 0 => tape[p].kind = "crlf"  BY <1>1, <2>1 DEF Begins, Is
  <2> QED  BY <1>0, <1>1, <1>2, <2>3, <2>4 DEF ChunkInv
<1>8. SoundInv'
  <2>1. codec \in {"zstd", "brotli"} => pos' < Len(tape')  BY <1>0, <1>2, <1>5
  <2> QED  BY <1>0, <1>1, <2>1 DEF SoundInv
<1>9. Lz4Inv'  BY <1>0, <1>1, <1>4 DEF Lz4Inv
<1>10. EndInv'  BY <1>1 DEF EndInv
<1>11. outSize' \in Nat /\ outSize' > 0  BY <1>0, <1>1
<1> QED  BY <1>6, <1>7, <1>8, <1>9, <1>10, <1>11, Settles

LEMMA ReadingPlace ==
  ASSUME Reads, ~SeeksChunks, ReaderNext
  PROVE  PlaceInv'
<1>1. ASSUME NEW n \in 1 .. MaxUnits, Consume(n) PROVE PlaceInv'
  <2>1. n \in Nat /\ n > 0  BY TapeAssumption
  <2>2. call = "idle" /\ n <= Len(Unread) /\ TakeUnits(n)  BY <1>1 DEF Consume
  <2> QED  BY <2>1, <2>2, TakeUnitsPlace
<1>2. ASSUME NEW n \in 1 .. MaxUnits, Seek(n) PROVE PlaceInv'
  <2>1. /\ call = "idle" /\ result # "error" /\ result' = "none"
        /\ UNCHANGED <<pos, avail, stage, buf, bufPos, outSize, streamPos, frameStart, dictLoaded,
                       chunkSize, chunkRead, call>>
    BY <1>2 DEF Seek, inVars, outVars, gzipVars, chunkVars
  <2> QED  BY <2>1, SeekPlace
<1>3. ASSUME SeekStep PROVE PlaceInv'
  <2>1. CASE result \in {"end", "error"}
    <3>1. /\ call = "idle" /\ result' = result
          /\ UNCHANGED <<pos, avail, stage, buf, bufPos, outSize, streamPos, frameStart, dictLoaded,
                         chunkSize, chunkRead, call>>
      BY <1>3, <2>1 DEF SeekStep, inVars, outVars, gzipVars, chunkVars
    <3> QED  BY <3>1, SeekPlace
  <2>2. CASE result \notin {"end", "error"}
    <3> DEFINE n == Least(Len(Unread), remaining)
    <3>1. call = "idle" /\ n > 0 /\ TakeUnits(n)  BY <1>3, <2>2 DEF SeekStep
    <3>2. Len(Unread) \in Nat /\ remaining \in Nat
      <4>1. /\ Len(SubSeq(buf, bufPos + 1, Len(buf))) = Len(buf) - bufPos
            /\ Len(buf) \in Nat /\ bufPos \in 0 .. Len(buf)
        BY FollowsInOrder DEF Reads, ReaderInv, Follows
      <4>2. remaining \in Nat  BY Setting DEF ReaderTypes
      <4> QED  BY <4>1, <4>2 DEF Unread
    <3>3. n \in Nat /\ n <= Len(Unread)  BY <3>2 DEF Least
    <3> HIDE DEF n
    <3> QED  BY <3>1, <3>3, TakeUnitsPlace
  <2> QED  BY <2>1, <2>2
<1> QED  BY <1>1, <1>2, <1>3, StartFillPlace, TurnPlace, InnerSeekPlace DEF ReaderNext

(* Nothing was read before the tape was finished.                           *)
LEMMA WritingPlace ==
  ASSUME WriterInv', OrderInv', PlaceInv, WriterNext, UNCHANGED readerVars
  PROVE  PlaceInv'
<1>1. ~closed  BY DEF WriterNext, Write, WriteAndEnd, Finish, IntoInner, Cut
<1>2. Unmoved /\ outSize \in Nat /\ outSize > 0  BY <1>1 DEF PlaceInv
<1>3. UNCHANGED <<pos, avail, stage, buf, bufPos, outSize, streamPos, frameStart, chunkSize, chunkRead,
                  call, result>>
  BY DEF readerVars
<1>4. Unmoved'  BY <1>2, <1>3 DEF Unmoved
<1>5. Len(tape') \in Nat
  <2>1. tape' \in Seq(Cells)  BY DEF WriterInv
  <2> QED  BY <2>1
<1>6. StageInv'  BY <1>4, <1>5 DEF Unmoved, StageInv, InMember
<1>7. ChunkInv'  BY <1>4 DEF Unmoved, ChunkInv
<1>8. SoundInv'
  <2>1. whole' /\ codec' \in {"zstd", "brotli"} => Len(tape') > 0  BY DEF OrderInv, LoneInv
  <2> QED  BY <1>4, <1>5, <2>1 DEF Unmoved, SoundInv
<1>9. Lz4Inv' /\ EndInv'  BY <1>4 DEF Unmoved, Lz4Inv, EndInv
<1> QED  BY <1>2, <1>3, <1>4, <1>6, <1>7, <1>8, <1>9 DEF PlaceInv

LEMMA PlaceStays ==
  ASSUME PlaceInv, UNCHANGED vars
  PROVE  PlaceInv'
<1>1. /\ UNCHANGED <<codec, dict, tape, dictDone, closed, whole>>
      /\ UNCHANGED <<pos, avail, stage, buf, bufPos, outSize, streamPos, frameStart, dictLoaded,
                     chunkSize, chunkRead, call, result>>
  BY DEF vars, readerVars, writerVars
<1>2. /\ Ends(pos)' <=> Ends(pos)
      /\ Begins(pos)' <=> Begins(pos)
      /\ EmptyMember' <=> EmptyMember
      /\ InMember(pos)' <=> InMember(pos)
  BY <1>1 DEF Ends, Is, Begins, EmptyMember, InMember
<1>3. StageInv => StageInv'  BY <1>1, <1>2 DEF StageInv
<1>4. ChunkInv => ChunkInv'  BY <1>1 DEF ChunkInv, OfChunk
<1>5. SoundInv => SoundInv'  BY <1>1 DEF SoundInv
<1>6. Lz4Inv => Lz4Inv'  BY <1>1 DEF Lz4Inv
<1>7. EndInv => EndInv'  BY <1>1, <1>2 DEF EndInv
<1>8. Unmoved => Unmoved'  BY <1>1 DEF Unmoved
<1> QED  BY <1>1, <1>3, <1>4, <1>5, <1>6, <1>7, <1>8 DEF PlaceInv

LEMMA OrderStays ==
  ASSUME OrderInv, UNCHANGED <<codec, dict, tape, writerVars>>
  PROVE  OrderInv'
<1>1. UNCHANGED <<tape, codec, dict, dictDone, closed, whole, started>>  BY DEF writerVars
<1> QED  BY <1>1, SameTapeKeeps

LEMMA PlaceStarts == Init => PlaceInv
BY ReaderAssumption DEF Init, ReaderInit, WriterInit, PlaceInv, Unmoved

(* A tape has the form of its format, also where the process was cut off.    *)
THEOREM OrderInvariant == Spec => []OrderInv
<1>1. WriterInv /\ OrderInv /\ [Next]_vars => OrderInv'
  BY OrderStep, OrderStays DEF Next, Writing, Reading, vars
<1> QED  BY <1>1, OrderStarts, WriterInvariant, PTL DEF Spec

(* The state of a decoder fits the place on the tape that it is at, through   *)
(* every fill_buf(), consume(), seek() and inner_seek().                     *)
THEOREM PlaceInvariant == ASSUME ~SeeksChunks PROVE Spec => []PlaceInv
<1>1. ASSUME WriterInv, WriterInv', OrderInv, OrderInv', ReaderInv, PlaceInv, [Next]_vars
      PROVE  PlaceInv'
  <2>1. CASE Writing  BY <1>1, <2>1, WritingPlace DEF Writing
  <2>2. CASE Reading
    <3>1. Reads /\ ReaderNext  BY <1>1, <2>2 DEF Reading, Reads
    <3> QED  BY <3>1, ReadingPlace
  <2>3. CASE UNCHANGED vars  BY <1>1, <2>3, PlaceStays
  <2> QED  BY <1>1, <2>1, <2>2, <2>3 DEF Next
<1> QED  BY <1>1, PlaceStarts, WriterInvariant, OrderInvariant, ReaderInvariant, PTL DEF Spec

(* The readers fail only on what was cut short: no read or seek between        *)
(* members brings a decoder to a place that it cannot decode from.           *)
THEOREM NoErrors == ASSUME ~SeeksChunks PROVE Spec => []ErrorsOnlyIfCut
<1>1. WriterInv /\ PlaceInv => ErrorsOnlyIfCut
  <2>1. SUFFICES ASSUME WriterInv, PlaceInv, result = "error", whole PROVE dict /\ ~dictDone
    BY DEF ErrorsOnlyIfCut
  <2>2. closed  BY <2>1 DEF WriterInv
  <2> QED  BY <2>1, <2>2 DEF PlaceInv, SoundInv
<1> QED  BY <1>1, WriterInvariant, PlaceInvariant, PTL

(* Where a member begins, or the tape ends, the next unit is its first.      *)
LEMMA NextUnitLeads ==
  ASSUME WriterInv, NEW p \in 0 .. Len(tape), p = Len(tape) \/ Begins(p)
  PROVE  Leads(UnitsBefore(p) + 1)
<1> DEFINE e == UnitsBefore(p) + 1
           q == PlaceOf(e)
<1> SUFFICES ASSUME OnTape(e), NEW i \in StartOf(e) + 1 .. q - 1 PROVE ~Is("data", i)
  BY DEF Leads
<1>0. /\ Len(tape) \in Nat /\ p \in Nat /\ Numbered(tape) /\ e = CountIn(tape, p) + 1
      /\ \A j \in Nat : CountIn(tape, j) \in Nat
  <2>1. \A j \in Nat : CountIn(tape, j) \in Nat  BY UnitsFinite
  <2>2. UnitsBefore(p) = CountIn(tape, p)  BY UnitsBeforeIs
  <2>3. Len(tape) \in Nat /\ Numbered(tape)  BY DEF WriterInv
  <2> QED  BY <2>1, <2>2, <2>3
<1> HIDE DEF e
<1>1. q \in 1 .. Len(tape) /\ tape[q] = ACell("data", e)  BY DEF OnTape, PlaceOf
<1>3. StartOf(e) = CHOOSE r \in 0 .. q - 1 : Begins(r) /\ \A j \in r + 1 .. q - 1 : ~Begins(j)
  BY DEF StartOf
<1> HIDE DEF q
<1>4. q \in Nat /\ q >= 1 /\ tape[q].kind = "data" /\ CountIn(tape, q) = e
  <2>1. q \in Nat /\ q >= 1  BY <1>0, <1>1
  <2>2. tape[q].kind = "data" /\ tape[q].n = e  BY <1>1 DEF ACell
  <2>3. tape[q].n = CountIn(tape, q)  BY <1>0, <1>1, <2>2 DEF Numbered
  <2> QED  BY <2>1, <2>2, <2>3
<1>5. p < q
  <2>1. SUFFICES ASSUME q <= p PROVE FALSE  BY <1>0, <1>4
  <2>2. CountIn(tape, q) <= CountIn(tape, p)  BY <1>0, <1>4, <2>1, CountGrows
  <2> QED  BY <1>0, <1>4, <2>2
<1>6. ASSUME NEW j \in p + 1 .. q - 1 PROVE ~Is("data", j)
  <2>1. SUFFICES ASSUME j \in 1 .. Len(tape), tape[j].kind = "data" PROVE FALSE  BY DEF Is
  <2>2. /\ j - 1 \in Nat /\ q - 1 \in Nat /\ j - 1 + 1 = j /\ q - 1 + 1 = q /\ p <= j - 1 /\ j <= q - 1
        /\ j \in Nat
    BY <1>0, <1>4
  <2>3. CountIn(tape, j) = CountIn(tape, j - 1) + 1 /\ CountIn(tape, q) = CountIn(tape, q - 1) + 1
    BY <1>1, <1>4, <2>1, <2>2, CountStep
  <2>4. CountIn(tape, p) <= CountIn(tape, j - 1) /\ CountIn(tape, j) <= CountIn(tape, q - 1)
    BY <1>0, <2>2, CountGrows
  <2>5. /\ CountIn(tape, p) \in Nat /\ CountIn(tape, j - 1) \in Nat /\ CountIn(tape, j) \in Nat
        /\ CountIn(tape, q - 1) \in Nat /\ CountIn(tape, q) \in Nat
    BY <1>0, <1>4, <2>2
  <2> QED  BY <1>0, <1>4, <2>3, <2>4, <2>5, SMTT(30)
<1>7. Begins(p) /\ p \in 0 .. q - 1
  <2>1. p # Len(tape)  BY <1>0, <1>1, <1>5
  <2> QED  BY <1>0, <1>4, <1>5, <2>1
<1>8. \E r \in 0 .. q - 1 : Begins(r) /\ \A j \in r + 1 .. q - 1 : ~Begins(j)
  <2> DEFINE D == {d \in 0 .. q - 1 : Begins(q - 1 - d)}
  <2>1. D \in SUBSET Nat  OBVIOUS
  <2>2. q - 1 - p \in D
    <3>1. q - 1 - p \in 0 .. q - 1 /\ q - 1 - (q - 1 - p) = p  BY <1>0, <1>4, <1>5
    <3> QED  BY <1>7, <3>1
  <2>3. PICK d \in D : \A c \in D : d <= c  BY <2>1, <2>2, LeastNumber
  <2> DEFINE r == q - 1 - d
  <2>4. r \in 0 .. q - 1 /\ Begins(r)  BY <1>4, <2>3
  <2>5. ASSUME NEW j \in r + 1 .. q - 1 PROVE ~Begins(j)
    <3>1. d \in 0 .. q - 1  BY <2>3
    <3>2. q - 1 - j \in 0 .. q - 1 /\ q - 1 - (q - 1 - j) = j /\ q - 1 - j < d
      BY <1>4, <2>4, <3>1
    <3>3. q - 1 - j \notin D
      <4> HIDE DEF D
      <4>1. \A c \in D : c \in Nat  BY <2>1
      <4> QED  BY <2>3, <3>1, <3>2, <4>1
    <3> QED  BY <3>2, <3>3
  <2> QED  BY <2>4, <2>5
<1>9. StartOf(e) \in 0 .. q - 1 /\ \A j \in StartOf(e) + 1 .. q - 1 : ~Begins(j)
  BY <1>3, <1>8
<1>10. p <= StartOf(e)
  <2>1. SUFFICES ASSUME StartOf(e) < p PROVE FALSE  BY <1>0, <1>9
  <2>2. p \in StartOf(e) + 1 .. q - 1  BY <1>0, <1>4, <1>7, <1>9, <2>1
  <2> QED  BY <1>7, <1>9, <2>2
<1>11. i \in p + 1 .. q - 1  BY <1>0, <1>4, <1>9, <1>10
<1> QED  BY <1>6, <1>11

LEMMA EndMeansEnd ==
  ASSUME WriterInv, OrderInv, ReaderInv, PlaceInv
  PROVE  EndOfData
<1> SUFFICES ASSUME result = "end", call = "idle"
             PROVE  /\ Leads(expect)
                    /\ codec \in {"zstd", "lz4", "brotli"} /\ pos > 0 => Ends(pos)
                    /\ codec \in {"zstd", "brotli"} \/ (codec = "lz4" /\ ~EmptyMember) =>
                         expect > AllUnits
  BY DEF EndOfData
<1>1. closed  BY DEF PlaceInv, Unmoved
<1>2. StageInv /\ EndInv  BY <1>1 DEF PlaceInv
<1>3. /\ bufPos = Len(buf) /\ codec \in Formats
      /\ codec = "gzip" => pos = Len(tape) \/ Ends(pos)
      /\ codec \in {"zstd", "brotli"} => pos = Len(tape) /\ Ends(pos)
      /\ codec = "lz4" => (pos > 0 => Ends(pos)) /\ (pos = Len(tape) \/ EmptyMember)
      /\ codec = "chunked" => pos = Len(tape) \/ Begins(pos)
  BY <1>2 DEF EndInv, WriterInv
<1>4. UnitsBefore(pos) \in Nat /\ expect = UnitsBefore(pos) + 1
  BY <1>3, FollowsAll DEF ReaderInv
<1>5. pos \in 0 .. Len(tape) /\ Len(tape) \in Nat  BY <1>2 DEF StageInv, WriterInv
<1>6. pos = Len(tape) \/ Begins(pos)
  <2>1. CASE codec \in {"gzip", "lz4"}
    <3>1. SUFFICES ASSUME pos < Len(tape) PROVE Begins(pos)  BY <1>5
    <3>2. codec # "chunked" /\ (pos > 0 => Ends(pos))  BY <1>3, <2>1, <3>1
    <3>3. ~InMember(pos)
      <4>1. CASE pos > 0  BY <1>5, <3>2, <4>1, MemberGoesOn
      <4>2. CASE pos = 0  BY <4>2 DEF InMember
      <4> QED  BY <1>5, <4>1, <4>2
    <3>4. Is("head", pos + 1)  BY <1>5, <2>1, <3>1, <3>2, <3>3, MemberGoesOn
    <3> QED  BY <3>2, <3>4 DEF Begins
  <2> QED  BY <1>3, <2>1 DEF Formats
<1>7. Leads(expect)  BY <1>4, <1>5, <1>6, NextUnitLeads
<1>8. pos = Len(tape) => expect > AllUnits
  <2>1. SUFFICES ASSUME pos = Len(tape) PROVE expect > AllUnits  OBVIOUS
  <2>2. AllUnits = UnitsBefore(pos)  BY <2>1 DEF AllUnits
  <2> QED  BY <1>4, <2>2
<1>9. codec \in {"zstd", "lz4", "brotli"} /\ pos > 0 => Ends(pos)  BY <1>3
<1>10. codec \in {"zstd", "brotli"} \/ (codec = "lz4" /\ ~EmptyMember) => pos = Len(tape)  BY <1>3
<1> QED  BY <1>7, <1>8, <1>9, <1>10

(* An empty fill_buf() comes only at an end: of the data (Zstandard, Brotli,   *)
(* LZ4 without empty frames), of the member (gzip) or of the body (chunked). *)
THEOREM EndsWithTheData == ASSUME ~SeeksChunks PROVE Spec => []EndOfData
<1>1. WriterInv /\ OrderInv /\ ReaderInv /\ PlaceInv => EndOfData  BY EndMeansEnd
<1> QED  BY <1>1, WriterInvariant, OrderInvariant, ReaderInvariant, PlaceInvariant, PTL

-----------------------------------------------------------------------------
(***************************************************************************)
(* Where its member begins.                                                *)
(***************************************************************************)

(* The cells from s to p are of the member that begins at s.                *)
Spans(s, p) == s \in 0 .. p - 1 /\ Begins(s) /\ \A j \in s + 1 .. p - 1 : ~Begins(j)

(* Where the decoder's member begins.                                       *)
MemberStart == IF codec = "gzip" THEN nextMember ELSE frameStart

StartsKnown == codec \in {"gzip", "zstd", "lz4"} /\ ~(codec = "lz4" /\ EmptyMember)

FromStart ==
  IF stage = "fresh" THEN MemberStart = pos \/ (codec = "lz4" /\ pos = Len(tape))
                     ELSE Spans(MemberStart, pos)

(* The units in the buffer are of one member.                               *)
BufStart ==
  buf # << >> =>
    /\ Spans(frameStart, pos)
    /\ UnitsBefore(frameStart) + Len(buf) <= UnitsBefore(pos)
    /\ codec = "gzip" /\ call # "idle" => frameStart = nextMember

(* A reader at the dictionary has yet to load it.                           *)
DictAhead ==
  pos = 0 /\ Is("dict", 1) =>
    ~dictLoaded /\ streamPos = 0 /\ frameStart = 0 /\ call \in {"idle", "begin"}

StartInv ==
  IF closed THEN StartsKnown => FromStart /\ BufStart /\ DictAhead
            ELSE nextMember = 0 /\ ~dictLoaded

StartsNow == StartInv /\ StartsKnown

LEMMA StartSetting ==
  ASSUME Reads, StartsNow
  PROVE  /\ FromStart /\ BufStart /\ DictAhead
         /\ codec \in {"gzip", "zstd", "lz4"} /\ codec # "chunked" /\ (codec = "lz4" => ~EmptyMember)
         /\ pos \in Nat /\ Len(tape) \in Nat /\ UnitsBefore(pos) \in Nat
         /\ UNCHANGED <<codec, dict, tape>>
         /\ codec # "zstd" => ~Is("dict", 1)
<1>1. closed /\ DictInv /\ UNCHANGED <<codec, dict, tape>> /\ ReaderTypes /\ Len(tape) \in Nat  BY Setting
<1>2. FromStart /\ BufStart /\ DictAhead  BY <1>1 DEF StartsNow, StartInv
<1>3. codec \in {"gzip", "zstd", "lz4"} /\ (codec = "lz4" => ~EmptyMember)  BY DEF StartsNow, StartsKnown
<1>4. codec # "zstd" => ~Is("dict", 1)
  <2>1. Is("dict", 1) => dict  BY <1>1 DEF DictInv, Is
  <2> QED  BY <1>1, <2>1 DEF DictInv
<1>5. UnitsBefore(pos) \in Nat  BY <1>1, UnitsBeforeIs DEF ReaderTypes
<1> QED  BY <1>1, <1>2, <1>3, <1>4, <1>5 DEF ReaderTypes

LEMMA StartSettles ==
  ASSUME Reads, StartInv, StartsKnown => FromStart' /\ BufStart' /\ DictAhead'
  PROVE  StartInv'
<1>1. closed' /\ UNCHANGED <<codec, tape>>  BY Setting
<1>2. StartsKnown' <=> StartsKnown  BY <1>1 DEF StartsKnown, EmptyMember, Is
<1> QED  BY <1>1, <1>2 DEF StartInv

LEMMA SpansNow ==
  ASSUME UNCHANGED <<tape, codec>>
  PROVE  /\ Spans(MemberStart, pos)' <=> Spans(MemberStart', pos')
         /\ Spans(frameStart, pos)' <=> Spans(frameStart', pos')
         /\ UnitsBefore(frameStart)' = UnitsBefore(frameStart')
         /\ UnitsBefore(pos)' = UnitsBefore(pos')
         /\ Is("dict", 1)' <=> Is("dict", 1)
<1>1. Spans(MemberStart, pos)' <=> Spans(MemberStart', pos')  BY DEF Spans, Begins, Is
<1>2. Spans(frameStart, pos)' <=> Spans(frameStart', pos')  BY DEF Spans, Begins, Is
<1>3. UnitsBefore(frameStart)' = UnitsBefore(frameStart') /\ UnitsBefore(pos)' = UnitsBefore(pos')
  BY DEF UnitsBefore, Is
<1>4. Is("dict", 1)' <=> Is("dict", 1)  BY DEF Is
<1> QED  BY <1>1, <1>2, <1>3, <1>4

(* A member goes on until a cell ends it.                                   *)
LEMMA SpanGrows ==
  ASSUME WriterInv, OrderInv, codec # "chunked", NEW p \in 0 .. Len(tape), NEW k \in Nat, k > 0,
         p + k <= Len(tape), NEW s,
         (s = p /\ Is("head", p + 1)) \/ (Spans(s, p) /\ InMember(p)),
         \A i \in p + 1 .. p + k - 1 : ~Ends(i)
  PROVE  Spans(s, p + k)
<1>0. Len(tape) \in Nat /\ p \in Nat  BY DEF WriterInv
<1>1. s \in 0 .. p + k - 1 /\ Begins(s) /\ s \in Nat
  <2>1. CASE s = p /\ Is("head", p + 1)  BY <1>0, <2>1 DEF Begins
  <2>2. CASE Spans(s, p)  BY <1>0, <2>2 DEF Spans
  <2> QED  BY <2>1, <2>2
<1>2. ASSUME NEW j \in s + 1 .. p + k - 1 PROVE ~Begins(j)
  <2>0. j \in Nat /\ j \in 0 .. Len(tape) /\ j > 0 /\ j < Len(tape)  BY <1>0, <1>1
  <2>1. CASE j < p
    <3>1. Spans(s, p)  BY <1>0, <1>1, <2>0, <2>1
    <3>2. j \in s + 1 .. p - 1  BY <1>0, <1>1, <2>0, <2>1
    <3> QED  BY <3>1, <3>2 DEF Spans
  <2>2. CASE j >= p
    <3>1. InMember(j)
      <4>1. CASE j = p
        <5>1. s # p  BY <1>0, <1>1, <4>1
        <5> QED  BY <4>1, <5>1
      <4>2. CASE j > p
        <5>1. j \in p + 1 .. p + k - 1  BY <1>0, <2>0, <4>2
        <5>2. ~Ends(j)  BY <5>1
        <5> QED  BY <2>0, <5>2, MemberGoesOn
      <4> QED  BY <1>0, <2>0, <2>2, <4>1, <4>2
    <3>2. Is("data", j + 1) \/ Is("tail", j + 1)  BY <2>0, <3>1, MemberGoesOn
    <3> QED  BY <3>2 DEF Begins, Is
  <2> QED  BY <1>0, <2>0, <2>1, <2>2
<1> QED  BY <1>1, <1>2 DEF Spans

(* So a decoder that takes cells stays in the member that it is in.         *)
LEMMA MemberSpans ==
  ASSUME Reads, StartsNow, stage # "over", NEW k \in Nat, k > 0, pos + k <= Len(tape),
         codec = "zstd" => call \notin {"idle", "begin"},
         \A i \in pos + 1 .. pos + k - 1 : ~Ends(i)
  PROVE  Spans(MemberStart, pos + k)
<1>1. /\ pos \in Nat /\ pos \in 0 .. Len(tape) /\ Len(tape) \in Nat /\ pos < Len(tape)
      /\ FromStart /\ DictAhead /\ codec # "chunked" /\ (codec # "zstd" => ~Is("dict", 1))
      /\ stage \in {"fresh", "inside"} /\ (stage = "inside" <=> InMember(pos))
  BY Setting, StartSetting DEF StageInv
<1>2. CASE stage = "fresh"
  <2>1. MemberStart = pos  BY <1>1, <1>2 DEF FromStart
  <2>2. Is("head", pos + 1)
    <3>1. Is("head", pos + 1) \/ (pos = 0 /\ Is("dict", pos + 1))
      BY <1>1, <1>2, EndsOrGoesOn
    <3>2. ASSUME pos = 0, Is("dict", pos + 1) PROVE FALSE
      <4>1. Is("dict", 1)  BY <3>2
      <4> QED  BY <1>1, <3>2, <4>1 DEF DictAhead
    <3> QED  BY <3>1, <3>2
  <2>3. Spans(pos, pos + k)
    <3>1. pos = pos /\ Is("head", pos + 1)  BY <2>2
    <3> QED  BY <1>1, <3>1, SpanGrows DEF Reads
  <2> QED  BY <2>1, <2>3
<1>3. CASE stage = "inside"
  <2>1. Spans(MemberStart, pos) /\ InMember(pos)  BY <1>1, <1>3 DEF FromStart
  <2> DEFINE s == MemberStart
  <2>2. Spans(s, pos) /\ InMember(pos)  BY <2>1
  <2> HIDE DEF s
  <2>3. Spans(s, pos + k)  BY <1>1, <2>2, SpanGrows DEF Reads
  <2> QED  BY <2>3 DEF s
<1> QED  BY <1>1, <1>2, <1>3

LEMMA StartOfBuffer ==
  ASSUME Reads, StartsNow, NEW s \in 0 .. pos
  PROVE  UnitsBefore(s) \in Nat /\ UnitsBefore(s) <= UnitsBefore(pos)
<1>1. pos \in Nat /\ s \in Nat /\ s <= pos  BY StartSetting
<1>2. CountIn(tape, s) <= CountIn(tape, pos) /\ CountIn(tape, s) \in Nat  BY <1>1, CountGrows, UnitsFinite
<1> QED  BY <1>2, UnitsBeforeIs

LEMMA StartFillStart ==
  ASSUME Reads, StartInv, StartFill
  PROVE  StartInv'
<1> SUFFICES ASSUME StartsKnown PROVE FromStart' /\ BufStart' /\ DictAhead'
  BY StartSettles
<1>1. StartsNow  BY DEF StartsNow
<1>2. /\ FromStart /\ DictAhead /\ codec # "chunked" /\ (codec # "zstd" => ~Is("dict", 1))
      /\ UNCHANGED <<codec, dict, tape>>
  BY <1>1, StartSetting
<1>3. /\ UNCHANGED <<pos, stage, nextMember, frameStart, streamPos, dictLoaded>>
      /\ codec = "zstd" => call' = "begin"
      /\ buf' = << >>
  BY <1>2 DEF StartFill, inVars, gzipVars
<1>4. FromStart'
  <2>1. Spans(MemberStart, pos)' <=> Spans(MemberStart, pos)  BY <1>2, <1>3 DEF Spans, Begins, Is, MemberStart
  <2> QED  BY <1>2, <1>3, <2>1 DEF FromStart, MemberStart
<1>5. BufStart'  BY <1>3 DEF BufStart
<1>6. DictAhead'
  <2>1. Is("dict", 1)' <=> Is("dict", 1)  BY <1>2, SpansNow
  <2> QED  BY <1>2, <1>3, <2>1 DEF DictAhead
<1> QED  BY <1>4, <1>5, <1>6

LEMMA GzipStart ==
  ASSUME Reads, StartInv, codec = "gzip", call # "idle", GzipTurn
  PROVE  StartInv'
<1> SUFFICES ASSUME StartsKnown PROVE FromStart' /\ BufStart' /\ DictAhead'
  BY StartSettles
<1>0. StartsNow  BY DEF StartsNow
<1>1. /\ FromStart /\ BufStart /\ ~Is("dict", 1) /\ pos \in Nat /\ Len(tape) \in Nat
      /\ UnitsBefore(pos) \in Nat /\ UNCHANGED <<codec, dict, tape>>
  BY <1>0, StartSetting
<1>2. /\ Len(buf) \in Nat /\ Len(buf) <= outSize /\ outSize \in Nat
      /\ stage \in {"fresh", "inside"} /\ ReaderTypes
  BY Setting DEF InCall, Reads, ReaderInv, Follows, StageInv
<1> DEFINE space == outSize - Len(buf)
<1>3. space \in Nat  BY <1>2
<1>4. PICK input \in Inputs :
        LET k == Taken(input, space)
            units == buf \o DataIn(pos, k)
            ended == k > 0 /\ Ends(pos + k)
        IN  /\ Take(input, k)
            /\ frameStart' = IF input > 0 THEN nextMember ELSE frameStart
            /\ buf' = units
            /\ IF k > 0 /\ ~Decodable
                 THEN Return("error")
                 ELSE /\ stage' = IF ended THEN "fresh" ELSE IF k > 0 THEN "inside" ELSE stage
                      /\ nextMember' = IF ended THEN pos + k ELSE nextMember
                      /\ IF ended \/ Len(units) = outSize' \/ k = 0
                           THEN ReturnBuffer(units)
                           ELSE Continue("decode")
  BY DEF GzipTurn
<1> DEFINE k == Taken(input, space)
           ended == k > 0 /\ Ends(pos + k)
<1>5. /\ Take(input, k) /\ buf' = buf \o DataIn(pos, k)
      /\ frameStart' = IF input > 0 THEN nextMember ELSE frameStart
      /\ \/ k > 0 /\ ~Decodable
         \/ /\ stage' = IF ended THEN "fresh" ELSE IF k > 0 THEN "inside" ELSE stage
            /\ nextMember' = IF ended THEN pos + k ELSE nextMember
            /\ ended \/ k = 0 => call' = "idle"
  BY <1>4 DEF ReturnBuffer, Return
<1>6. k \in 0 .. input /\ \A i \in pos + 1 .. pos + k - 1 : ~Ends(i)  BY <1>3, TakesToTheEnd
<1>7. input \in Nat /\ pos + input <= Len(tape) /\ (input = 0 <=> pos = Len(tape))  BY InputsFit
<1> HIDE DEF k, space
<1>8. k \in Nat /\ pos' = pos + k /\ pos + k <= Len(tape)
  BY <1>1, <1>5, <1>6, <1>7, Moves
<1>9. k > 0 => Decodable
  <2>1. k > 0 => pos < Len(tape)  BY <1>1, <1>8
  <2> QED  BY <2>1, FindsWhatItWants
<1>10. /\ stage' = IF ended THEN "fresh" ELSE IF k > 0 THEN "inside" ELSE stage
       /\ nextMember' = IF ended THEN pos + k ELSE nextMember
       /\ ended \/ k = 0 => call' = "idle"
  BY <1>5, <1>9
<1>11. k > 0 => Spans(nextMember, pos + k)
  <2>1. SUFFICES ASSUME k > 0 PROVE Spans(nextMember, pos + k)  OBVIOUS
  <2>2. stage # "over"  BY <1>2
  <2>3. Spans(MemberStart, pos + k)  BY <1>0, <1>6, <1>8, <2>1, <2>2, MemberSpans
  <2> QED  BY <2>3 DEF MemberStart
<1>12. PICK d \in Nat : /\ Len(buf') = Len(buf) + d
                        /\ UnitsBefore(pos + k) = UnitsBefore(pos) + d
  <2>1. PICK d \in Nat : /\ DataIn(pos, k) = UnitsFrom(UnitsBefore(pos), d)
                         /\ UnitsBefore(pos + k) = UnitsBefore(pos) + d
    BY <1>2, <1>8, TakenUnits DEF Reads
  <2>2. Len(buf \o UnitsFrom(UnitsBefore(pos), d)) = Len(buf) + d
    BY FollowsMore DEF Reads, ReaderInv
  <2> QED  BY <1>5, <2>1, <2>2
<1>13. /\ Spans(MemberStart, pos)' <=> Spans(nextMember', pos + k)
       /\ Spans(frameStart, pos)' <=> Spans(frameStart', pos + k)
       /\ UnitsBefore(frameStart)' = UnitsBefore(frameStart')
       /\ UnitsBefore(pos)' = UnitsBefore(pos + k)
       /\ Is("dict", 1)' <=> Is("dict", 1)
  <2>1. MemberStart' = nextMember'  BY <1>1 DEF MemberStart
  <2> QED  BY <1>1, <1>8, <2>1, SpansNow
<1>14. FromStart'
  <2>0. MemberStart' = nextMember' /\ MemberStart = nextMember  BY <1>1 DEF MemberStart
  <2>1. CASE ended  BY <1>8, <1>10, <2>0, <2>1 DEF FromStart
  <2>2. CASE k > 0 /\ ~ended  BY <1>10, <1>11, <1>13, <2>2 DEF FromStart
  <2>3. CASE k = 0
    <3>1. stage' = stage /\ nextMember' = nextMember /\ pos + k = pos  BY <1>1, <1>10, <2>3
    <3> QED  BY <1>1, <1>8, <1>13, <2>0, <3>1 DEF FromStart
  <2> QED  BY <1>8, <2>1, <2>2, <2>3
<1>15. BufStart'
  <2>0. SUFFICES ASSUME buf' # << >>
        PROVE  /\ Spans(frameStart', pos + k)
               /\ UnitsBefore(frameStart') + Len(buf') <= UnitsBefore(pos + k)
               /\ call' # "idle" => frameStart' = nextMember'
    BY <1>13 DEF BufStart
  <2>1. CASE k > 0
    <3>1. input > 0  BY <1>6, <1>7, <2>1
    <3>2. frameStart' = nextMember /\ Spans(nextMember, pos + k)  BY <1>5, <1>11, <2>1, <3>1
    <3>3. UnitsBefore(nextMember) + Len(buf) <= UnitsBefore(pos)
      <4>1. CASE buf = << >>
        <5>1. nextMember \in 0 .. pos
          <6>1. stage = "fresh" => nextMember = pos  BY <1>1 DEF FromStart, MemberStart
          <6>2. stage = "inside" => Spans(nextMember, pos)  BY <1>1 DEF FromStart, MemberStart
          <6> QED  BY <1>1, <1>2, <6>1, <6>2 DEF Spans
        <5>2. UnitsBefore(nextMember) \in Nat /\ UnitsBefore(nextMember) <= UnitsBefore(pos)
          BY <1>0, <5>1, StartOfBuffer
        <5>3. Len(buf) = 0  BY <4>1, NoUnits
        <5> QED  BY <5>2, <5>3
      <4>2. CASE buf # << >>
        <5>1. frameStart = nextMember /\ UnitsBefore(frameStart) + Len(buf) <= UnitsBefore(pos)
          BY <1>1, <4>2 DEF BufStart
        <5> QED  BY <5>1
      <4> QED  BY <4>1, <4>2
    <3>4. UnitsBefore(nextMember) \in Nat
      <4>1. nextMember \in Nat  BY <1>1, <1>8, <3>2 DEF Spans
      <4> QED  BY <4>1, UnitsBeforeIs
    <3>5. UnitsBefore(frameStart') + Len(buf') <= UnitsBefore(pos + k)
      BY <1>1, <1>2, <1>12, <3>2, <3>3, <3>4
    <3>6. call' # "idle" => frameStart' = nextMember'  BY <1>10, <3>2
    <3> QED  BY <3>2, <3>5, <3>6
  <2>2. CASE k = 0
    <3>1. call' = "idle" /\ pos + k = pos /\ d = 0
      <4>1. pos + k = pos  BY <1>1, <2>2
      <4>2. UnitsBefore(pos) = UnitsBefore(pos) + d  BY <1>12, <4>1
      <4> QED  BY <1>1, <1>10, <1>12, <2>2, <4>1, <4>2
    <3>2. Len(buf') = Len(buf)  BY <1>2, <1>12, <3>1
    <3>3. buf # << >>
      <4>1. ASSUME buf = << >> PROVE FALSE
        <5>1. DataIn(pos, k) = UnitsFrom(UnitsBefore(pos), 0)
          <6>1. PICK e \in Nat : /\ DataIn(pos, k) = UnitsFrom(UnitsBefore(pos), e)
                                 /\ UnitsBefore(pos + k) = UnitsBefore(pos) + e
            BY <1>2, <1>8, TakenUnits DEF Reads
          <6>2. e = 0
            <7>1. UnitsBefore(pos) = UnitsBefore(pos) + e  BY <3>1, <6>1
            <7> QED  BY <1>1, <7>1
          <6> QED  BY <6>1, <6>2
        <5>2. DataIn(pos, k) = << >>  BY <5>1, NoUnits
        <5>3. buf' = << >> \o << >>  BY <1>5, <4>1, <5>2
        <5> QED  BY <2>0, <5>3
      <4> QED  BY <4>1
    <3>4. /\ Spans(frameStart, pos) /\ frameStart = nextMember
          /\ UnitsBefore(frameStart) + Len(buf) <= UnitsBefore(pos)
      BY <1>1, <3>3 DEF BufStart
    <3>5. frameStart' = frameStart  BY <1>5, <3>4
    <3> QED  BY <3>1, <3>2, <3>4, <3>5
  <2> QED  BY <1>8, <2>1, <2>2
<1>16. DictAhead'  BY <1>1, <1>13 DEF DictAhead
<1> QED  BY <1>14, <1>15, <1>16

(* The buffer is empty while a decoder that returns at once runs.           *)
LEMMA NothingBuffered ==
  ASSUME Reads, codec \in {"zstd", "lz4"}, call # "idle"
  PROVE  buf = << >>
BY Setting DEF InCall

LEMMA LoadDictStart ==
  ASSUME Reads, StartInv, codec = "zstd", call = "begin", LoadDict
  PROVE  StartInv'
<1> SUFFICES ASSUME StartsKnown PROVE FromStart' /\ BufStart' /\ DictAhead'
  BY StartSettles
<1>0. StartsNow  BY DEF StartsNow
<1>1. /\ FromStart /\ DictAhead /\ pos \in Nat /\ Len(tape) \in Nat
      /\ UNCHANGED <<codec, dict, tape>> /\ buf = << >>
  BY <1>0, StartSetting, NothingBuffered
<1>2. buf' = buf /\ streamPos' = streamPos  BY DEF LoadDict, outVars
<1>3. BufStart'  BY <1>1, <1>2 DEF BufStart
<1>4. CASE Is("dict", pos + 1) /\ streamPos = 0 /\ frameStart = 0 /\ ~dictLoaded
  <2>1. stage' = "fresh" /\ frameStart' = pos + 1 /\ pos' = pos + 1
    BY <1>4 DEF LoadDict, Take
  <2>2. FromStart'  BY <1>1, <2>1 DEF FromStart, MemberStart
  <2>3. DictAhead'  BY <1>1, <2>1 DEF DictAhead
  <2> QED  BY <1>3, <2>2, <2>3
<1>5. CASE ~ (Is("dict", pos + 1) /\ streamPos = 0 /\ frameStart = 0 /\ ~dictLoaded)
  <2>1. UNCHANGED <<dictLoaded, stage, frameStart>>  BY <1>5 DEF LoadDict
  <2>2. pos' = pos  BY <1>1, <1>5 DEF LoadDict, Take
  <2>3. FromStart'
    <3>1. Spans(MemberStart, pos)' <=> Spans(MemberStart, pos)
      BY <1>1, <2>1, <2>2 DEF Spans, Begins, Is, MemberStart
    <3> QED  BY <1>1, <2>1, <2>2, <3>1 DEF FromStart, MemberStart
  <2>4. ~ (pos = 0 /\ Is("dict", 1))
    <3>1. SUFFICES ASSUME pos = 0, Is("dict", 1) PROVE FALSE  OBVIOUS
    <3>2. Is("dict", pos + 1)  BY <3>1
    <3> QED  BY <1>1, <1>5, <3>1, <3>2 DEF DictAhead
  <2>5. DictAhead'
    <3>1. Is("dict", 1)' <=> Is("dict", 1)  BY <1>1, SpansNow
    <3> QED  BY <2>2, <2>4, <3>1 DEF DictAhead
  <2> QED  BY <1>3, <2>3, <2>5
<1> QED  BY <1>4, <1>5

LEMMA ZstdTurnStart ==
  ASSUME Reads, StartInv, codec = "zstd", call \notin {"idle", "begin"}, ZstdTurn
  PROVE  StartInv'
<1> SUFFICES ASSUME StartsKnown PROVE FromStart' /\ BufStart' /\ DictAhead'
  BY StartSettles
<1>0. StartsNow  BY DEF StartsNow
<1>1. /\ FromStart /\ DictAhead /\ pos \in Nat /\ Len(tape) \in Nat /\ UnitsBefore(pos) \in Nat
      /\ UNCHANGED <<codec, dict, tape>> /\ buf = << >> /\ ReaderTypes
  BY <1>0, StartSetting, NothingBuffered, Setting
<1>2. frameStart' = frameStart /\ stage # "over"  BY DEF ZstdTurn
<1>3. PICK input \in Inputs :
        LET k == Taken(input, MaxOut)
        IN  IF input = 0 \/ ~Decodable \/ ~HasDict
              THEN Take(input, 0) /\ UNCHANGED <<stage, buf>>
              ELSE /\ Take(input, k)
                   /\ stage' = IF Ends(pos + k) THEN "over" ELSE "inside"
                   /\ buf' = DataIn(pos, k)
  BY DEF ZstdTurn
<1> DEFINE k == Taken(input, MaxOut)
<1>4. input \in Nat /\ pos + input <= Len(tape)  BY InputsFit
<1>5. k \in 0 .. input /\ (input > 0 => k > 0) /\ \A i \in pos + 1 .. pos + k - 1 : ~Ends(i)
  <2>1. MaxOut \in Nat /\ MaxOut > 0  BY ReaderAssumption
  <2> QED  BY <2>1, TakesToTheEnd
<1>6. ~ (pos = 0 /\ Is("dict", 1))  BY <1>1 DEF DictAhead
<1>7. MemberStart = frameStart /\ MemberStart' = frameStart  BY <1>1, <1>2 DEF MemberStart
<1>8. CASE input = 0 \/ ~Decodable \/ ~HasDict
  <2>1. pos' = pos + 0 /\ UNCHANGED <<stage, buf>>  BY <1>3, <1>8 DEF Take
  <2>2. pos' = pos  BY <1>1, <2>1
  <2>3. FromStart'
    <3>1. Spans(MemberStart, pos)' <=> Spans(MemberStart, pos)
      BY <1>1, <1>2, <2>2 DEF Spans, Begins, Is, MemberStart
    <3> QED  BY <1>1, <1>7, <2>1, <2>2, <3>1 DEF FromStart
  <2>4. BufStart'  BY <1>1, <2>1 DEF BufStart
  <2>5. DictAhead'
    <3>1. Is("dict", 1)' <=> Is("dict", 1)  BY <1>1, SpansNow
    <3> QED  BY <1>6, <2>2, <3>1 DEF DictAhead
  <2> QED  BY <2>3, <2>4, <2>5
<1>9. CASE ~ (input = 0 \/ ~Decodable \/ ~HasDict)
  <2>1. /\ Take(input, k) /\ stage' = (IF Ends(pos + k) THEN "over" ELSE "inside")
        /\ buf' = DataIn(pos, k)
    BY <1>3, <1>9
  <2>2. k > 0
    <3>1. input > 0  BY <1>4, <1>9
    <3> QED  BY <1>5, <3>1
  <2> HIDE DEF k
  <2>3. k \in Nat /\ pos' = pos + k /\ pos + k <= Len(tape)  BY <1>1, <1>4, <1>5, <2>1, Moves
  <2>4. Spans(frameStart, pos + k)
    <3>1. Spans(MemberStart, pos + k)  BY <1>0, <1>2, <1>5, <2>2, <2>3, MemberSpans
    <3> QED  BY <1>7, <3>1
  <2>5. /\ Spans(MemberStart, pos)' <=> Spans(frameStart, pos + k)
        /\ Spans(frameStart, pos)' <=> Spans(frameStart, pos + k)
        /\ UnitsBefore(frameStart)' = UnitsBefore(frameStart)
        /\ UnitsBefore(pos)' = UnitsBefore(pos + k)
        /\ Is("dict", 1)' <=> Is("dict", 1)
    BY <1>1, <1>2, <1>7, <2>3, SpansNow
  <2>6. FromStart'
    <3>1. stage' # "fresh"  BY <2>1
    <3> QED  BY <2>4, <2>5, <3>1 DEF FromStart
  <2>7. BufStart'
    <3>1. frameStart \in 0 .. pos
      <4>1. CASE stage = "fresh"  BY <1>1, <1>7, <4>1 DEF FromStart
      <4>2. CASE stage # "fresh"
        <5>1. Spans(frameStart, pos)  BY <1>1, <1>7, <4>2 DEF FromStart
        <5> QED  BY <1>1, <5>1 DEF Spans
      <4> QED  BY <4>1, <4>2
    <3>2. UnitsBefore(frameStart) \in Nat /\ UnitsBefore(frameStart) <= UnitsBefore(pos)
      BY <1>0, <3>1, StartOfBuffer
    <3>3. PICK d \in Nat : /\ UnitsBefore(pos + k) = UnitsBefore(pos) + d
                           /\ Len(DataIn(pos, k)) = d
      BY <1>1, <2>3, TakenUnits DEF Reads
    <3>4. UnitsBefore(frameStart) + Len(buf') <= UnitsBefore(pos + k)
      <4>1. Len(buf') = d  BY <2>1, <3>3
      <4> QED  BY <1>1, <3>2, <3>3, <4>1
    <3>5. codec' # "gzip"  BY <1>1
    <3> QED  BY <2>4, <2>5, <3>4, <3>5 DEF BufStart
  <2>8. DictAhead'
    <3>1. pos' # 0  BY <1>1, <2>2, <2>3
    <3> QED  BY <3>1 DEF DictAhead
  <2> QED  BY <2>6, <2>7, <2>8
<1> QED  BY <1>8, <1>9

LEMMA ZstdNextStart ==
  ASSUME Reads, StartInv, codec = "zstd", call \notin {"idle", "begin"}, ZstdNext
  PROVE  StartInv'
<1> SUFFICES ASSUME StartsKnown PROVE FromStart' /\ BufStart' /\ DictAhead'
  BY StartSettles
<1>0. StartsNow  BY DEF StartsNow
<1>1. /\ FromStart /\ DictAhead /\ pos \in Nat /\ Len(tape) \in Nat
      /\ UNCHANGED <<codec, dict, tape>> /\ buf = << >>
  BY <1>0, StartSetting, NothingBuffered
<1>2. buf' = buf /\ stage = "over"  BY DEF ZstdNext, outVars
<1>3. /\ pos' = pos
      /\ \/ stage' = stage /\ frameStart' = frameStart
         \/ stage' = "fresh" /\ frameStart' = pos
  BY <1>1 DEF ZstdNext, Take
<1>4. FromStart'
  <2>1. CASE stage' = stage /\ frameStart' = frameStart
    <3>1. Spans(MemberStart, pos)' <=> Spans(MemberStart, pos)
      BY <1>1, <1>3, <2>1 DEF Spans, Begins, Is, MemberStart
    <3> QED  BY <1>1, <1>2, <2>1, <3>1 DEF FromStart
  <2>2. CASE stage' = "fresh" /\ frameStart' = pos
    BY <1>1, <1>3, <2>2 DEF FromStart, MemberStart
  <2> QED  BY <1>3, <2>1, <2>2
<1>5. BufStart'  BY <1>1, <1>2 DEF BufStart
<1>6. DictAhead'
  <2>1. Is("dict", 1)' <=> Is("dict", 1)  BY <1>1, SpansNow
  <2> QED  BY <1>1, <1>3, <2>1 DEF DictAhead
<1> QED  BY <1>4, <1>5, <1>6

LEMMA Lz4Start ==
  ASSUME Reads, StartInv, codec = "lz4", call # "idle", Lz4Turn
  PROVE  StartInv'
<1> SUFFICES ASSUME StartsKnown PROVE FromStart' /\ BufStart' /\ DictAhead'
  BY StartSettles
<1>0. StartsNow  BY DEF StartsNow
<1>1. /\ FromStart /\ ~Is("dict", 1) /\ pos \in Nat /\ Len(tape) \in Nat /\ UnitsBefore(pos) \in Nat
      /\ UNCHANGED <<codec, dict, tape>> /\ buf = << >> /\ ~EmptyMember /\ ReaderTypes
      /\ stage \in {"fresh", "inside"} /\ call \in {"begin", "decode"}
  BY <1>0, StartSetting, NothingBuffered, Setting DEF StageInv
<1>2. DictAhead'
  <2>1. Is("dict", 1)' <=> Is("dict", 1)  BY <1>1, SpansNow
  <2> QED  BY <1>1, <2>1 DEF DictAhead
<1>3. PICK input \in Inputs :
        /\ Take(input, IF input > 0 /\ Decodable THEN 1 ELSE 0)
        /\ IF input = 0 THEN Lz4TapeEnd
           ELSE IF ~Decodable THEN UNCHANGED <<stage, frameStart, buf>>
           ELSE IF Is("tail", pos + 1) THEN Lz4FrameEnd
           ELSE stage' = "inside" /\ buf' = DataIn(pos, 1) /\ frameStart' = frameStart
  BY DEF Lz4Turn
<1>4. input \in Nat /\ pos + input <= Len(tape) /\ (input = 0 <=> pos = Len(tape))  BY InputsFit
<1>5. CASE input = 0 \/ ~Decodable
  <2>1. UNCHANGED <<stage, frameStart, buf>>  BY <1>3, <1>5 DEF Lz4TapeEnd
  <2>2. pos' = pos  BY <1>1, <1>3, <1>4, <1>5 DEF Take
  <2>3. Spans(MemberStart, pos)' <=> Spans(MemberStart, pos)
    BY <1>1, <2>1, <2>2 DEF Spans, Begins, Is, MemberStart
  <2>4. FromStart'  BY <1>1, <2>1, <2>2, <2>3 DEF FromStart, MemberStart
  <2>5. BufStart'  BY <1>1, <2>1 DEF BufStart
  <2> QED  BY <1>2, <2>4, <2>5
<1>6. CASE input > 0 /\ Decodable
  <2>1. /\ Take(input, 1)
        /\ \/ Is("tail", pos + 1) /\ Lz4FrameEnd
           \/ ~Is("tail", pos + 1) /\ stage' = "inside" /\ buf' = DataIn(pos, 1) /\ frameStart' = frameStart
    BY <1>3, <1>4, <1>6
  <2>2. pos' = pos + 1 /\ pos + 1 <= Len(tape)  BY <1>1, <1>4, <1>6, <2>1 DEF Take
  <2>3. CASE Is("tail", pos + 1) /\ Lz4FrameEnd
    <3>1. stage = "inside"
      <4>1. ~Is("head", pos + 1)  BY <2>3 DEF Is
      <4>2. codec # "zstd"  OBVIOUS
      <4> QED  BY <1>6, <4>1, <4>2 DEF Decodable
    <3>2. call = "begin"
      <4>1. call = "decode" => EmptyMember  BY <2>3, <3>1, EndsEmptyFrame
      <4> QED  BY <1>1, <4>1
    <3>3. /\ stage' = "fresh" /\ buf' = buf
          /\ frameStart' = IF pos + 1 < Len(tape) THEN pos + 1 ELSE frameStart
      BY <2>3, <3>2 DEF Lz4FrameEnd
    <3>4. frameStart' = pos' \/ pos' = Len(tape')
      <4>1. tape' = tape  BY <1>1
      <4>2. CASE pos + 1 < Len(tape)
        <5>1. frameStart' = pos + 1  BY <3>3, <4>2
        <5> QED  BY <2>2, <5>1
      <4>3. CASE ~ (pos + 1 < Len(tape))
        <5>1. pos + 1 = Len(tape)  BY <1>1, <2>2, <4>3
        <5> QED  BY <2>2, <4>1, <5>1
      <4> QED  BY <4>2, <4>3
    <3>5. FromStart'  BY <1>1, <3>3, <3>4 DEF FromStart, MemberStart
    <3>6. BufStart'  BY <1>1, <3>3 DEF BufStart
    <3> QED  BY <1>2, <3>5, <3>6
  <2>4. CASE ~Is("tail", pos + 1) /\ stage' = "inside" /\ buf' = DataIn(pos, 1) /\ frameStart' = frameStart
    <3>0. MemberStart = frameStart /\ MemberStart' = frameStart  BY <1>1, <2>4 DEF MemberStart
    <3>1. Spans(frameStart, pos + 1)
      <4>1. \A i \in pos + 1 .. pos + 1 - 1 : ~Ends(i)
        <5>1. \A i \in pos + 1 .. pos + 1 - 1 : FALSE  BY <1>1
        <5> QED  BY <5>1
      <4>2. stage # "over" /\ 1 \in Nat /\ 1 > 0 /\ codec # "zstd"  BY <1>1
      <4>3. Spans(MemberStart, pos + 1)  BY <1>0, <2>2, <4>1, <4>2, MemberSpans
      <4> QED  BY <3>0, <4>3
    <3>2. /\ Spans(MemberStart, pos)' <=> Spans(frameStart, pos + 1)
          /\ Spans(frameStart, pos)' <=> Spans(frameStart, pos + 1)
          /\ UnitsBefore(frameStart)' = UnitsBefore(frameStart)
          /\ UnitsBefore(pos)' = UnitsBefore(pos + 1)
      BY <1>1, <2>2, <2>4, <3>0, SpansNow
    <3>3. FromStart'  BY <2>4, <3>1, <3>2 DEF FromStart
    <3>4. frameStart \in 0 .. pos  BY <1>1, <3>1 DEF Spans
    <3>5. UnitsBefore(frameStart) \in Nat /\ UnitsBefore(frameStart) <= UnitsBefore(pos)
      BY <1>0, <3>4, StartOfBuffer
    <3>6. PICK d \in Nat : /\ UnitsBefore(pos + 1) = UnitsBefore(pos) + d
                           /\ Len(DataIn(pos, 1)) = d
      BY <1>1, TakenUnits DEF Reads
    <3>7. UnitsBefore(frameStart) + Len(buf') <= UnitsBefore(pos + 1)
      <4>1. Len(buf') = d  BY <2>4, <3>6
      <4> QED  BY <1>1, <3>5, <3>6, <4>1
    <3>8. codec' # "gzip"  BY <1>1
    <3>9. BufStart'  BY <3>1, <3>2, <3>7, <3>8 DEF BufStart
    <3> QED  BY <1>2, <3>3, <3>9
  <2> QED  BY <2>1, <2>3, <2>4
<1> QED  BY <1>4, <1>5, <1>6

LEMMA TurnStart ==
  ASSUME Reads, StartInv, Turn
  PROVE  StartInv'
<1>0. call # "idle"  BY DEF Turn
<1>1. CASE codec = "gzip"
  <2>1. GzipTurn  BY <1>1 DEF Turn
  <2> QED  BY <1>0, <1>1, <2>1, GzipStart
<1>2. CASE codec = "zstd"
  <2>1. IF call = "begin" THEN LoadDict ELSE ZstdTurn \/ ZstdNext  BY <1>2 DEF Turn
  <2> QED  BY <1>0, <1>2, <2>1, LoadDictStart, ZstdTurnStart, ZstdNextStart
<1>3. CASE codec = "lz4"
  <2>1. Lz4Turn  BY <1>3 DEF Turn
  <2> QED  BY <1>0, <1>3, <2>1, Lz4Start
<1>4. CASE codec \notin {"gzip", "zstd", "lz4"}
  <2>1. ~StartsKnown  BY <1>4 DEF StartsKnown
  <2> QED  BY <2>1, StartSettles
<1> QED  BY <1>1, <1>2, <1>3, <1>4

(* Nothing but the place in the buffer and what seek() remembers changes.   *)
LEMMA StartKept ==
  ASSUME Reads, StartInv,
         UNCHANGED <<pos, stage, buf, frameStart, nextMember, dictLoaded, call>>,
         pos = 0 => streamPos' = streamPos
  PROVE  StartInv'
<1> SUFFICES ASSUME StartsKnown PROVE FromStart' /\ BufStart' /\ DictAhead'
  BY StartSettles
<1>1. StartsNow  BY DEF StartsNow
<1>2. FromStart /\ BufStart /\ DictAhead /\ UNCHANGED <<codec, tape>>  BY <1>1, StartSetting
<1>3. /\ MemberStart' = MemberStart
      /\ Spans(MemberStart, pos)' <=> Spans(MemberStart, pos)
      /\ Spans(frameStart, pos)' <=> Spans(frameStart, pos)
      /\ UnitsBefore(frameStart)' = UnitsBefore(frameStart)
      /\ UnitsBefore(pos)' = UnitsBefore(pos)
      /\ Is("dict", 1)' <=> Is("dict", 1)
  <2>1. MemberStart' = MemberStart  BY <1>2 DEF MemberStart
  <2> QED  BY <1>2, <2>1, SpansNow
<1>4. FromStart'  BY <1>2, <1>3 DEF FromStart
<1>5. BufStart'  BY <1>2, <1>3 DEF BufStart
<1>6. DictAhead'  BY <1>2, <1>3 DEF DictAhead
<1> QED  BY <1>4, <1>5, <1>6

LEMMA TakeUnitsStart ==
  ASSUME Reads, StartInv, NEW n \in Nat, n > 0, n <= Len(Unread), TakeUnits(n)
  PROVE  StartInv'
<1>1. UNCHANGED <<pos, stage, buf, frameStart, nextMember, dictLoaded, call>>
  BY DEF TakeUnits, inVars, gzipVars
<1>2. Follows(buf, bufPos, expect, UnitsBefore(pos))  BY DEF Reads, ReaderInv
<1>3. Len(buf) \in Nat /\ bufPos \in Nat /\ Len(buf) > bufPos
  <2>1. Len(Unread) = Len(buf) - bufPos /\ bufPos \in 0 .. Len(buf) /\ Len(buf) \in Nat
    BY <1>2, FollowsInOrder DEF Unread, Follows
  <2> QED  BY <2>1
<1>4. pos # 0
  <2>1. CountIn(tape, 0) = 0  BY CountStep
  <2>2. UnitsBefore(0) = 0  BY <2>1, UnitsBeforeIs
  <2>3. UnitsBefore(pos) # 0  BY <1>2, <1>3 DEF Follows
  <2> QED  BY <2>2, <2>3
<1> QED  BY <1>1, <1>4, StartKept

LEMMA InnerSeekStart ==
  ASSUME Reads, StartInv, NEW p \in 0 .. Len(tape), InnerSeek(p)
  PROVE  StartInv'
<1> SUFFICES ASSUME StartsKnown PROVE FromStart' /\ BufStart' /\ DictAhead'
  BY StartSettles
<1>1. codec \in {"gzip", "zstd", "lz4"} /\ UNCHANGED <<codec, tape>>
  BY StartSetting DEF StartsNow
<1>2. Begins(p) /\ pos' = p  BY <1>1 DEF InnerSeek, SeekTape
<1>3. /\ stage' = "fresh" /\ buf' = << >>
      /\ IF codec = "gzip" THEN nextMember' = p ELSE frameStart' = p
  <2>1. CASE codec = "gzip"
    <3>1. GzipSeek(p)  BY <2>1 DEF InnerSeek
    <3> QED  BY <2>1, <3>1 DEF GzipSeek
  <2>2. CASE codec \in {"zstd", "lz4"}
    <3>1. FrameSeek(p)  BY <2>2 DEF InnerSeek
    <3> QED  BY <2>2, <3>1 DEF FrameSeek
  <2> QED  BY <1>1, <2>1, <2>2
<1>4. FromStart'  BY <1>1, <1>2, <1>3 DEF FromStart, MemberStart
<1>5. BufStart'  BY <1>3 DEF BufStart
<1>6. DictAhead'
  <2>1. SUFFICES ASSUME p = 0, Is("dict", 1) PROVE FALSE
    <3>1. Is("dict", 1)' <=> Is("dict", 1)  BY <1>1, SpansNow
    <3> QED  BY <1>2, <3>1 DEF DictAhead
  <2>2. codec # "chunked" /\ Is("head", 1)  BY <1>1, <1>2, <2>1 DEF Begins
  <2> QED  BY <2>1, <2>2 DEF Is
<1> QED  BY <1>4, <1>5, <1>6

LEMMA ReadingStart ==
  ASSUME Reads, StartInv, ReaderNext
  PROVE  StartInv'
<1>1. ASSUME NEW n \in 1 .. MaxUnits, Consume(n) PROVE StartInv'
  <2>1. n \in Nat /\ n > 0  BY TapeAssumption
  <2>2. n <= Len(Unread) /\ TakeUnits(n)  BY <1>1 DEF Consume
  <2> QED  BY <2>1, <2>2, TakeUnitsStart
<1>2. ASSUME NEW n \in 1 .. MaxUnits, Seek(n) PROVE StartInv'
  <2>1. UNCHANGED <<pos, stage, buf, frameStart, nextMember, dictLoaded, call, streamPos>>
    BY <1>2 DEF Seek, inVars, outVars, gzipVars
  <2> QED  BY <2>1, StartKept
<1>3. ASSUME SeekStep PROVE StartInv'
  <2>1. CASE result \in {"end", "error"}
    <3>1. UNCHANGED <<pos, stage, buf, frameStart, nextMember, dictLoaded, call, streamPos>>
      BY <1>3, <2>1 DEF SeekStep, inVars, outVars, gzipVars
    <3> QED  BY <3>1, StartKept
  <2>2. CASE result \notin {"end", "error"}
    <3> DEFINE n == Least(Len(Unread), remaining)
    <3>1. n > 0 /\ TakeUnits(n)  BY <1>3, <2>2 DEF SeekStep
    <3>2. Len(Unread) \in Nat /\ remaining \in Nat
      <4>1. /\ Len(SubSeq(buf, bufPos + 1, Len(buf))) = Len(buf) - bufPos
            /\ Len(buf) \in Nat /\ bufPos \in 0 .. Len(buf)
        BY FollowsInOrder DEF Reads, ReaderInv, Follows
      <4>2. remaining \in Nat  BY Setting DEF ReaderTypes
      <4> QED  BY <4>1, <4>2 DEF Unread
    <3>3. n \in Nat /\ n <= Len(Unread)  BY <3>2 DEF Least
    <3> HIDE DEF n
    <3> QED  BY <3>1, <3>3, TakeUnitsStart
  <2> QED  BY <2>1, <2>2
<1> QED  BY <1>1, <1>2, <1>3, StartFillStart, TurnStart, InnerSeekStart DEF ReaderNext

LEMMA WritingStart ==
  ASSUME PlaceInv, StartInv, WriterNext, UNCHANGED readerVars
  PROVE  StartInv'
<1>1. ~closed  BY DEF WriterNext, Write, WriteAndEnd, Finish, IntoInner, Cut
<1>2. Unmoved /\ nextMember = 0 /\ ~dictLoaded  BY <1>1 DEF PlaceInv, StartInv
<1>3. UNCHANGED <<pos, stage, buf, streamPos, frameStart, nextMember, dictLoaded, call>>
  BY DEF readerVars
<1>4. /\ pos' = 0 /\ stage' = "fresh" /\ buf' = << >> /\ streamPos' = 0 /\ frameStart' = 0
      /\ nextMember' = 0 /\ ~dictLoaded' /\ call' = "idle"
  BY <1>2, <1>3 DEF Unmoved
<1>5. FromStart' /\ BufStart' /\ DictAhead'
  BY <1>4 DEF FromStart, MemberStart, BufStart, DictAhead
<1> QED  BY <1>4, <1>5 DEF StartInv

LEMMA StartStays ==
  ASSUME StartInv, UNCHANGED vars
  PROVE  StartInv'
<1>1. UNCHANGED <<codec, tape, closed, pos, stage, buf, streamPos, frameStart, nextMember,
                  dictLoaded, call>>
  BY DEF vars, readerVars, writerVars
<1>2. /\ MemberStart' = MemberStart
      /\ Spans(MemberStart, pos)' <=> Spans(MemberStart, pos)
      /\ Spans(frameStart, pos)' <=> Spans(frameStart, pos)
      /\ UnitsBefore(frameStart)' = UnitsBefore(frameStart)
      /\ UnitsBefore(pos)' = UnitsBefore(pos)
      /\ Is("dict", 1)' <=> Is("dict", 1)
  <2>1. MemberStart' = MemberStart  BY <1>1 DEF MemberStart
  <2> QED  BY <1>1, <2>1, SpansNow
<1>3. FromStart => FromStart'  BY <1>1, <1>2 DEF FromStart
<1>4. BufStart => BufStart'  BY <1>1, <1>2 DEF BufStart
<1>5. DictAhead => DictAhead'  BY <1>1, <1>2 DEF DictAhead
<1>6. StartsKnown' <=> StartsKnown  BY <1>1 DEF StartsKnown, EmptyMember, Is
<1> QED  BY <1>1, <1>3, <1>4, <1>5, <1>6 DEF StartInv

LEMMA StartStarts == Init => StartInv
BY DEF Init, ReaderInit, WriterInit, StartInv

(* A decoder's member begins where the reader remembers, and the units in     *)
(* its buffer are of the member that it reports.                             *)
THEOREM StartInvariant == ASSUME ~SeeksChunks PROVE Spec => []StartInv
<1>1. ASSUME WriterInv, OrderInv, ReaderInv, PlaceInv, StartInv, [Next]_vars
      PROVE  StartInv'
  <2>1. CASE Writing  BY <1>1, <2>1, WritingStart DEF Writing
  <2>2. CASE Reading
    <3>1. Reads /\ ReaderNext  BY <1>1, <2>2 DEF Reading, Reads
    <3> QED  BY <1>1, <3>1, ReadingStart
  <2>3. CASE UNCHANGED vars  BY <1>1, <2>3, StartStays
  <2> QED  BY <1>1, <2>1, <2>2, <2>3 DEF Next
<1> QED  BY <1>1, StartStarts, WriterInvariant, OrderInvariant, ReaderInvariant, PlaceInvariant,
            PTL DEF Spec

(* A unit is in one place of the tape, and its member begins in one.        *)
LEMMA UnitIsAt ==
  ASSUME WriterInv, NEW q \in 1 .. Len(tape), tape[q].kind = "data"
  PROVE  PlaceOf(CountIn(tape, q)) = q
<1> DEFINE e == CountIn(tape, q)
           r == PlaceOf(e)
<1>0. /\ Len(tape) \in Nat /\ Numbered(tape) /\ q \in Nat /\ q > 0
      /\ \A i \in 1 .. Len(tape) : tape[i] \in Cells
  <2>1. tape \in Seq(Cells) /\ Numbered(tape)  BY DEF WriterInv
  <2> QED  BY <2>1
<1>1. tape[q] = ACell("data", e)
  <2>1. tape[q].n = e /\ tape[q] \in Cells  BY <1>0 DEF Numbered
  <2> QED  BY <2>1 DEF Cells, ACell
<1>2. r \in 1 .. Len(tape) /\ tape[r] = ACell("data", e)  BY <1>1 DEF PlaceOf
<1> HIDE DEF r
<1>3. CountIn(tape, r) = e /\ r \in Nat /\ r > 0 /\ tape[r].kind = "data"
  <2>1. tape[r].kind = "data" /\ tape[r].n = e  BY <1>2 DEF ACell
  <2> QED  BY <1>0, <1>2, <2>1 DEF Numbered
<1> HIDE DEF e
<1>4. ASSUME NEW a \in 1 .. Len(tape), NEW b \in 1 .. Len(tape), a < b, tape[b].kind = "data"
      PROVE  CountIn(tape, a) # CountIn(tape, b)
  <2>1. a \in Nat /\ b - 1 \in Nat /\ b - 1 + 1 = b /\ a <= b - 1  BY <1>0, <1>4
  <2>2. CountIn(tape, b) = CountIn(tape, b - 1) + 1  BY <1>4, <2>1, CountStep
  <2>3. CountIn(tape, a) <= CountIn(tape, b - 1)  BY <2>1, CountGrows
  <2>4. CountIn(tape, a) \in Nat /\ CountIn(tape, b - 1) \in Nat  BY <2>1, UnitsFinite
  <2> QED  BY <2>2, <2>3, <2>4
<1>5. CountIn(tape, q) = e  BY DEF e
<1>6. ~ (r < q) /\ ~ (q < r)  BY <1>2, <1>3, <1>4, <1>5
<1>7. r = q  BY <1>0, <1>3, <1>6
<1> QED  BY <1>7 DEF r, e

LEMMA StartIsAt ==
  ASSUME WriterInv, NEW p \in 0 .. Len(tape), NEW s \in Nat, Spans(s, p),
         NEW e \in UnitsBefore(s) + 1 .. UnitsBefore(p)
  PROVE  StartOf(e) = s
<1>0. Len(tape) \in Nat /\ p \in Nat  BY DEF WriterInv
<1>1. s \in 0 .. p - 1 /\ Begins(s) /\ \A j \in s + 1 .. p - 1 : ~Begins(j)  BY DEF Spans
<1>2. e \in CountIn(tape, s) + 1 .. CountIn(tape, p)  BY UnitsBeforeIs
<1>3. PICK q \in s + 1 .. p : /\ q \in 1 .. Len(tape) /\ tape[q].kind = "data"
                              /\ CountIn(tape, q) = e
  <2>1. s <= p  BY <1>0, <1>1
  <2> QED  BY <1>0, <1>2, <2>1, UnitBetween
<1>4. PlaceOf(e) = q  BY <1>3, UnitIsAt
<1> DEFINE Home(x) == x \in 0 .. q - 1 /\ Begins(x) /\ \A j \in x + 1 .. q - 1 : ~Begins(j)
<1>5. Home(s)  BY <1>0, <1>1, <1>3
<1>6. StartOf(e) = CHOOSE x \in 0 .. q - 1 : Begins(x) /\ \A j \in x + 1 .. q - 1 : ~Begins(j)
  BY <1>4 DEF StartOf
<1>7. Home(StartOf(e))  BY <1>5, <1>6
<1>8. ASSUME NEW x, NEW y, Home(x), Home(y) PROVE ~ (x < y)
  <2>1. x \in Nat /\ y \in Nat /\ y \in 0 .. q - 1  BY <1>3, <1>8
  <2>2. x < y => y \in x + 1 .. q - 1  BY <1>3, <2>1
  <2> QED  BY <1>8, <2>2
<1>9. ~ (s < StartOf(e)) /\ ~ (StartOf(e) < s)  BY <1>5, <1>7, <1>8
<1>10. StartOf(e) \in Nat  BY <1>3, <1>7
<1> QED  BY <1>9, <1>10

LEMMA NextUnitIs ==
  ASSUME ReaderInv, Unread # << >>
  PROVE  Head(Unread) = expect /\ buf # << >>
<1>1. Follows(buf, bufPos, expect, UnitsBefore(pos))  BY DEF ReaderInv
<1>2. /\ buf \in Seq(Nat) /\ bufPos \in 0 .. Len(buf) /\ Len(Unread) = Len(buf) - bufPos
      /\ \A i \in 1 .. Len(buf) - bufPos : buf[bufPos + i] = expect + i - 1
      /\ expect \in Nat
  <2>1. expect \in Nat  BY <1>1 DEF Follows
  <2> QED  BY <1>1, <2>1, FollowsInOrder DEF Unread
<1>3. Unread \in Seq(Nat)  BY <1>2 DEF Unread
<1>4. Len(Unread) > 0  BY <1>3
<1>5. 1 \in 1 .. Len(buf) - bufPos  BY <1>2, <1>4
<1>6. buf[bufPos + 1] = expect  BY <1>2, <1>5
<1>7. Unread[1] = buf[bufPos + 1]  BY <1>2, <1>5 DEF Unread
<1>8. Head(Unread) = Unread[1]  BY <1>3, <1>4
<1>9. buf # << >>
  <2>1. SUFFICES ASSUME buf = << >> PROVE FALSE  OBVIOUS
  <2>2. Len(buf) = 0  BY <2>1, NoUnits
  <2> QED  BY <1>2, <1>4, <2>2
<1> QED  BY <1>6, <1>7, <1>8, <1>9

(* frame_start_position() is where the member of the next unit begins:       *)
(* after every read, however the buffers cut the members, and after a seek.  *)
THEOREM StartsAreKnown == ASSUME ~SeeksChunks PROVE Spec => []FrameStartOk
<1>1. ASSUME WriterInv, ReaderInv, PlaceInv, StartInv PROVE FrameStartOk
  <2>1. SUFFICES ASSUME Unread # << >>, StartsKnown PROVE frameStart = StartOf(Head(Unread))
    BY DEF FrameStartOk, StartsKnown
  <2>2. Head(Unread) = expect /\ buf # << >>  BY <1>1, <2>1, NextUnitIs
  <2>3. closed /\ StageInv
    <3>1. closed  BY <1>1, <2>2 DEF PlaceInv, Unmoved
    <3> QED  BY <1>1, <3>1 DEF PlaceInv
  <2>4. Spans(frameStart, pos) /\ UnitsBefore(frameStart) + Len(buf) <= UnitsBefore(pos)
    BY <1>1, <2>1, <2>2, <2>3 DEF StartInv, BufStart
  <2>5. pos \in 0 .. Len(tape) /\ pos \in Nat /\ frameStart \in Nat
    <3>1. pos \in 0 .. Len(tape) /\ pos \in Nat  BY <1>1, <2>3 DEF StageInv, ReaderInv, ReaderTypes
    <3>2. frameStart \in 0 .. pos - 1  BY <2>4 DEF Spans
    <3> QED  BY <3>1, <3>2
  <2>6. UnitsBefore(frameStart) \in Nat /\ UnitsBefore(pos) \in Nat  BY <2>5, UnitsBeforeIs
  <2>7. expect \in UnitsBefore(frameStart) + 1 .. UnitsBefore(pos)
    <3>1. Follows(buf, bufPos, expect, UnitsBefore(pos))  BY <1>1 DEF ReaderInv
    <3>2. /\ Len(buf) \in Nat /\ bufPos \in 0 .. Len(buf)
          /\ expect = UnitsBefore(pos) - Len(buf) + bufPos + 1
      BY <3>1 DEF Follows
    <3>3. bufPos < Len(buf)
      <4>1. bufPos # Len(buf)
        <5>1. SUFFICES ASSUME bufPos = Len(buf) PROVE FALSE  OBVIOUS
        <5>2. SubSeq(buf, Len(buf) + 1, Len(buf)) = << >>
          <6>1. Len(buf) + 1 \in Int /\ Len(buf) \in Int /\ Len(buf) < Len(buf) + 1  BY <3>2
          <6> QED  BY <6>1, SubSeqEmpty
        <5> QED  BY <2>1, <5>1, <5>2 DEF Unread
      <4> QED  BY <3>2, <4>1
    <3> QED  BY <2>4, <2>6, <3>2, <3>3
  <2>8. StartOf(expect) = frameStart  BY <1>1, <2>4, <2>5, <2>7, StartIsAt
  <2> QED  BY <2>2, <2>8
<1> QED  BY <1>1, WriterInvariant, ReaderInvariant, PlaceInvariant, StartInvariant, PTL
=============================================================================
