------------------------- MODULE HeaderParserProofs -------------------------
(***************************************************************************)
(* For every file, buffer, limit and way of reading short: the adapter's     *)
(* buffer is the piece of the file it takes it for, the bytes that a parse    *)
(* has counted are those between its start and the next byte it takes, and    *)
(* what it has read is the header block of the text, wherever it was cut.     *)
(***************************************************************************)
EXTENDS HeaderBlock, SequenceTheorems, WellFoundedInduction, TLAPS

(* The less-than relation of the numbers has no endless descent, so that a    *)
(* set of numbers has a least one: which takes the place of induction.        *)
LEMMA LessDescends == IsWellFoundedOn({p \in Nat \X Nat : p[1] < p[2]}, Nat)
BY NatLessThanWellFounded DEF OpToRel

LEMMA LeastNumber ==
  ASSUME NEW S \in SUBSET Nat, S # {}
  PROVE  \E m \in S : \A n \in S : m <= n
<1>1. PICK m \in S : \A n \in S : ~ (<<n, m>> \in {p \in Nat \X Nat : p[1] < p[2]})
  BY LessDescends, WFMin
<1>2. ASSUME NEW n \in S PROVE m <= n
  <2>1. <<n, m>> \in Nat \X Nat  OBVIOUS
  <2>2. ~ (n < m)  BY <1>1, <2>1
  <2> QED  BY <2>2
<1> QED  BY <1>2

(***************************************************************************)
(* The text that a parse reads.  Of a beginning of a text that is long       *)
(* enough, the ends, lines and blank lines are those of the text.            *)
(***************************************************************************)
LEMMA PartOf ==
  ASSUME NEW S, NEW s \in Seq(S), NEW m \in Nat \ {0}, NEW n \in 0 .. Len(s), m <= n + 1
  PROVE  /\ SubSeq(s, m, n) \in Seq(S)
         /\ Len(SubSeq(s, m, n)) = n - m + 1
         /\ \A i \in 1 .. n - m + 1 : SubSeq(s, m, n)[i] = s[m + i - 1]
<1>1. m \in Int /\ n \in Int /\ \A i \in m .. n : s[i] \in S
  OBVIOUS
<1>2. /\ SubSeq(s, m, n) \in Seq(S)
      /\ Len(SubSeq(s, m, n)) = IF m <= n THEN n - m + 1 ELSE 0
      /\ \A i \in 1 .. n - m + 1 : SubSeq(s, m, n)[i] = s[m + i - 1]
  BY <1>1, SubSeqProperties
<1>3. ~(m <= n) => n - m + 1 = 0
  OBVIOUS
<1> QED
  BY <1>2, <1>3

LEMMA BeginningOf ==
  ASSUME NEW S, NEW s \in Seq(S), NEW n \in 0 .. Len(s)
  PROVE  /\ SubSeq(s, 1, n) \in Seq(S) /\ Len(SubSeq(s, 1, n)) = n
         /\ \A i \in 1 .. n : SubSeq(s, 1, n)[i] = s[i]
<1>1. 1 \in Nat \ {0} /\ 1 <= n + 1 /\ n - 1 + 1 = n /\ \A i \in 1 .. n : 1 + i - 1 = i
  OBVIOUS
<1> QED
  BY <1>1, PartOf

LEMMA PieceOf ==
  ASSUME NEW S, NEW s \in Seq(S), NEW k \in Nat, NEW n \in Nat, k + n <= Len(s)
  PROVE  /\ SubSeq(s, k + 1, k + n) \in Seq(S) /\ Len(SubSeq(s, k + 1, k + n)) = n
         /\ \A i \in 1 .. n : SubSeq(s, k + 1, k + n)[i] = s[k + i]
<1> DEFINE a == k + 1  b == k + n
<1>1. a \in Nat \ {0} /\ b \in 0 .. Len(s) /\ a <= b + 1 /\ b - a + 1 = n
  OBVIOUS
<1>2. \A i \in 1 .. n : a + i - 1 = k + i
  OBVIOUS
<1>3. /\ SubSeq(s, a, b) \in Seq(S) /\ Len(SubSeq(s, a, b)) = b - a + 1
      /\ \A i \in 1 .. b - a + 1 : SubSeq(s, a, b)[i] = s[a + i - 1]
  <2> HIDE DEF a, b
  <2> QED
    BY <1>1, PartOf
<1> QED
  BY <1>1, <1>2, <1>3

LEMMA PartOfBeginning ==
  ASSUME NEW S, NEW s \in Seq(S), NEW n \in 0 .. Len(s), NEW m \in Nat \ {0}, NEW i \in 0 .. n, m <= i + 1
  PROVE  SubSeq(SubSeq(s, 1, n), m, i) = SubSeq(s, m, i)
<1> DEFINE b == SubSeq(s, 1, n)
<1>1. b \in Seq(S) /\ Len(b) = n /\ \A j \in 1 .. n : b[j] = s[j]
  BY BeginningOf
<1>2. i \in 0 .. Len(s)
  OBVIOUS
<1>3. /\ SubSeq(b, m, i) \in Seq(S) /\ Len(SubSeq(b, m, i)) = i - m + 1
      /\ \A j \in 1 .. i - m + 1 : SubSeq(b, m, i)[j] = b[m + j - 1]
  <2> HIDE DEF b
  <2> QED
    BY <1>1, PartOf
<1>4. /\ SubSeq(s, m, i) \in Seq(S) /\ Len(SubSeq(s, m, i)) = i - m + 1
      /\ \A j \in 1 .. i - m + 1 : SubSeq(s, m, i)[j] = s[m + j - 1]
  BY <1>2, PartOf
<1>5. \A j \in 1 .. i - m + 1 : b[m + j - 1] = s[m + j - 1]
  <2>1. \A j \in 1 .. i - m + 1 : m + j - 1 \in 1 .. n
    OBVIOUS
  <2> HIDE DEF b
  <2> QED
    BY <1>1, <2>1
<1> HIDE DEF b
<1>6. SubSeq(b, m, i) = SubSeq(s, m, i)
  BY <1>3, <1>4, <1>5, SeqEqual
<1> QED
  BY <1>6 DEF b

LEMMA EndsOfBeginning ==
  ASSUME NEW S, NEW s \in Seq(S), NEW n \in 0 .. Len(s), NEW q \in BOOLEAN, NEW cr \in BOOLEAN
  PROVE  Ends(SubSeq(s, 1, n), q, cr) = Ends(s, q, cr) \cap 1 .. n
<1> DEFINE b == SubSeq(s, 1, n)
<1>1. Len(b) = n /\ \A j \in 1 .. n : b[j] = s[j]
  BY BeginningOf
<1>2. 1 .. n \subseteq 1 .. Len(s)
  OBVIOUS
<1>3. \A i \in 1 .. n : IsEnd(b, i, q) <=> IsEnd(s, i, q)
  <2>1. \A i \in 1 .. n : i > 1 => i - 1 \in 1 .. n
    OBVIOUS
  <2> HIDE DEF b
  <2> QED
    BY <1>1, <2>1 DEF IsEnd
<1>4. \A i \in 1 .. n : (cr /\ i = 1 /\ b[1] = LF) <=> (cr /\ i = 1 /\ s[1] = LF)
  <2> HIDE DEF b
  <2> QED
    BY <1>1
<1> HIDE DEF b
<1>5. Ends(b, q, cr) = Ends(s, q, cr) \cap 1 .. n
  BY <1>1, <1>2, <1>3, <1>4 DEF Ends
<1> QED
  BY <1>5 DEF b

\* p is 0 or the last end before i.
IsBefore(s, q, cr, p, i) ==
  p \in {0} \cup Ends(s, q, cr) /\ p < i /\ \A j \in Ends(s, q, cr) : j < i => j <= p

LEMMA EndsType ==
  ASSUME NEW s, NEW q, NEW cr
  PROVE  Ends(s, q, cr) \subseteq 1 .. Len(s)
  BY DEF Ends

LEMMA LineFrom ==
  ASSUME NEW S, NEW s \in Seq(S), NEW q, NEW cr, NEW i \in 1 .. Len(s), NEW p, IsBefore(s, q, cr, p, i)
  PROVE  LineTo(s, i, q, cr) = SubSeq(s, p + 1, i)
<1> DEFINE before == {j \in Ends(s, q, cr) : j < i}
<1>0. Ends(s, q, cr) \subseteq Int /\ 0 \notin Ends(s, q, cr)
  BY EndsType
<1>1. CASE before = {}
  <2>1. p = 0
    BY <1>1 DEF IsBefore
  <2> QED
    BY <1>1, <2>1 DEF LineTo
<1>2. CASE before # {}
  <2>1. PICK k \in Ends(s, q, cr) : k < i
    BY <1>2
  <2>2. p \in before /\ \A j \in before : j <= p
    <3>1. k <= p
      BY <2>1 DEF IsBefore
    <3>2. k \in 1 .. Len(s)
      BY EndsType
    <3>3. p # 0
      BY <3>1, <3>2
    <3> QED
      BY <3>3 DEF IsBefore
  <2>3. (CHOOSE j \in before : \A h \in before : h <= j) = p
    <3>1. before \subseteq Int
      BY <1>0
    <3> HIDE DEF before
    <3>2. \A j \in before : (\A h \in before : h <= j) => j = p
      BY <2>2, <3>1
    <3> QED
      BY <2>2, <3>2
  <2>4. p \in Int
    BY <1>0 DEF IsBefore
  <2>5. LineTo(s, i, q, cr) = SubSeq(s, 1 + p, i)
    BY <1>2, <2>3 DEF LineTo
  <2> QED
    BY <2>4, <2>5
<1> QED
  BY <1>1, <1>2

\* There is such a p.
LEMMA HasBefore ==
  ASSUME NEW s, NEW q, NEW cr, NEW i \in Nat \ {0}
  PROVE  \E p \in 0 .. i - 1 : IsBefore(s, q, cr, p, i)
<1> DEFINE R == {i - p : p \in {j \in {0} \cup Ends(s, q, cr) : j < i}}
<1>0. Ends(s, q, cr) \subseteq Nat
  BY EndsType
<1>1. R \in SUBSET Nat /\ R # {}
  BY <1>0
<1>2. PICK r \in R : \A x \in R : r <= x
  BY <1>1, LeastNumber
<1>3. PICK p \in {j \in {0} \cup Ends(s, q, cr) : j < i} : r = i - p
  OBVIOUS
<1>4. ASSUME NEW j \in Ends(s, q, cr), j < i PROVE j <= p
  <2>1. i - j \in R
    BY <1>4
  <2>2. i - p <= i - j
    BY <1>2, <1>3, <2>1
  <2> QED
    BY <1>0, <2>2
<1> QED
  BY <1>0, <1>3, <1>4 DEF IsBefore

LEMMA LineOfBeginning ==
  ASSUME NEW S, NEW s \in Seq(S), NEW n \in 0 .. Len(s), NEW q \in BOOLEAN, NEW cr \in BOOLEAN,
         NEW i \in 1 .. n
  PROVE  LineTo(SubSeq(s, 1, n), i, q, cr) = LineTo(s, i, q, cr)
<1> DEFINE b == SubSeq(s, 1, n)
<1>1. b \in Seq(S) /\ Len(b) = n /\ Ends(b, q, cr) = Ends(s, q, cr) \cap 1 .. n
  BY BeginningOf, EndsOfBeginning
<1>2. i \in Nat \ {0} /\ i \in 1 .. Len(s)
  OBVIOUS
<1>3. PICK p \in 0 .. i - 1 : IsBefore(s, q, cr, p, i)
  BY <1>2, HasBefore
<1>4. IsBefore(b, q, cr, p, i)
  <2>1. p \in 1 .. n \/ p = 0
    BY <1>3
  <2> HIDE DEF b
  <2> QED
    BY <1>1, <1>3, <2>1 DEF IsBefore
<1>5. LineTo(s, i, q, cr) = SubSeq(s, p + 1, i)
  BY <1>2, <1>3, LineFrom
<1>6. LineTo(b, i, q, cr) = SubSeq(b, p + 1, i)
  <2> HIDE DEF b
  <2> QED
    BY <1>1, <1>4, LineFrom
<1>7. SubSeq(b, p + 1, i) = SubSeq(s, p + 1, i)
  <2>1. p + 1 \in Nat \ {0} /\ i \in 0 .. n /\ p + 1 <= i + 1
    BY <1>3
  <2> QED
    BY <2>1, PartOfBeginning
<1> QED
  BY <1>5, <1>6, <1>7

LEMMA BlanksOfBeginning ==
  ASSUME NEW S, NEW s \in Seq(S), NEW n \in 0 .. Len(s), NEW q \in BOOLEAN, NEW cr \in BOOLEAN
  PROVE  Blanks(SubSeq(s, 1, n), q, cr) = Blanks(s, q, cr) \cap 1 .. n
<1> DEFINE b == SubSeq(s, 1, n)
<1>1. Ends(b, q, cr) = Ends(s, q, cr) \cap 1 .. n
  BY EndsOfBeginning
<1>2. \A i \in 1 .. n : LineTo(b, i, q, cr) = LineTo(s, i, q, cr)
  BY LineOfBeginning
<1> HIDE DEF b
<1>3. Blanks(b, q, cr) = Blanks(s, q, cr) \cap 1 .. n
  BY <1>1, <1>2 DEF Blanks
<1> QED
  BY <1>3 DEF b

(***************************************************************************)
(* What is read line by line, of a text that has no blank line before its    *)
(* end.                                                                     *)
(***************************************************************************)
Stops(s, q, cr) == Ends(s, q, cr) \cup {Len(s)}
Pushed(s, q, cr, status, i, m) ==
  IF i \in Stops(s, q, cr) /\ i \notin Blanks(s, q, cr)
    THEN PushLine(m, LineTo(s, i, q, cr), status /\ \A j \in Stops(s, q, cr) : j >= i)
    ELSE m
IsReading(s, q, cr, m, status, f) ==
  f = [i \in 0 .. Len(s) |-> IF i = 0 THEN m ELSE Pushed(s, q, cr, status, i, f[i - 1])]
Reading(s, q, cr, m, status) == CHOOSE f : IsReading(s, q, cr, m, status, f)
ReadAll(s, q, cr, m, status) == Reading(s, q, cr, m, status)[Len(s)]

\* The function exists: otherwise CHOOSE would say nothing of it.
LEMMA ReadingExists ==
  ASSUME NEW s, Len(s) \in Nat, NEW q, NEW cr, NEW m, NEW status
  PROVE  IsReading(s, q, cr, m, status, Reading(s, q, cr, m, status))
<1> DEFINE P(i, x) == Pushed(s, q, cr, status, i, x)
           Upto(j, f) == f = [i \in 0 .. j |-> IF i = 0 THEN m ELSE P(i, f[i - 1])]
           Missing == {j \in Nat : ~ \E f : Upto(j, f)}
<1> HIDE DEF P
<1>1. \E f : Upto(0, f)
  <2> DEFINE f == [i \in 0 .. 0 |-> m]
  <2>1. Upto(0, f)
    OBVIOUS
  <2> QED
    BY <2>1
<1>2. ASSUME NEW j \in Nat, NEW f, Upto(j, f) PROVE \E g : Upto(j + 1, g)
  <2> DEFINE g == [i \in 0 .. j + 1 |-> IF i = 0 THEN m ELSE P(i, f[i - 1])]
  <2>1. ASSUME NEW i \in 0 .. j PROVE g[i] = f[i]
    <3>1. i \in 0 .. j + 1
      OBVIOUS
    <3>2. f[i] = IF i = 0 THEN m ELSE P(i, f[i - 1])
      BY <1>2
    <3> QED
      BY <3>1, <3>2
  <2>2. ASSUME NEW i \in 0 .. j + 1, i # 0 PROVE P(i, f[i - 1]) = P(i, g[i - 1])
    <3>1. i - 1 \in 0 .. j
      BY <2>2
    <3>2. g[i - 1] = f[i - 1]
      BY <2>1, <3>1
    <3> HIDE DEF g
    <3> QED
      BY <3>2
  <2> DEFINE h == [i \in 0 .. j + 1 |-> IF i = 0 THEN m ELSE P(i, g[i - 1])]
  <2>3. \A i \in 0 .. j + 1 : g[i] = h[i]
    BY <2>2
  <2>4. g = h
    BY <2>3
  <2> QED
    BY <2>4
<1>3. Missing = {}
  <2> SUFFICES ASSUME Missing # {} PROVE FALSE
    OBVIOUS
  <2>1. Missing \in SUBSET Nat
    OBVIOUS
  <2>2. PICK j \in Missing : \A i \in Missing : j <= i
    BY <2>1, LeastNumber
  <2>3. j \in Nat /\ j # 0
    BY <1>1
  <2>4. j - 1 \in Nat /\ j - 1 \notin Missing
    <3> HIDE DEF Missing
    <3>1. j - 1 \in Nat /\ ~ (j <= j - 1)
      BY <2>3
    <3> QED
      BY <2>2, <3>1
  <2>5. PICK f : Upto(j - 1, f)
    BY <2>4
  <2> HIDE DEF Upto
  <2>6. \E g : Upto((j - 1) + 1, g)
    BY <1>2, <2>4, <2>5
  <2>7. (j - 1) + 1 = j
    BY <2>3
  <2> QED
    BY <2>6, <2>7
<1>4. \E f : Upto(Len(s), f)
  BY <1>3
<1>5. \E f : IsReading(s, q, cr, m, status, f)
  BY <1>4 DEF IsReading, P
<1> QED
  BY <1>5 DEF Reading

LEMMA ReadingStep ==
  ASSUME NEW s, Len(s) \in Nat, NEW q, NEW cr, NEW m, NEW status
  PROVE  /\ Reading(s, q, cr, m, status)[0] = m
         /\ \A i \in 1 .. Len(s) :
              Reading(s, q, cr, m, status)[i] = Pushed(s, q, cr, status, i, Reading(s, q, cr, m, status)[i - 1])
<1> DEFINE f == Reading(s, q, cr, m, status)
<1>1. f = [i \in 0 .. Len(s) |-> IF i = 0 THEN m ELSE Pushed(s, q, cr, status, i, f[i - 1])]
  <2>1. IsReading(s, q, cr, m, status, f)
    BY ReadingExists
  <2> HIDE DEF f
  <2> QED
    BY <2>1 DEF IsReading
<1> HIDE DEF f
<1>2. f[0] = m
  BY <1>1
<1>3. \A i \in 1 .. Len(s) : f[i] = Pushed(s, q, cr, status, i, f[i - 1])
  BY <1>1
<1> QED
  BY <1>2, <1>3 DEF f

LEMMA ReadAsBlock ==
  ASSUME NEW s, NEW q, NEW cr, NEW m, NEW status
  PROVE  ReadAs(s, q, cr, m, status) = ReadAll(SubSeq(s, 1, BlockLength(s, q, cr)), q, cr, m, status)
  BY DEF ReadAs, ReadAll, Reading, IsReading, Pushed, Stops

\* p is 0 or the end of a line of s, and no line up to p is blank.
IsFull(s, q, cr, p) ==
  p \in {0} \cup Ends(s, q, cr) /\ \A j \in Blanks(s, q, cr) : j > p

(* A text is read as its lines up to p, and then the line that follows.        *)
LEMMA ReadMore ==
  ASSUME NEW S, NEW s \in Seq(S), NEW q \in BOOLEAN, NEW cr \in BOOLEAN, NEW m, NEW status \in BOOLEAN,
         NEW e \in 1 .. Len(s), NEW p, IsBefore(s, q, cr, p, e), IsFull(s, q, cr, p)
  PROVE  ReadAll(SubSeq(s, 1, e), q, cr, m, status) =
           LET read == ReadAll(SubSeq(s, 1, p), q, cr, m, status)
           IN  IF e \in Blanks(s, q, cr) THEN read
               ELSE PushLine(read, SubSeq(s, p + 1, e), status /\ p = 0)
<1> DEFINE a == SubSeq(s, 1, p)
           b == SubSeq(s, 1, e)
           f == Reading(a, q, cr, m, status)
           g == Reading(b, q, cr, m, status)
<1>1. p \in 0 .. Len(s) /\ e \in 0 .. Len(s) /\ p < e /\ Ends(s, q, cr) \subseteq 1 .. Len(s)
  BY EndsType DEF IsBefore
<1>2. Len(a) = p /\ Len(b) = e
  BY <1>1, BeginningOf
<1>3. /\ f[0] = m /\ \A i \in 1 .. p : f[i] = Pushed(a, q, cr, status, i, f[i - 1])
      /\ g[0] = m /\ \A i \in 1 .. e : g[i] = Pushed(b, q, cr, status, i, g[i - 1])
  <2>1. Len(a) \in Nat /\ Len(b) \in Nat
    BY <1>1, <1>2
  <2> HIDE DEF a, b
  <2> QED
    BY <1>2, <2>1, ReadingStep
<1>4. /\ Stops(a, q, cr) = (Ends(s, q, cr) \cap 1 .. p) \cup {p}
      /\ Stops(b, q, cr) = (Ends(s, q, cr) \cap 1 .. p) \cup {e}
  <2>1. Ends(a, q, cr) = Ends(s, q, cr) \cap 1 .. p /\ Ends(b, q, cr) = Ends(s, q, cr) \cap 1 .. e
    BY <1>1, EndsOfBeginning
  <2>2. (Ends(s, q, cr) \cap 1 .. e) \cup {e} = (Ends(s, q, cr) \cap 1 .. p) \cup {e}
    <3>1. \A j \in Ends(s, q, cr) : j \in Int /\ (j < e => j <= p)
      BY <1>1 DEF IsBefore
    <3> QED
      BY <1>1, <3>1
  <2> HIDE DEF a, b
  <2> QED
    BY <1>2, <2>1, <2>2 DEF Stops
<1>5. Blanks(a, q, cr) = {} /\ Blanks(b, q, cr) = Blanks(s, q, cr) \cap {e}
  <2>1. /\ Blanks(a, q, cr) = Blanks(s, q, cr) \cap 1 .. p
        /\ Blanks(b, q, cr) = Blanks(s, q, cr) \cap 1 .. e
    BY <1>1, BlanksOfBeginning
  <2>2. \A j \in Blanks(s, q, cr) : j > p /\ j \in Ends(s, q, cr)
    BY DEF IsFull, Blanks
  <2>3. \A j \in Blanks(s, q, cr) : j \in Int /\ j > p /\ (j < e => j <= p)
    BY <1>1, <2>2 DEF IsBefore
  <2> HIDE DEF a, b
  <2> QED
    BY <1>1, <2>1, <2>3
<1>6. /\ \A i \in 1 .. p : LineTo(a, i, q, cr) = LineTo(s, i, q, cr)
      /\ \A i \in 1 .. e : LineTo(b, i, q, cr) = LineTo(s, i, q, cr)
  BY <1>1, LineOfBeginning
<1> HIDE DEF a, b, f, g
<1>7. ASSUME NEW i \in 1 .. p PROVE \A x : Pushed(a, q, cr, status, i, x) = Pushed(b, q, cr, status, i, x)
  <2>1. i \in 1 .. e /\ i # e /\ p # 0 /\ i <= p /\ e >= i /\ p >= i
    BY <1>1
  <2>2. i \in Stops(a, q, cr) <=> i \in Stops(b, q, cr)
    BY <1>4, <2>1 DEF IsBefore
  <2>3. (\A j \in Stops(a, q, cr) : j >= i) <=> (\A j \in Stops(b, q, cr) : j >= i)
    BY <1>4, <2>1
  <2>4. i \notin Blanks(a, q, cr) /\ i \notin Blanks(b, q, cr)
    BY <1>5, <2>1
  <2>5. LineTo(a, i, q, cr) = LineTo(b, i, q, cr)
    BY <1>6, <2>1
  <2> QED
    BY <2>2, <2>3, <2>4, <2>5 DEF Pushed
<1>8. \A i \in 0 .. p : f[i] = g[i]
  <2> DEFINE Differ == {i \in 0 .. p : f[i] # g[i]}
  <2> SUFFICES ASSUME Differ # {} PROVE FALSE
    OBVIOUS
  <2>1. Differ \in SUBSET Nat
    BY <1>1
  <2>2. PICK i \in Differ : \A j \in Differ : i <= j
    BY <2>1, LeastNumber
  <2>3. i \in 1 .. p /\ i \in 1 .. e /\ i - 1 \in 0 .. p /\ ~(i <= i - 1)
    BY <1>1, <1>3, <2>2
  <2>4. i - 1 \notin Differ
    <3> HIDE DEF Differ
    <3> QED
      BY <2>2, <2>3
  <2>5. f[i - 1] = g[i - 1]
    BY <2>3, <2>4
  <2>6. f[i] = g[i]
    BY <1>3, <1>7, <2>3, <2>5
  <2> QED
    BY <2>6
<1>9. \A i \in p .. e - 1 : g[i] = g[p]
  <2> DEFINE Differ == {i \in p .. e - 1 : g[i] # g[p]}
  <2> SUFFICES ASSUME Differ # {} PROVE FALSE
    OBVIOUS
  <2>1. Differ \in SUBSET Nat
    BY <1>1
  <2>2. PICK i \in Differ : \A j \in Differ : i <= j
    BY <2>1, LeastNumber
  <2>3. i \in 1 .. e /\ i - 1 \in p .. e - 1 /\ ~(i <= i - 1) /\ i > p /\ i # e
    BY <1>1, <2>2
  <2>4. i - 1 \notin Differ
    <3> HIDE DEF Differ
    <3> QED
      BY <2>2, <2>3
  <2>5. i \notin Stops(b, q, cr)
    BY <1>1, <1>4, <2>3
  <2>6. g[i] = g[i - 1]
    BY <1>3, <2>3, <2>5 DEF Pushed
  <2>7. g[i - 1] = g[p]
    BY <2>3, <2>4
  <2> QED
    BY <2>6, <2>7
<1>10. g[e] = IF e \in Blanks(s, q, cr) THEN g[e - 1]
              ELSE PushLine(g[e - 1], SubSeq(s, p + 1, e), status /\ p = 0)
  <2>1. e \in Stops(b, q, cr) /\ (e \in Blanks(b, q, cr) <=> e \in Blanks(s, q, cr))
    BY <1>4, <1>5
  <2>2. LineTo(b, e, q, cr) = SubSeq(s, p + 1, e)
    BY <1>1, <1>6, LineFrom
  <2>3. (\A j \in Stops(b, q, cr) : j >= e) <=> p = 0
    BY <1>1, <1>4 DEF IsBefore
  <2>4. (status /\ \A j \in Stops(b, q, cr) : j >= e) = (status /\ p = 0)
    BY <2>3
  <2>5. g[e] = Pushed(b, q, cr, status, e, g[e - 1])
    BY <1>1, <1>3
  <2> QED
    BY <2>1, <2>2, <2>4, <2>5 DEF Pushed
<1>11. g[e - 1] = f[p]
  <2>1. e - 1 \in p .. e - 1 /\ p \in 0 .. p
    BY <1>1
  <2> QED
    BY <1>8, <1>9, <2>1
<1> QED
  BY <1>2, <1>10, <1>11 DEF ReadAll, a, b, f, g

LEMMA ReadNothing ==
  ASSUME NEW S, NEW s \in Seq(S), NEW q, NEW cr, NEW m, NEW status
  PROVE  ReadAll(SubSeq(s, 1, 0), q, cr, m, status) = m
<1>1. 0 \in 0 .. Len(s)
  OBVIOUS
<1> DEFINE b == SubSeq(s, 1, 0)
<1>2. Len(b) = 0 /\ Len(b) \in Nat
  BY <1>1, BeginningOf
<1> HIDE DEF b
<1>3. Reading(b, q, cr, m, status)[0] = m
  BY <1>2, ReadingStep
<1>4. ReadAll(b, q, cr, m, status) = m
  BY <1>2, <1>3 DEF ReadAll
<1> QED
  BY <1>4 DEF b

LEMMA BlockIs ==
  ASSUME NEW S, NEW s \in Seq(S), NEW q, NEW cr, NEW n,
         \/ n \in Blanks(s, q, cr) /\ \A j \in Blanks(s, q, cr) : n <= j
         \/ n = Len(s) /\ Blanks(s, q, cr) = {}
  PROVE  BlockLength(s, q, cr) = n
<1>1. Blanks(s, q, cr) \subseteq Int
  BY DEF Blanks, Ends
<1>2. \A i \in Blanks(s, q, cr) :
        n \in Blanks(s, q, cr) /\ n <= i /\ i <= n => i = n
  BY <1>1
<1> QED
  BY <1>2 DEF BlockLength

(* Maps that differ in their blocks only are read on alike.                   *)
IsMap(m) ==
  /\ m.raw \in Seq(Cells \cup {"warc"})
  /\ m = [status |-> m.status, headers |-> m.headers, raw |-> m.raw, dirty |-> m.dirty]

LEMMA PushLineSame ==
  ASSUME NEW m, NEW n, IsMap(m), IsMap(n), SameMap(m, n), NEW line, NEW expected \in BOOLEAN
  PROVE  /\ IsMap(PushLine(m, line, expected)) /\ PushLine(m, line, expected).raw = m.raw
         /\ IsMap(PushLine(n, line, expected))
         /\ SameMap(PushLine(m, line, expected), PushLine(n, line, expected))
<1> DEFINE With(x, st, hs) == [status |-> st, headers |-> hs, raw |-> x.raw, dirty |-> x.dirty]
<1>1. PICK st, hs : /\ PushLine(m, line, expected) = With(m, st, hs)
                    /\ PushLine(n, line, expected) = With(n, st, hs)
  <2>1. CASE expected
    BY <2>1 DEF PushLine, IsMap, SameMap
  <2>2. CASE ~expected /\ line[1] = Sp
    BY <2>2 DEF PushLine, IsMap, SameMap
  <2>3. CASE ~expected /\ line[1] # Sp /\ \E i \in 1 .. Len(line) : line[i] \in Keys
    BY <2>3 DEF PushLine, IsMap, SameMap
  <2>4. CASE ~expected /\ line[1] # Sp /\ ~ \E i \in 1 .. Len(line) : line[i] \in Keys
    BY <2>4 DEF PushLine, IsMap, SameMap
  <2> QED
    BY <2>1, <2>2, <2>3, <2>4
<1> QED
  BY <1>1 DEF IsMap, SameMap
-----------------------------------------------------------------------------
IsReader(r) == r \in [fpos : Nat, pos : Nat \cup {None}, buf : Seq(Cells), bpos : Nat]

(* BufferIsThePiece of any reader state.                                    *)
IsPiece(r) ==
  /\ r.bpos <= Len(r.buf)
  /\ IF r.pos = None
       THEN r.buf = << >>
       ELSE /\ r.bpos <= r.pos
            /\ r.fpos = BufStart(r) + Len(r.buf)
            /\ \A i \in 1 .. Len(r.buf) :
                 BufStart(r) + i <= Len(file) /\ r.buf[i] = file[BufStart(r) + i]

(* A call takes no more cells of the chunk than there are, and what it has    *)
(* counted is what lies between its start and the next cell it takes.        *)
Counted(r) ==
  InCall =>
    /\ consumed \in Nat /\ bytes \in Nat /\ call.start \in Nat
    /\ at = "fill" => consumed = 0
    /\ at = "lines" => r.pos # None
    /\ r.bpos + consumed <= Len(r.buf)
    /\ Located(r).pos + consumed = call.start + bytes

IInv ==
  /\ file \in Seq(Cells)
  /\ IsReader(reader)
  /\ IsPiece(reader)
  /\ Counted(reader)
  /\ StandsWhereItShould
  /\ InCall => goal = None
-----------------------------------------------------------------------------
USE CapacityAssumption, NoneAssumption

(* The reader's own operations keep its buffer a piece of the file.          *)
LEMMA LocatedIsPiece ==
  ASSUME NEW r, IsReader(r), IsPiece(r)
  PROVE  /\ IsReader(Located(r)) /\ IsPiece(Located(r))
         /\ Located(r).pos \in Nat
         /\ Located(r).bpos = r.bpos /\ Located(r).buf = r.buf /\ Located(r).fpos = r.fpos
  BY DEF IsReader, IsPiece, Located, BufStart

LEMMA FilledIsPiece ==
  ASSUME file \in Seq(Cells), NEW r, IsReader(r), IsPiece(r), NEW s \in Filled(r)
  PROVE  /\ IsReader(s) /\ IsPiece(s)
         /\ s.pos \in Nat /\ s.pos = Located(r).pos
         /\ r.bpos < Len(r.buf) => s = r
         /\ r.bpos = Len(r.buf) => s.bpos = 0
<1>1. CASE r.bpos < Len(r.buf)
  BY <1>1 DEF Filled, IsReader, IsPiece, Located
<1>2. CASE ~(r.bpos < Len(r.buf))
  <2>1. PICK k \in PyReads(r.fpos) : s = FilledWith(Located(r), k)
    BY <1>2 DEF Filled
  <2> DEFINE q == Located(r)
  <2>2. /\ IsReader(q) /\ IsPiece(q) /\ q.pos \in Nat /\ q.fpos = r.fpos /\ q.buf = r.buf
        /\ q.bpos = r.bpos
    BY LocatedIsPiece
  <2>3. k \in Nat /\ (k = 0 \/ r.fpos + k <= Len(file))
    BY DEF PyReads, IsReader
  <2>4. r.bpos = Len(r.buf)
    BY <1>2 DEF IsReader, IsPiece
  <2>5. q.fpos = q.pos
    BY <2>2, <2>4 DEF IsPiece, BufStart, IsReader
  <2>6. /\ Len(SubSeq(file, r.fpos + 1, r.fpos + k)) = k
        /\ SubSeq(file, r.fpos + 1, r.fpos + k) \in Seq(Cells)
        /\ \A i \in 1 .. k : SubSeq(file, r.fpos + 1, r.fpos + k)[i] = file[r.fpos + i]
    <3> DEFINE m == r.fpos + 1  n == r.fpos + k
    <3>1. m \in Int /\ n \in Int /\ n - m + 1 = k /\ (m <= n <=> k # 0)
      BY <2>3 DEF IsReader
    <3>2. \A i \in m .. n : file[i] \in Cells
      BY <2>3 DEF IsReader
    <3>3. /\ SubSeq(file, m, n) \in Seq(Cells)
          /\ Len(SubSeq(file, m, n)) = (IF m <= n THEN n - m + 1 ELSE 0)
          /\ \A i \in 1 .. n - m + 1 : SubSeq(file, m, n)[i] = file[m + i - 1]
      <4> HIDE DEF m, n
      <4> QED
        BY <3>1, <3>2, SubSeqProperties
    <3>4. \A i \in 1 .. k : m + i - 1 = r.fpos + i
      BY DEF IsReader
    <3> QED
      BY <3>1, <3>3, <3>4, <2>3
  <2>7. s = [fpos |-> q.fpos + k, pos |-> q.pos, buf |-> SubSeq(file, q.fpos + 1, q.fpos + k), bpos |-> 0]
    BY <2>1, <2>2 DEF FilledWith, IsReader
  <2>8. /\ s.fpos = r.fpos + k /\ s.pos = r.fpos /\ s.bpos = 0
        /\ s.buf = SubSeq(file, r.fpos + 1, r.fpos + k)
    BY <2>2, <2>5, <2>7
  <2>9. IsReader(s)
    <3>1. /\ q.fpos + k \in Nat /\ q.pos \in Nat
          /\ SubSeq(file, q.fpos + 1, q.fpos + k) \in Seq(Cells)
      BY <2>2, <2>3, <2>6, SMTT(30) DEF IsReader
    <3> QED
      BY <2>7, <3>1 DEF IsReader
  <2>10. BufStart(s) = r.fpos /\ r.fpos \in Nat
    BY <2>8 DEF BufStart, IsReader
  <2>11. IsPiece(s)
    <3>0. Len(s.buf) = k
      BY <2>6, <2>8
    <3>1. s.pos # None /\ s.bpos <= Len(s.buf) /\ s.bpos <= s.pos
      BY <2>3, <2>8, <2>10, <3>0
    <3>2. s.fpos = BufStart(s) + Len(s.buf)
      BY <2>6, <2>8, <2>10
    <3>3. ASSUME NEW i \in 1 .. Len(s.buf)
          PROVE  BufStart(s) + i <= Len(file) /\ s.buf[i] = file[BufStart(s) + i]
      <4>1. i \in 1 .. k
        BY <3>0
      <4>2. k # 0 /\ r.fpos + k <= Len(file) /\ Len(file) \in Nat
        BY <2>3, <4>1
      <4> QED
        <5>1. SubSeq(file, r.fpos + 1, r.fpos + k)[i] = file[r.fpos + i]
          BY <2>6, <4>1
        <5>2. r.fpos + i <= Len(file)
          BY <2>3, <2>10, <4>1, <4>2
        <5> QED
          BY <2>8, <2>10, <5>1, <5>2
    <3> QED
      BY <3>1, <3>2, <3>3 DEF IsPiece
  <2> QED
    BY <2>2, <2>4, <2>5, <2>8, <2>9, <2>10, <2>11, <1>2
<1> QED
  BY <1>1, <1>2

LEMMA ConsumedIsPiece ==
  ASSUME NEW r, IsReader(r), IsPiece(r), r.pos # None, NEW n \in Nat, r.bpos + n <= Len(r.buf)
  PROVE  /\ IsReader(Consumed(r, n)) /\ IsPiece(Consumed(r, n))
         /\ Consumed(r, n).pos = r.pos + n
         /\ Consumed(r, n).bpos = r.bpos + n /\ Consumed(r, n).buf = r.buf
<1> QED
  BY DEF Consumed, At, IsReader, IsPiece, BufStart

LEMMA SoughtIsPiece ==
  ASSUME file \in Seq(Cells), NEW r, IsReader(r), IsPiece(r),
         NEW whence \in {"start", "current", "end"}, NEW offset \in Int
  PROVE  /\ IsReader(Sought(r, whence, offset)) /\ IsPiece(Sought(r, whence, offset))
         /\ Target(Located(r), whence, offset) >= 0 =>
              Sought(r, whence, offset).pos = Target(Located(r), whence, offset)
<1> DEFINE q == Located(r)
           p == Target(q, whence, offset)
           new == PySeeksTo(q, whence, offset)
<1>1. IsReader(q) /\ IsPiece(q) /\ q.pos \in Nat
  BY LocatedIsPiece
<1>2. p \in Int
  BY <1>1 DEF Target, IsReader
<1>3. q.fpos = q.pos + Buffered(q) /\ Buffered(q) \in Nat
  BY <1>1 DEF IsPiece, BufStart, Buffered, IsReader
<1>4. new = p
  BY <1>1, <1>3 DEF Target, PySeeksTo, IsReader
<1>5. CASE p < 0
  BY <1>1, <1>2, <1>5 DEF Sought
<1>6. CASE p >= 0
  <2>1. Sought(r, whence, offset) = SeekIn(q, whence, offset)
    BY <1>2, <1>6 DEF Sought
  <2>2. CASE whence = "current" /\ offset = 0
    <3>1. SeekIn(q, whence, offset) = q
      BY <2>2 DEF SeekIn
    <3>2. p = q.pos
      BY <1>1, <2>2 DEF Target
    <3> QED
      BY <1>1, <2>1, <3>1, <3>2
  <2>3. CASE ~(whence = "current" /\ offset = 0) /\ whence # "end" /\ InBuffer(q, p)
    <3>1. SeekIn(q, whence, offset) = At(q, p, p - BufStart(q))
      BY <2>3 DEF SeekIn
    <3> QED
      BY <1>1, <1>2, <1>6, <2>1, <2>3, <3>1, SMTT(30) DEF InBuffer, At, IsReader, IsPiece, BufStart
  <2>4. CASE ~(whence = "current" /\ offset = 0) /\ ~(whence # "end" /\ InBuffer(q, p))
    <3>1. SeekIn(q, whence, offset) = [fpos |-> new, pos |-> new, buf |-> << >>, bpos |-> 0]
      BY <2>4 DEF SeekIn
    <3> QED
      BY <1>2, <1>4, <1>6, <2>1, <3>1 DEF IsReader, IsPiece, BufStart
  <2> QED
    BY <2>2, <2>3, <2>4
<1> QED
  BY <1>2, <1>5, <1>6
-----------------------------------------------------------------------------
LEMMA InitHolds == Init => IInv
  BY DEF Init, Fresh, IInv, IsReader, IsPiece, NewReader, Counted, InCall, StandsWhereItShould

(* Taking n cells of the chunk behind those that were taken.                 *)
LEMMA TakeCellsCounts ==
  ASSUME IInv, InCall, NEW r, IsReader(r), IsPiece(r), r.pos \in Nat,
         r.pos = Located(reader).pos,
         NEW n \in Nat, r.bpos + consumed + n <= Len(r.buf),
         TakeCells(r, n), InParse
  PROVE  IInv'
<1>1. /\ consumed \in Nat /\ bytes \in Nat /\ call.start \in Nat
      /\ r.pos + consumed = call.start + bytes
      /\ file' = file /\ call' = call /\ bytes' = bytes + n
  BY DEF IInv, Counted, InParse, TakeCells
<1>0. goal' = None
  BY DEF InParse, IInv
<1>2. r.pos # None /\ r.bpos \in Nat /\ consumed + n \in Nat /\ r.bpos + (consumed + n) <= Len(r.buf)
  BY <1>1 DEF IsReader
<1>3. CASE reader' = Consumed(r, consumed + n) /\ at' = "ok"
  <2>1. IsReader(Consumed(r, consumed + n)) /\ IsPiece(Consumed(r, consumed + n))
    BY <1>2, ConsumedIsPiece
  <2>2. Consumed(r, consumed + n).pos = r.pos + (consumed + n)
    BY <1>2, ConsumedIsPiece
  <2>3. StandsWhereItShould'
    BY <1>0, <1>1, <1>3, <2>2, SMTT(30) DEF StandsWhereItShould
  <2> QED
    BY <1>1, <1>3, <2>1, <2>3 DEF IInv, Counted, InCall, IsPiece, IsReader, BufStart
<1>4. CASE reader' = r /\ at' = "lines" /\ consumed' = consumed + n
  <2>1. (Located(reader).pos)' = r.pos
    BY <1>2, <1>4 DEF Located
  <2>2. Counted(reader)'
    <3>1. r.pos + (consumed + n) = call.start + (bytes + n)
      BY <1>1
    <3>2. r.bpos + (consumed + n) <= Len(r.buf) /\ bytes + n \in Nat
      BY <1>1, <1>2
    <3> QED
      BY <1>1, <1>2, <1>4, <2>1, <3>1, <3>2 DEF Counted, InCall
  <2>3. IsReader(reader)' /\ IsPiece(reader)'
    BY <1>1, <1>4 DEF IsReader, IsPiece, BufStart
  <2> QED
    BY <1>0, <1>1, <1>4, <2>2, <2>3 DEF IInv, StandsWhereItShould
<1> QED
  BY <1>3, <1>4 DEF TakeCells

(* n cells of the chunk are consumed at the end of a round of the loop, of     *)
(* which consumed were counted before.                                      *)
LEMMA ConsumeHolds ==
  ASSUME IInv, at = "lines", NEW n \in Nat, reader.bpos + n <= Len(reader.buf),
         file' = file, call' = call, reader' = Consumed(reader, n),
         at' = "fill", consumed' = 0, bytes' = bytes + (n - consumed), n >= consumed, goal' = goal
  PROVE  IInv'
<1>1. /\ consumed \in Nat /\ bytes \in Nat /\ call.start \in Nat /\ reader.pos # None
      /\ reader.pos \in Nat /\ Located(reader).pos = reader.pos
      /\ reader.pos + consumed = call.start + bytes
      /\ IsReader(reader) /\ IsPiece(reader)
  BY DEF IInv, Counted, InCall, IsReader, Located
<1> DEFINE s == Consumed(reader, n)
<1>2. /\ IsReader(s) /\ IsPiece(s) /\ s.pos = reader.pos + n
      /\ s.bpos = reader.bpos + n /\ s.buf = reader.buf
  BY <1>1, ConsumedIsPiece
<1> HIDE DEF s
<1>3. s.pos # None /\ Located(s).pos = s.pos
  BY <1>1, <1>2 DEF Located
<1>4. reader' = s
  BY DEF s
<1>5. IsPiece(reader)' /\ IsReader(reader)'
  BY <1>2, <1>4 DEF IsPiece, BufStart, IsReader
<1>6. (Located(reader).pos)' = reader.pos + n
  BY <1>2, <1>3, <1>4 DEF Located
<1>7. bytes' \in Nat /\ reader.pos + n + 0 = call.start + bytes'
  <2>1. n - consumed \in Nat /\ bytes' = bytes + (n - consumed)
    BY <1>1
  <2>2. \A p, c, s0, b \in Nat : p + c = s0 + b => p + n + 0 = s0 + (b + (n - c))
    OBVIOUS
  <2>3. reader.pos + n + 0 = call.start + (bytes + (n - consumed))
    BY <1>1, <2>2
  <2> QED
    BY <1>1, <2>1, <2>3
<1>8. reader.bpos + n + 0 <= Len(reader.buf)
  BY <1>1 DEF IsReader
<1>9. Counted(reader)'
  BY <1>1, <1>2, <1>4, <1>6, <1>7, <1>8 DEF Counted, InCall
<1> QED
  BY <1>5, <1>9 DEF IInv, StandsWhereItShould, InCall

(* A step that leaves the reader a piece of the file and no call open.        *)
LEMMA NoCallHolds ==
  ASSUME IInv, file' = file, IsReader(reader'), IsPiece(reader)', ~InCall',
         StandsWhereItShould'
  PROVE  IInv'
  BY DEF IInv, Counted, IsReader, IsPiece, BufStart

LEMMA PieceNext ==
  ASSUME NEW r, file' = file, reader' = r, IsPiece(r)
  PROVE  IsPiece(reader)'
  BY DEF IsPiece, BufStart

(* The rest of the chunk is what was buffered and not taken.                 *)
LEMMA RestLength ==
  ASSUME IInv, at = "lines"
  PROVE  /\ Rest \in Seq(Cells) /\ Len(Rest) = Len(reader.buf) - reader.bpos - consumed
         /\ Len(reader.buf) \in Nat /\ reader.bpos \in Nat /\ consumed \in Nat
         /\ reader.bpos + consumed <= Len(reader.buf)
         /\ reader.pos # None /\ reader.pos \in Nat /\ reader.pos = Located(reader).pos
<1>1. /\ reader.buf \in Seq(Cells) /\ reader.bpos \in Nat /\ Len(reader.buf) \in Nat
      /\ consumed \in Nat /\ reader.bpos + consumed <= Len(reader.buf)
      /\ reader.pos # None /\ reader.pos \in Nat
  BY DEF IInv, Counted, IsReader, InCall
<1>2. Buffered(reader) = Len(reader.buf) - reader.bpos /\ Buffered(reader) \in Nat
  BY <1>1 DEF Buffered
<1>3. Chunk(reader) \in Seq(Cells) /\ Len(Chunk(reader)) = Buffered(reader)
  <2> DEFINE m == reader.bpos + 1  n == Len(reader.buf)
  <2>1. m \in Int /\ n \in Int /\ n - m + 1 = Buffered(reader) /\ (m <= n <=> Buffered(reader) # 0)
    BY <1>1, <1>2
  <2>2. \A i \in m .. n : reader.buf[i] \in Cells
    BY <1>1
  <2>3. /\ SubSeq(reader.buf, m, n) \in Seq(Cells)
        /\ Len(SubSeq(reader.buf, m, n)) = IF m <= n THEN n - m + 1 ELSE 0
    <3> HIDE DEF m, n
    <3> QED
      BY <2>1, <2>2, SubSeqProperties
  <2> QED
    BY <2>1, <2>3, <1>2 DEF Chunk
<1>4. Rest \in Seq(Cells) /\ Len(Rest) = Buffered(reader) - consumed
  <2> DEFINE m == consumed + 1  n == Buffered(reader)
  <2>1. m \in Int /\ n \in Int /\ n - m + 1 = n - consumed /\ (~(m <= n) => n = consumed)
    BY <1>1, <1>2
  <2>2. \A i \in m .. n : Chunk(reader)[i] \in Cells
    BY <1>1, <1>2, <1>3
  <2>3. /\ SubSeq(Chunk(reader), m, n) \in Seq(Cells)
        /\ Len(SubSeq(Chunk(reader), m, n)) = IF m <= n THEN n - m + 1 ELSE 0
    <3> HIDE DEF m, n
    <3> QED
      BY <2>1, <2>2, SubSeqProperties
  <2> QED
    <3>1. Len(Rest) = (IF m <= n THEN n - m + 1 ELSE 0) /\ Rest \in Seq(Cells)
      BY <2>3 DEF Rest
    <3>2. consumed <= n
      BY <1>1, <1>2
    <3> QED
      BY <2>1, <3>1, <3>2
<1>5. Len(Rest) = Len(reader.buf) - reader.bpos - consumed
  BY <1>1, <1>2, <1>4
<1>6. reader.pos = Located(reader).pos
  BY <1>1 DEF Located
<1> QED
  BY <1>1, <1>4, <1>5, <1>6

LEMMA StepHolds == IInv /\ [Next]_vars => IInv'
<1> SUFFICES ASSUME IInv, [Next]_vars PROVE IInv'
  OBVIOUS
<1> file \in Seq(Cells) /\ IsReader(reader) /\ IsPiece(reader)
  BY DEF IInv
<1>1. ASSUME NEW mode \in {"status", "plain", "seeded"}, NEW quirks \in BOOLEAN,
             NEW limit \in Limits, StartParse(mode, quirks, limit)
      PROVE  IInv'
  <2>1. /\ at' = "fill" /\ consumed' = 0 /\ bytes' = 0 /\ call'.start = Located(reader).pos
        /\ reader' = reader /\ file' = file /\ goal' = None
    BY <1>1 DEF StartParse
  <2>2. /\ Located(reader).pos \in Nat /\ reader.bpos <= Len(reader.buf)
        /\ reader.bpos \in Nat
    BY LocatedIsPiece DEF IsPiece, IsReader
  <2>3. Counted(reader)'
    BY <2>1, <2>2 DEF Counted, Located
  <2> QED
    BY <2>1, <2>3 DEF IInv, IsReader, IsPiece, BufStart, StandsWhereItShould
<1>2. CASE Fill
  <2>1. PICK r \in Filled(reader) :
          /\ Chunk(r) # << >>
          /\ IF CompletesCR(r)
               THEN TakeCells(r, 1)
               ELSE reader' = r /\ at' = "lines" /\ UNCHANGED <<map, locals>>
    BY <1>2 DEF Fill
  <2>2. at = "fill" /\ consumed = 0 /\ InCall /\ InParse
    BY <1>2 DEF Fill, InCall, IInv, Counted
  <2>3. /\ IsReader(r) /\ IsPiece(r) /\ r.pos \in Nat /\ r.pos = Located(reader).pos
    BY FilledIsPiece
  <2>4. r.bpos + 1 <= Len(r.buf)
    <3>1. CASE r.bpos + 1 > Len(r.buf)
      <4>1. r.bpos \in Nat /\ Len(r.buf) \in Nat
        BY <2>3 DEF IsReader
      <4>2. Chunk(r) = << >>
        BY <3>1, <4>1, SubSeqEmpty DEF Chunk
      <4> QED
        BY <2>1, <4>2
    <3> QED
      BY <2>3, <3>1 DEF IsReader
  <2>5. CASE CompletesCR(r)
    <3>1. TakeCells(r, 1)
      BY <2>1, <2>5
    <3>2. r.bpos + consumed + 1 <= Len(r.buf)
      BY <2>2, <2>3, <2>4 DEF IsReader
    <3> QED
      BY <2>2, <2>3, <3>1, <3>2, TakeCellsCounts
  <2>6. CASE ~CompletesCR(r)
    <3>1. /\ reader' = r /\ at' = "lines" /\ consumed' = consumed /\ bytes' = bytes
          /\ file' = file /\ call' = call /\ goal' = None
      BY <2>1, <2>2, <2>6 DEF locals, InParse, IInv
    <3>2. Counted(reader)'
      BY <2>2, <2>3, <2>4, <3>1 DEF IInv, Counted, InCall, Located, IsReader
    <3> QED
      BY <2>3, <3>1, <3>2 DEF IInv, IsReader, IsPiece, BufStart, StandsWhereItShould
  <2> QED
    BY <2>5, <2>6
<1>3. CASE FillAtEnd
  <2>1. PICK r \in Filled(reader) : reader' = r
    BY <1>3 DEF FillAtEnd
  <2>2. /\ file' = file /\ ~InCall' /\ call' = call /\ bytes' = bytes /\ goal' = None
        /\ at = "fill"
    BY <1>3 DEF FillAtEnd, InParse, InCall, locals, IInv
  <2>3. Located(reader).pos + 0 = call.start + bytes /\ Located(reader).pos \in Nat
    BY <2>2, LocatedIsPiece DEF IInv, Counted, InCall
  <2>4. IsReader(r) /\ IsPiece(r) /\ r.pos = Located(reader).pos
    BY FilledIsPiece
  <2>5. StandsWhereItShould'
    BY <2>1, <2>2, <2>3, <2>4 DEF StandsWhereItShould
  <2> QED
    BY <2>1, <2>2, <2>4, <2>5, PieceNext, NoCallHolds
<1>4. CASE FillRaises
  <2>1. /\ file' = file /\ ~InCall' /\ reader' = Located(reader)
        /\ StandsWhereItShould'
    BY <1>4 DEF FillRaises, InParse, InCall, FillFailed, IInv, StandsWhereItShould
  <2> QED
    BY <2>1, LocatedIsPiece, PieceNext, NoCallHolds
<1>5. CASE TakeLine
  <2>1. at = "lines" /\ InCall /\ InParse
    BY <1>5 DEF TakeLine, InCall
  <2> PICK n \in 1 .. Len(Rest) : IF Fits(n) THEN TakeCells(reader, n) ELSE TooLong
    BY <1>5 DEF TakeLine
  <2>2. CASE Fits(n)
    <3>1. TakeCells(reader, n)
      BY <2>2
    <3>3. n \in Nat /\ reader.bpos + consumed + n <= Len(reader.buf)
      BY <2>1, RestLength
    <3> QED
      BY <2>1, <3>1, <3>3, RestLength, TakeCellsCounts
  <2>3. CASE ~Fits(n)
    <3>1. /\ at' = "too_long" /\ reader' = reader /\ file' = file
          /\ StandsWhereItShould'
      BY <2>1, <2>3 DEF TooLong, InParse, IInv, StandsWhereItShould
    <3> QED
      BY <3>1, PieceNext, NoCallHolds DEF InCall
  <2> QED
    BY <2>2, <2>3
<1>6. CASE TakeRest
  <2>1. at = "lines" /\ InParse /\ file' = file /\ call' = call /\ goal' = goal
    BY <1>6 DEF TakeRest, InParse
  <2>2. CASE Len(map.raw) + Buffered(reader) > call.limit
    <3>1. at' = "too_long" /\ reader' = reader /\ StandsWhereItShould'
      BY <1>6, <2>1, <2>2 DEF TakeRest, TooLong, IInv, StandsWhereItShould, InParse, InCall
    <3> QED
      BY <2>1, <3>1, PieceNext, NoCallHolds DEF InCall
  <2>3. CASE ~(Len(map.raw) + Buffered(reader) > call.limit)
    <3>1. /\ reader' = Consumed(reader, Buffered(reader))
          /\ at' = "fill" /\ consumed' = 0 /\ bytes' = bytes + Len(Rest)
      BY <1>6, <2>3 DEF TakeRest
    <3>2. /\ Buffered(reader) \in Nat /\ reader.bpos + Buffered(reader) = Len(reader.buf)
          /\ Len(Rest) = Buffered(reader) - consumed
      BY <2>1, RestLength DEF Buffered
    <3> QED
      BY <2>1, <3>1, <3>2, ConsumeHolds, RestLength, SMTT(30)
  <2> QED
    BY <2>2, <2>3
<1>7. CASE ConsumeChunk
  <2>1. /\ at = "lines" /\ file' = file /\ call' = call /\ Len(Rest) = 0
        /\ reader' = Consumed(reader, consumed)
        /\ at' = "fill" /\ consumed' = 0 /\ bytes' = bytes /\ goal' = goal
    BY <1>7 DEF ConsumeChunk, InParse
  <2>2. bytes' = bytes + (consumed - consumed)
    BY <2>1, RestLength DEF IInv, Counted, InCall
  <2> QED
    BY <2>1, <2>2, ConsumeHolds, RestLength
<1>8. ASSUME NEW n \in 1 .. Capacity, Read(n) PROVE IInv'
  <2> DEFINE k(r) == IF n < Buffered(r) THEN n ELSE Buffered(r)
  <2>1. PICK r \in Filled(reader) : reader' = Consumed(r, k(r))
    BY <1>8 DEF Read
  <2>2. file' = file /\ ~InCall' /\ StandsWhereItShould'
    BY <1>8 DEF Read, OtherCall, InCall, StandsWhereItShould
  <2>3. IsReader(r) /\ IsPiece(r) /\ r.pos \in Nat
    BY FilledIsPiece
  <2>4. r.pos # None /\ k(r) \in Nat /\ r.bpos + k(r) <= Len(r.buf)
    BY <2>3 DEF Buffered, IsReader, IsPiece
  <2>5. IsReader(Consumed(r, k(r))) /\ IsPiece(Consumed(r, k(r)))
    BY <2>3, <2>4, ConsumedIsPiece
  <2> QED
    BY <2>1, <2>2, <2>5, PieceNext, NoCallHolds
<1>9. ASSUME NEW whence \in {"start", "current", "end"}, NEW offset \in Int, Seek(whence, offset)
      PROVE  IInv'
  <2> DEFINE target == Target(Located(reader), whence, offset)
  <2>1. /\ file' = file /\ ~InCall' /\ reader' = Sought(reader, whence, offset)
        /\ at' # "ok" /\ goal' = IF target < 0 THEN None ELSE target
    BY <1>9 DEF Seek, OtherCall, InCall
  <2>2. target \in Int
    BY LocatedIsPiece DEF Target, IsReader
  <2>3. target >= 0 => Sought(reader, whence, offset).pos = target
    BY SoughtIsPiece
  <2>4. StandsWhereItShould'
    <3> HIDE DEF target
    <3> QED
      BY <2>1, <2>2, <2>3 DEF StandsWhereItShould
  <2> QED
    BY <2>1, <2>4, SoughtIsPiece, PieceNext, NoCallHolds
<1>10. ASSUME NEW m, Edit(m) PROVE IInv'
  <2>1. file' = file /\ ~InCall' /\ reader' = reader /\ StandsWhereItShould'
    BY <1>10 DEF Edit, OtherCall, InCall, StandsWhereItShould
  <2> QED
    BY <2>1, PieceNext, NoCallHolds
<1>11. CASE UNCHANGED vars
  BY <1>11 DEF vars, locals, IInv, IsReader, IsPiece, BufStart, Counted, InCall, Located, StandsWhereItShould
<1>12. CASE Next
  <2>1. ASSUME NEW n \in 0 .. Len(file), Seek("start", n) PROVE IInv'
    BY <2>1, <1>9
  <2>2. ASSUME NEW n \in -2 .. 2, Seek("current", n) PROVE IInv'
    BY <2>2, <1>9
  <2>3. ASSUME NEW n \in -2 .. 1, Seek("end", n) PROVE IInv'
    BY <2>3, <1>9
  <2>4. CASE ParseStep
    BY <2>4, <1>2, <1>3, <1>4, <1>5, <1>6, <1>7 DEF ParseStep
  <2>5. ASSUME NEW key, NEW value,
               \/ SetBytes(key, value) \/ AppendBytes(key, value)
               \/ RemoveBytes(key) \/ SetStatusLine(value) \/ Clear
        PROVE  IInv'
    BY <2>5, <1>10 DEF SetBytes, AppendBytes, RemoveBytes, SetStatusLine, Clear
  <2> QED
    BY <1>12, <1>1, <1>8, <2>1, <2>2, <2>3, <2>4, <2>5 DEF Next
<1> QED
  BY <1>11, <1>12
-----------------------------------------------------------------------------
(* In every state, whatever was read short, sought or parsed, the adapter's   *)
(* buffer is the piece of the file at its position.                          *)
THEOREM BufferHolds == Spec => []BufferIsThePiece
<1>1. IInv => BufferIsThePiece
  BY DEF IInv, IsPiece, BufferIsThePiece, BufStart
<1> QED
  BY <1>1, InitHolds, StepHolds, PTL DEF Spec

(* In every state the reader is where the latest parse or seek should have    *)
(* left it.                                                                 *)
THEOREM PositionHolds == Spec => []StandsWhereItShould
<1>1. IInv => StandsWhereItShould
  BY DEF IInv
<1> QED
  BY <1>1, InitHolds, StepHolds, PTL DEF Spec
-----------------------------------------------------------------------------
(***************************************************************************)
(* The parser.  The block is what was there before and the text that was     *)
(* counted; the map is that of the lines in it, none of which is blank; and   *)
(* behind a CR there is no LF left in the chunk.                             *)
(***************************************************************************)
Cr == EndsInCR(call.before.raw)
Before == Len(call.before.raw)
LineEnds == Ends(Ahead, call.quirks, Cr)
BlankEnds == Blanks(Ahead, call.quirks, Cr)
Done == lineStart - Before
ReadTo(n) == ReadAll(SubSeq(Ahead, 1, n), call.quirks, Cr, call.before, call.status)

CallTyped ==
  /\ call.quirks \in BOOLEAN /\ call.status \in BOOLEAN
  /\ call.limit \in Nat /\ call.start \in Nat
  /\ IsMap(call.before)
Taken ==
  /\ bytes \in 0 .. Len(Ahead)
  /\ map.raw = call.before.raw \o SubSeq(Ahead, 1, bytes)
LinesTaken ==
  /\ lineStart \in Nat
  /\ Done \in {0} \cup LineEnds /\ Done <= bytes
  /\ \A j \in LineEnds : j <= bytes => j <= Done
  /\ \A j \in BlankEnds : j > bytes
MapIsRead ==
  /\ expect = (call.status /\ Done = 0)
  /\ IsMap(ReadTo(Done)) /\ SameMap(map, ReadTo(Done))
NotSplit == at = "lines" /\ EndsInCR(map.raw) => (Rest # << >> => Rest[1] # LF)
Most == IF call.limit < Before THEN Before ELSE call.limit
Within ==
  \/ Len(map.raw) <= Most
  \/ Len(map.raw) <= Most + 1 /\ map.raw[Len(map.raw)] = LF

ReadInv ==
  /\ IsMap(map)
  /\ Len(reader.buf) <= Capacity
  /\ InCall => CallTyped /\ Taken /\ LinesTaken /\ MapIsRead /\ NotSplit /\ Within
  /\ ReadsTheBlock

LEMMA AheadType ==
  ASSUME file \in Seq(Cells), call.start \in Nat
  PROVE  /\ Ahead \in Seq(Cells)
         /\ Len(Ahead) = IF call.start <= Len(file) THEN Len(file) - call.start ELSE 0
         /\ \A i \in 1 .. Len(Ahead) : Ahead[i] = file[call.start + i]
<1> DEFINE m == call.start + 1  n == Len(file)
<1>1. m \in Int /\ n \in Int /\ \A i \in m .. n : file[i] \in Cells
  OBVIOUS
<1>2. /\ SubSeq(file, m, n) \in Seq(Cells)
      /\ Len(SubSeq(file, m, n)) = IF m <= n THEN n - m + 1 ELSE 0
      /\ \A i \in 1 .. n - m + 1 : SubSeq(file, m, n)[i] = file[m + i - 1]
  <2> HIDE DEF m, n
  <2> QED
    BY <1>1, SubSeqProperties
<1>3. Ahead = SubSeq(file, m, n)
  BY DEF Ahead
<1>4. Len(Ahead) = IF call.start <= Len(file) THEN Len(file) - call.start ELSE 0
  BY <1>2, <1>3
<1>5. \A i \in 1 .. Len(Ahead) : i \in 1 .. n - m + 1 /\ m + i - 1 = call.start + i
  BY <1>4
<1> QED
  BY <1>2, <1>3, <1>4, <1>5

LEMMA ChunkType ==
  ASSUME NEW r, IsReader(r), IsPiece(r)
  PROVE  /\ Chunk(r) \in Seq(Cells) /\ Len(Chunk(r)) = Len(r.buf) - r.bpos
         /\ Buffered(r) = Len(Chunk(r))
         /\ \A i \in 1 .. Len(Chunk(r)) : Chunk(r)[i] = r.buf[r.bpos + i]
         /\ Len(r.buf) \in Nat /\ r.bpos \in Nat
<1>1. r.buf \in Seq(Cells) /\ r.bpos \in Nat /\ Len(r.buf) \in Nat /\ r.bpos <= Len(r.buf)
  BY DEF IsReader, IsPiece
<1> DEFINE n == Len(r.buf) - r.bpos
<1>2. n \in Nat /\ r.bpos + n = Len(r.buf) /\ r.bpos + n <= Len(r.buf)
  BY <1>1
<1>3. /\ SubSeq(r.buf, r.bpos + 1, r.bpos + n) \in Seq(Cells)
      /\ Len(SubSeq(r.buf, r.bpos + 1, r.bpos + n)) = n
      /\ \A i \in 1 .. n : SubSeq(r.buf, r.bpos + 1, r.bpos + n)[i] = r.buf[r.bpos + i]
  <2> DEFINE b == r.buf  k == r.bpos
  <2>1. b \in Seq(Cells) /\ k \in Nat /\ n \in Nat /\ k + n <= Len(b)
    BY <1>1, <1>2
  <2> HIDE DEF b, k, n
  <2>2. /\ SubSeq(b, k + 1, k + n) \in Seq(Cells) /\ Len(SubSeq(b, k + 1, k + n)) = n
        /\ \A i \in 1 .. n : SubSeq(b, k + 1, k + n)[i] = b[k + i]
    BY <2>1, PieceOf
  <2> QED
    BY <2>2 DEF b, k
<1> HIDE DEF n
<1>4. /\ Chunk(r) \in Seq(Cells) /\ Len(Chunk(r)) = n /\ Buffered(r) = n
      /\ \A i \in 1 .. n : Chunk(r)[i] = r.buf[r.bpos + i]
  BY <1>2, <1>3 DEF Chunk, Buffered, n
<1> QED
  BY <1>1, <1>4 DEF n

(* The cells of the chunk behind those that were taken are those of the text   *)
(* behind those that were counted.                                           *)
LEMMA CellsAhead ==
  ASSUME file \in Seq(Cells), call.start \in Nat, consumed \in Nat, bytes \in Nat,
         NEW r, IsReader(r), IsPiece(r), r.pos \in Nat, r.pos + consumed = call.start + bytes,
         NEW n \in Nat \ {0}, r.bpos + consumed + n <= Len(r.buf)
  PROVE  /\ bytes + n <= Len(Ahead)
         /\ consumed + n <= Len(Chunk(r))
         /\ \A i \in 1 .. n : Chunk(r)[consumed + i] = Ahead[bytes + i]
<1>1. /\ Chunk(r) \in Seq(Cells) /\ Len(Chunk(r)) = Len(r.buf) - r.bpos
      /\ \A i \in 1 .. Len(Chunk(r)) : Chunk(r)[i] = r.buf[r.bpos + i]
      /\ Len(r.buf) \in Nat /\ r.bpos \in Nat
  BY ChunkType
<1>2. r.pos # None /\ r.bpos <= r.pos
      /\ \A i \in 1 .. Len(r.buf) :
           BufStart(r) + i <= Len(file) /\ r.buf[i] = file[BufStart(r) + i]
  BY DEF IsPiece
<1>3. ASSUME NEW i \in 1 .. n
      PROVE  /\ r.pos + consumed + i <= Len(file)
             /\ Chunk(r)[consumed + i] = file[r.pos + consumed + i]
  <2>0. Len(Chunk(r)) = Len(r.buf) - r.bpos /\ Len(r.buf) \in Nat /\ r.bpos \in Nat
    BY <1>1
  <2>1. consumed + i \in 1 .. Len(Chunk(r)) /\ r.bpos + (consumed + i) \in 1 .. Len(r.buf)
    <3> DEFINE c == Len(Chunk(r))  b == Len(r.buf)  k == r.bpos
    <3>1. c = b - k /\ b \in Nat /\ k \in Nat /\ k + consumed + n <= b
      BY <2>0
    <3> HIDE DEF c, b, k
    <3>2. consumed + i \in 1 .. c /\ k + (consumed + i) \in 1 .. b
      BY <3>1
    <3> QED
      BY <3>2 DEF c, b, k
  <2>2. BufStart(r) + (r.bpos + (consumed + i)) = r.pos + consumed + i
    BY <1>1 DEF BufStart
  <2> QED
    BY <1>1, <1>2, <2>1, <2>2
<1>4. /\ Ahead \in Seq(Cells)
      /\ Len(Ahead) = IF call.start <= Len(file) THEN Len(file) - call.start ELSE 0
      /\ \A i \in 1 .. Len(Ahead) : Ahead[i] = file[call.start + i]
  BY AheadType
<1>5. n \in 1 .. n /\ call.start + bytes + n <= Len(file) /\ Len(file) \in Nat
  BY <1>3
<1>6. bytes + n <= Len(Ahead) /\ Len(Ahead) \in Nat
  BY <1>4, <1>5
<1>7. ASSUME NEW i \in 1 .. n PROVE Chunk(r)[consumed + i] = Ahead[bytes + i]
  <2>1. bytes + i \in 1 .. Len(Ahead) /\ call.start + (bytes + i) = r.pos + consumed + i
    BY <1>4, <1>6
  <2> QED
    BY <1>3, <1>4, <2>1
<1> QED
  <2>1. consumed + n <= Len(Chunk(r))
    BY <1>1
  <2> QED
    BY <1>6, <1>7, <2>1

(* So n more cells in the block are n more cells of the text.                *)
LEMMA BlockGrows ==
  ASSUME IInv, ReadInv, InCall, NEW r, IsReader(r), IsPiece(r), r.pos \in Nat,
         r.pos = Located(reader).pos, NEW n \in Nat \ {0}, r.bpos + consumed + n <= Len(r.buf)
  PROVE  /\ bytes + n \in 1 .. Len(Ahead)
         /\ map.raw \o SubSeq(Chunk(r), consumed + 1, consumed + n)
              = call.before.raw \o SubSeq(Ahead, 1, bytes + n)
         /\ consumed + n <= Len(Chunk(r))
         /\ \A i \in 1 .. n : Chunk(r)[consumed + i] = Ahead[bytes + i]
<1>1. /\ consumed \in Nat /\ bytes \in Nat /\ call.start \in Nat /\ r.pos + consumed = call.start + bytes
      /\ file \in Seq(Cells)
  BY DEF IInv, Counted
<1>2. /\ bytes + n <= Len(Ahead) /\ consumed + n <= Len(Chunk(r))
      /\ \A i \in 1 .. n : Chunk(r)[consumed + i] = Ahead[bytes + i]
  BY <1>1, CellsAhead
<1>3. Ahead \in Seq(Cells) /\ Chunk(r) \in Seq(Cells) /\ Len(Ahead) \in Nat /\ Len(Chunk(r)) \in Nat
  BY <1>1, AheadType, ChunkType
<1> DEFINE x == SubSeq(Chunk(r), consumed + 1, consumed + n)
           y == SubSeq(Ahead, bytes + 1, bytes + n)
           z == SubSeq(Ahead, 1, bytes)
<1>4. /\ x \in Seq(Cells) /\ Len(x) = n /\ \A i \in 1 .. n : x[i] = Chunk(r)[consumed + i]
  <2> DEFINE c == Chunk(r)
  <2>1. c \in Seq(Cells) /\ consumed + n <= Len(c) /\ consumed \in Nat
    BY <1>1, <1>2, <1>3
  <2> HIDE DEF c
  <2>2. /\ SubSeq(c, consumed + 1, consumed + n) \in Seq(Cells)
        /\ Len(SubSeq(c, consumed + 1, consumed + n)) = n
        /\ \A i \in 1 .. n : SubSeq(c, consumed + 1, consumed + n)[i] = c[consumed + i]
    BY <2>1, PieceOf
  <2> QED
    BY <2>2 DEF c
<1>5. /\ y \in Seq(Cells) /\ Len(y) = n /\ \A i \in 1 .. n : y[i] = Ahead[bytes + i]
  <2>1. Ahead \in Seq(Cells) /\ bytes + n <= Len(Ahead) /\ bytes \in Nat
    BY <1>1, <1>2, <1>3
  <2> QED
    BY <2>1, PieceOf
<1>6. x = y
  <2> HIDE DEF x, y
  <2> QED
    BY <1>2, <1>4, <1>5, SeqEqual
<1>7. z \o y = SubSeq(Ahead, 1, bytes + n)
  <2>1. 1 \in 1 .. Len(Ahead) + 1 /\ bytes \in 1 - 1 .. Len(Ahead) /\ bytes + n \in bytes .. Len(Ahead)
    BY <1>1, <1>2, <1>3
  <2> QED
    BY <1>3, <2>1, ConcatAdjacentSubSeq
<1>8. map.raw = call.before.raw \o z
  BY DEF ReadInv, Taken
<1> DEFINE Raw == Cells \cup {"warc"}
<1>9. call.before.raw \in Seq(Raw) /\ z \in Seq(Raw) /\ y \in Seq(Raw)
  <2>1. z \in Seq(Cells)
    BY <1>1, <1>2, <1>3, BeginningOf
  <2>2. Seq(Cells) \subseteq Seq(Raw)
    OBVIOUS
  <2>3. call.before.raw \in Seq(Raw)
    BY DEF ReadInv, CallTyped, IsMap
  <2>4. y \in Seq(Cells)
    BY <1>5
  <2> HIDE DEF Raw, y, z
  <2>5. y \in Seq(Raw) /\ z \in Seq(Raw)
    BY <2>1, <2>2, <2>4
  <2> QED
    BY <2>3, <2>5
<1>10. (call.before.raw \o z) \o y = call.before.raw \o (z \o y)
  <2> DEFINE w == call.before.raw
  <2>1. w \in Seq(Raw) /\ z \in Seq(Raw) /\ y \in Seq(Raw)
    BY <1>9
  <2> HIDE DEF Raw, w, y, z
  <2>2. (w \o z) \o y = w \o (z \o y)
    BY <2>1, ConcatAssociative, SMTT(30)
  <2> QED
    BY <2>2 DEF w
<1>11. map.raw \o x = call.before.raw \o SubSeq(Ahead, 1, bytes + n)
  <2> HIDE DEF x, y, z
  <2> QED
    BY <1>6, <1>7, <1>8, <1>10
<1>12. bytes + n \in 1 .. Len(Ahead)
  <2>1. bytes \in Nat /\ Len(Ahead) \in Nat /\ bytes + n <= Len(Ahead)
    BY <1>1, <1>2, <1>3
  <2> QED
    BY <2>1
<1> QED
  BY <1>2, <1>11, <1>12

LEMMA TextFrom ==
  ASSUME NEW S, NEW s \in Seq(S), NEW t \in Seq(S), NEW d \in 0 .. Len(t)
  PROVE  SubSeq(s \o t, Len(s) + d + 1, Len(s \o t)) = SubSeq(t, d + 1, Len(t))
<1>1. Len(s) \in Nat /\ Len(t) \in Nat /\ Len(s \o t) = Len(s) + Len(t)
  BY ConcatProperties
<1>2. CASE d = Len(t)
  <2>1. Len(s \o t) < Len(s) + d + 1 /\ Len(t) < d + 1
    BY <1>1, <1>2
  <2>2. SubSeq(s \o t, Len(s) + d + 1, Len(s \o t)) = << >>
    <3> DEFINE u == s \o t  m == Len(s) + d + 1  n == Len(s \o t)
    <3>1. m \in Int /\ n \in Int /\ n < m
      BY <1>1, <2>1
    <3> HIDE DEF u, m, n
    <3>2. SubSeq(u, m, n) = << >>
      BY <3>1, SubSeqEmpty
    <3> QED
      BY <3>2 DEF u, m, n
  <2>3. SubSeq(t, d + 1, Len(t)) = << >>
    BY <1>1, <2>1, SubSeqEmpty
  <2> QED
    BY <2>2, <2>3
<1>3. CASE d < Len(t)
  <2> DEFINE m == Len(s) + d + 1  n == Len(s) + Len(t)
  <2>1. /\ m \in Len(s) + 1 .. Len(s) + Len(t) /\ n \in Len(s) + 1 .. Len(s) + Len(t)
        /\ m - Len(s) = d + 1 /\ n - Len(s) = Len(t)
    BY <1>1, <1>3
  <2>2. SubSeq(s \o t, m, n) = SubSeq(t, m - Len(s), n - Len(s))
    <3> HIDE DEF m, n
    <3> QED
      BY <2>1, SubSeqOfConcat2
  <2> QED
    BY <1>1, <2>1, <2>2
<1> QED
  BY <1>1, <1>2, <1>3

(* The block and its last cell, and the line that is not finished in it.       *)
LEMMA BlockIsText ==
  ASSUME IsMap(call.before), Ahead \in Seq(Cells), lineStart \in Nat,
         NEW e \in 0 .. Len(Ahead), NEW raw, raw = call.before.raw \o SubSeq(Ahead, 1, e),
         Done \in 0 .. e
  PROVE  /\ raw \in Seq(Cells \cup {"warc"}) /\ Len(raw) = Before + e /\ Before \in Nat
         /\ SubSeq(raw, lineStart + 1, Len(raw)) = SubSeq(Ahead, Done + 1, e)
         /\ e > 0 => raw # << >> /\ raw[Len(raw)] = Ahead[e]
         /\ e = 0 => raw = call.before.raw
<1> DEFINE Raw == Cells \cup {"warc"}
           w == call.before.raw
           t == SubSeq(Ahead, 1, e)
<1>1. t \in Seq(Cells) /\ Len(t) = e /\ \A i \in 1 .. e : t[i] = Ahead[i]
  BY BeginningOf
<1>2. w \in Seq(Raw) /\ Len(w) \in Nat
  BY DEF IsMap
<1>3. t \in Seq(Raw)
  <2>1. Seq(Cells) \subseteq Seq(Raw)
    OBVIOUS
  <2> HIDE DEF t, Raw
  <2> QED
    BY <1>1, <2>1
<1>4. /\ raw = w \o t /\ Before = Len(w) /\ lineStart = Len(w) + Done
  BY <1>2 DEF Before, Done
<1>5. Done \in 0 .. e /\ e \in Nat
  OBVIOUS
<1> HIDE DEF Raw, w, t
<1>6. /\ w \o t \in Seq(Raw) /\ Len(w \o t) = Len(w) + Len(t)
      /\ \A i \in 1 .. Len(w) + Len(t) : (w \o t)[i] = IF i <= Len(w) THEN w[i] ELSE t[i - Len(w)]
  BY <1>2, <1>3, ConcatProperties
<1>7. SubSeq(w \o t, Len(w) + Done + 1, Len(w \o t)) = SubSeq(t, Done + 1, Len(t))
  <2>1. Done \in 0 .. Len(t)
    BY <1>1
  <2> QED
    BY <1>2, <1>3, <2>1, TextFrom
<1>8. SubSeq(t, Done + 1, e) = SubSeq(Ahead, Done + 1, e)
  <2>1. Done + 1 \in Nat \ {0} /\ e \in 0 .. e /\ Done + 1 <= e + 1
    BY <1>5
  <2> QED
    BY <2>1, PartOfBeginning DEF t
<1>9. ASSUME e > 0 PROVE w \o t # << >> /\ (w \o t)[Len(w \o t)] = Ahead[e]
  <2>1. Len(w) + Len(t) \in 1 .. Len(w) + Len(t) /\ ~(Len(w) + Len(t) <= Len(w)) /\ Len(w \o t) # 0
        /\ Len(w) + Len(t) - Len(w) = e /\ e \in 1 .. e
    BY <1>1, <1>2, <1>5, <1>6, <1>9
  <2>2. (w \o t)[Len(w \o t)] = t[e] /\ t[e] = Ahead[e]
    BY <1>1, <1>6, <2>1
  <2>3. w \o t # << >>
    BY <2>1
  <2> QED
    BY <2>2, <2>3
<1>10. ASSUME e = 0 PROVE w \o t = w
  <2>1. t = << >>
    BY <1>1, <1>3, <1>10
  <2> QED
    BY <1>2, <2>1, ConcatEmptySeq
<1>11. SubSeq(raw, lineStart + 1, Len(raw)) = SubSeq(Ahead, Done + 1, e)
  BY <1>1, <1>4, <1>7, <1>8
<1>12. raw \in Seq(Raw) /\ Len(raw) = Before + e /\ Before \in Nat
  BY <1>1, <1>2, <1>4, <1>6
<1>13. /\ e > 0 => raw # << >> /\ raw[Len(raw)] = Ahead[e]
       /\ e = 0 => raw = w
  BY <1>4, <1>9, <1>10
<1> QED
  BY <1>11, <1>12, <1>13 DEF Raw, w

(* One more line of the text: of the block it is the same text, and the map    *)
(* that has been read is read on with it.                                   *)
LEMMA LinePushed ==
  ASSUME CallTyped, Ahead \in Seq(Cells), LinesTaken, bytes \in Nat, MapIsRead,
         NEW e \in 1 .. Len(Ahead), e > bytes \/ (e = bytes /\ Done < e),
         \A j \in LineEnds : j < e => j <= bytes,
         NEW raw, raw = call.before.raw \o SubSeq(Ahead, 1, e)
  PROVE  LET line == SubSeq(raw, lineStart + 1, Len(raw))
         IN  /\ line = SubSeq(Ahead, Done + 1, e)
             /\ e \in LineEnds => (e \in BlankEnds <=> IsBlank(line, call.quirks))
             /\ e \in BlankEnds => ReadTo(e) = ReadTo(Done)
             /\ e \notin BlankEnds => ReadTo(e) = PushLine(ReadTo(Done), line, expect)
<1> DEFINE line == SubSeq(raw, lineStart + 1, Len(raw))
<1>0. Cr \in BOOLEAN
  BY DEF Cr, EndsInCR
<1>1. LineEnds \subseteq 1 .. Len(Ahead) /\ Len(Ahead) \in Nat
  BY EndsType DEF LineEnds
<1>2. Done \in 0 .. e /\ Done < e /\ e \in 0 .. Len(Ahead)
  BY <1>1 DEF LinesTaken
<1>3. line = SubSeq(Ahead, Done + 1, e)
  BY <1>2, BlockIsText DEF CallTyped, LinesTaken
<1>4. IsBefore(Ahead, call.quirks, Cr, Done, e)
  <2>1. \A j \in LineEnds : j < e => j <= Done
    BY DEF LinesTaken
  <2> QED
    BY <1>2, <2>1 DEF IsBefore, LineEnds, LinesTaken
<1>5. IsFull(Ahead, call.quirks, Cr, Done)
  <2>1. BlankEnds \subseteq Int
    BY DEF BlankEnds, Blanks, Ends
  <2>2. \A j \in BlankEnds : j > Done
    BY <1>2, <2>1 DEF LinesTaken
  <2> QED
    BY <2>2 DEF IsFull, LinesTaken, LineEnds, BlankEnds
<1>6. LineTo(Ahead, e, call.quirks, Cr) = SubSeq(Ahead, Done + 1, e)
  BY <1>4, LineFrom
<1>7. e \in LineEnds => (e \in BlankEnds <=> IsBlank(line, call.quirks))
  BY <1>3, <1>6 DEF BlankEnds, LineEnds, Blanks
<1>8. ReadTo(e) = IF e \in BlankEnds THEN ReadTo(Done)
                  ELSE PushLine(ReadTo(Done), SubSeq(Ahead, Done + 1, e), call.status /\ Done = 0)
  <2>1. call.quirks \in BOOLEAN /\ call.status \in BOOLEAN
    BY DEF CallTyped
  <2> QED
    BY <1>0, <1>4, <1>5, <2>1, ReadMore DEF ReadTo, BlankEnds
<1>9. expect = (call.status /\ Done = 0)
  BY DEF MapIsRead
<1> QED
  BY <1>3, <1>7, <1>8, <1>9

LEMMA CallFacts ==
  ASSUME IInv, ReadInv, InCall
  PROVE  /\ CallTyped /\ Taken /\ LinesTaken /\ MapIsRead /\ NotSplit /\ Within
         /\ IsMap(call.before) /\ IsMap(map)
         /\ file \in Seq(Cells) /\ Ahead \in Seq(Cells) /\ Len(Ahead) \in Nat
         /\ lineStart \in Nat /\ Done \in 0 .. bytes /\ bytes \in 0 .. Len(Ahead)
         /\ consumed \in Nat /\ call.limit \in Nat /\ call.quirks \in BOOLEAN
         /\ LineEnds \subseteq 1 .. Len(Ahead) /\ BlankEnds \subseteq LineEnds
<1>1. CallTyped /\ Taken /\ LinesTaken /\ MapIsRead /\ NotSplit /\ Within /\ IsMap(map)
  BY DEF ReadInv
<1>2. file \in Seq(Cells) /\ consumed \in Nat
  BY DEF IInv, Counted
<1>3. Ahead \in Seq(Cells)
  BY <1>1, <1>2, AheadType DEF CallTyped
<1>4. LineEnds \subseteq 1 .. Len(Ahead) /\ BlankEnds \subseteq LineEnds
  BY EndsType DEF LineEnds, BlankEnds, Blanks
<1>5. Done \in 0 .. bytes
  <2>1. Done \in {0} \cup LineEnds /\ Done <= bytes
    BY <1>1 DEF LinesTaken
  <2>2. Done \in Nat /\ bytes \in Nat
    BY <1>1, <1>3, <1>4, <2>1 DEF Taken
  <2> QED
    BY <2>1, <2>2
<1> QED
  BY <1>1, <1>2, <1>3, <1>4, <1>5 DEF CallTyped, Taken, LinesTaken

LEMMA LastOfBlock ==
  ASSUME IInv, ReadInv, InCall
  PROVE  /\ map.raw \in Seq(Cells \cup {"warc"}) /\ Len(map.raw) = Before + bytes /\ Before \in Nat
         /\ EndsInCR(map.raw) <=> IF bytes = 0 THEN Cr ELSE Ahead[bytes] = CR
<1>1. map.raw = call.before.raw \o SubSeq(Ahead, 1, bytes)
  BY CallFacts DEF Taken
<1>2. /\ map.raw \in Seq(Cells \cup {"warc"}) /\ Len(map.raw) = Before + bytes /\ Before \in Nat
      /\ bytes > 0 => map.raw # << >> /\ map.raw[Len(map.raw)] = Ahead[bytes]
      /\ bytes = 0 => map.raw = call.before.raw
  BY <1>1, CallFacts, BlockIsText
<1>3. bytes = 0 => (EndsInCR(map.raw) <=> Cr)
  BY <1>2 DEF Cr
<1>4. bytes > 0 => (EndsInCR(map.raw) <=> Ahead[bytes] = CR)
  BY <1>2 DEF EndsInCR
<1>5. bytes = 0 \/ bytes > 0
  BY CallFacts
<1> QED
  BY <1>2, <1>3, <1>4, <1>5

LEMMA EndAt ==
  ASSUME NEW s, NEW q \in BOOLEAN, NEW i, i > 1
  PROVE  IsEnd(s, i, q) <=> s[i] = LF /\ (q \/ s[i - 1] = CR)
  BY DEF IsEnd

(* Which of the cells ahead end a line.                                      *)
LEMMA EndAhead ==
  ASSUME IInv, ReadInv, InCall, NEW i \in Nat \ {0}, bytes + i <= Len(Ahead)
  PROVE  bytes + i \in LineEnds <=>
           /\ Ahead[bytes + i] = LF
           /\ call.quirks \/ IF i = 1 THEN EndsInCR(map.raw) ELSE Ahead[bytes + i - 1] = CR
<1>1. bytes \in Nat /\ Len(Ahead) \in Nat /\ call.quirks \in BOOLEAN
  BY CallFacts
<1>2. bytes + i \in 1 .. Len(Ahead)
  BY <1>1
<1>3. bytes + i \in LineEnds <=>
        IsEnd(Ahead, bytes + i, call.quirks) \/ (Cr /\ bytes + i = 1 /\ Ahead[1] = LF)
  BY <1>2 DEF LineEnds, Ends
<1>4. EndsInCR(map.raw) <=> IF bytes = 0 THEN Cr ELSE Ahead[bytes] = CR
  BY LastOfBlock
<1>5. CASE i = 1 /\ bytes = 0
  BY <1>3, <1>4, <1>5 DEF IsEnd
<1>6. CASE i = 1 /\ bytes # 0
  <2>1. bytes + i - 1 = bytes /\ bytes + i > 1 /\ bytes + i # 1
    BY <1>1, <1>6
  <2>2. IsEnd(Ahead, bytes + i, call.quirks) <=>
          Ahead[bytes + i] = LF /\ (call.quirks \/ Ahead[bytes] = CR)
    BY <1>1, <2>1, EndAt
  <2> QED
    BY <1>3, <1>4, <1>6, <2>1, <2>2
<1>7. CASE i # 1
  <2>1. bytes + i > 1 /\ bytes + i # 1
    BY <1>1, <1>7
  <2>2. IsEnd(Ahead, bytes + i, call.quirks) <=>
          Ahead[bytes + i] = LF /\ (call.quirks \/ Ahead[bytes + i - 1] = CR)
    BY <1>1, <2>1, EndAt
  <2> QED
    BY <1>3, <1>7, <2>1, <2>2
<1> QED
  BY <1>5, <1>6, <1>7

(* The rest of the chunk is text ahead, with the same line ends.              *)
LEMMA RestAhead ==
  ASSUME IInv, ReadInv, at = "lines"
  PROVE  /\ Len(Rest) \in Nat /\ bytes + Len(Rest) <= Len(Ahead)
         /\ \A i \in 1 .. Len(Rest) :
              /\ Rest[i] = Ahead[bytes + i]
              /\ bytes + i \in LineEnds <=> IsEnd(Rest, i, call.quirks)
<1>0. InCall
  BY DEF InCall
<1>1. /\ Rest \in Seq(Cells) /\ Len(Rest) = Len(reader.buf) - reader.bpos - consumed
      /\ Len(reader.buf) \in Nat /\ reader.bpos \in Nat /\ consumed \in Nat
      /\ reader.bpos + consumed <= Len(reader.buf)
      /\ reader.pos # None /\ reader.pos \in Nat /\ reader.pos = Located(reader).pos
  BY RestLength
<1>2. IsReader(reader) /\ IsPiece(reader)
  BY DEF IInv
<1>3. bytes \in Nat /\ Len(Ahead) \in Nat /\ bytes <= Len(Ahead)
  BY <1>0, CallFacts
<1>4. CASE Len(Rest) = 0
  BY <1>3, <1>4
<1>5. CASE Len(Rest) # 0
  <2> DEFINE n == Len(Rest)
  <2>1. n \in Nat \ {0} /\ reader.bpos + consumed + n <= Len(reader.buf)
        /\ consumed + n = Len(reader.buf) - reader.bpos
    BY <1>1, <1>5
  <2> HIDE DEF n
  <2>2. /\ bytes + n \in 1 .. Len(Ahead)
        /\ consumed + n <= Len(Chunk(reader))
        /\ \A i \in 1 .. n : Chunk(reader)[consumed + i] = Ahead[bytes + i]
    BY <1>0, <1>1, <1>2, <2>1, BlockGrows
  <2>3. Rest = SubSeq(Chunk(reader), consumed + 1, consumed + n)
    BY <2>1 DEF Rest, Buffered
  <2>4. \A i \in 1 .. n : Rest[i] = Chunk(reader)[consumed + i]
    BY <1>1, <1>2, <2>1, <2>2, <2>3, ChunkType, PieceOf
  <2>5. \A i \in 1 .. n : Rest[i] = Ahead[bytes + i]
    BY <2>2, <2>4
  <2>6. bytes + n <= Len(Ahead)
    BY <2>2
  <2>7. ASSUME NEW i \in 1 .. n
        PROVE  bytes + i \in LineEnds <=> IsEnd(Rest, i, call.quirks)
    <3>1. i \in Nat \ {0} /\ bytes + i <= Len(Ahead)
      BY <1>3, <2>1, <2>6
    <3>2. bytes + i \in LineEnds <=>
            /\ Ahead[bytes + i] = LF
            /\ call.quirks \/ IF i = 1 THEN EndsInCR(map.raw) ELSE Ahead[bytes + i - 1] = CR
      BY <1>0, <3>1, EndAhead
    <3>3. CASE i = 1
      <4>1. Rest # << >>
        BY <2>1 DEF n
      <4>2. EndsInCR(map.raw) => Rest[1] # LF
        BY <1>0, <4>1, CallFacts DEF NotSplit
      <4> QED
        BY <2>5, <3>2, <3>3, <4>2 DEF IsEnd
    <3>4. CASE i # 1
      <4>1. i > 1 /\ i - 1 \in 1 .. n /\ bytes + (i - 1) = bytes + i - 1
        BY <1>3, <2>1, <3>4
      <4>2. Rest[i - 1] = Ahead[bytes + i - 1]
        BY <2>5, <4>1
      <4> QED
        BY <2>5, <3>2, <3>4, <4>1, <4>2 DEF IsEnd
    <3> QED
      BY <3>3, <3>4
  <2> QED
    BY <2>1, <2>5, <2>6, <2>7 DEF n
<1> QED
  BY <1>4, <1>5

(* A step of a call reads the same text.                                     *)
LEMMA SameText ==
  ASSUME file' = file, call' = call
  PROVE  /\ Ahead' = Ahead /\ Cr' = Cr /\ Before' = Before
         /\ LineEnds' = LineEnds /\ BlankEnds' = BlankEnds /\ Most' = Most
         /\ CallTyped => CallTyped'
<1>1. Ahead' = Ahead /\ Cr' = Cr /\ Before' = Before
  BY DEF Ahead, Cr, Before
<1>2. LineEnds' = LineEnds /\ BlankEnds' = BlankEnds /\ Most' = Most
  BY <1>1 DEF LineEnds, BlankEnds, Most
<1>3. CallTyped => CallTyped'
  BY DEF CallTyped
<1> QED
  BY <1>1, <1>2, <1>3

(* A call that ends well has read the block.                                 *)
LEMMA WellEnded ==
  ASSUME CallTyped, Before \in Nat, file' = file, call' = call, at' = "ok", NEW e \in Nat, bytes' = e,
         BlockLength(Ahead, call.quirks, Cr) = e, SameMap(map', ReadTo(e)),
         Len(map'.raw) \in Nat, Len(map'.raw) <= Most + 1
  PROVE  ReadsTheBlock'
<1>1. Ahead' = Ahead /\ Cr' = Cr /\ at' # "too_long"
  BY SameText
<1>2. ReadTo(e) = ReadAs(Ahead, call.quirks, Cr, call.before, call.status)
  BY ReadAsBlock DEF ReadTo
<1>3. Len(map'.raw) <= call.limit + 1 \/ Len(map'.raw) <= Before + 1
  BY DEF Most, CallTyped
<1>4. SameMap(map, ReadAs(Ahead, call.quirks, EndsInCR(call.before.raw), call.before, call.status))'
  BY <1>1, <1>2 DEF Cr, SameMap
<1>5. bytes' = BlockLength(Ahead, call.quirks, EndsInCR(call.before.raw))'
  BY <1>1 DEF Cr
<1> QED
  BY <1>1, <1>3, <1>4, <1>5 DEF ReadsTheBlock, Before

(* A line of the chunk, or the LF that was missing to one.                    *)
LEMMA TakeCellsReads ==
  ASSUME IInv, ReadInv, InCall, NEW r, IsReader(r), IsPiece(r), r.pos \in Nat,
         r.pos = Located(reader).pos, Len(r.buf) <= Capacity,
         NEW n \in Nat \ {0}, r.bpos + consumed + n <= Len(r.buf),
         TakeCells(r, n), InParse,
         bytes + n \in LineEnds, \A j \in LineEnds : j < bytes + n => j <= bytes,
         Fits(n) \/ (n = 1 /\ EndsInCR(map.raw))
  PROVE  ReadInv'
<1> DEFINE e == bytes + n
           raw == map.raw \o SubSeq(Chunk(r), consumed + 1, consumed + n)
           line == Line(raw)
<1>1. /\ CallTyped /\ LinesTaken /\ MapIsRead /\ Within /\ IsMap(map)
      /\ Ahead \in Seq(Cells) /\ Len(Ahead) \in Nat /\ bytes \in Nat /\ call.limit \in Nat
      /\ LineEnds \subseteq 1 .. Len(Ahead) /\ BlankEnds \subseteq LineEnds
      /\ Done \in 0 .. bytes /\ lineStart \in Nat /\ IsMap(call.before)
  BY CallFacts
<1>2. e \in 1 .. Len(Ahead) /\ raw = call.before.raw \o SubSeq(Ahead, 1, e)
  BY BlockGrows
<1>3. e \in Nat /\ e > 0 /\ e > bytes /\ e \in 0 .. Len(Ahead) /\ Done \in 0 .. e
  BY <1>1, <1>2
<1>4. /\ e \in BlankEnds <=> IsBlank(line, call.quirks)
      /\ e \in BlankEnds => ReadTo(e) = ReadTo(Done)
      /\ e \notin BlankEnds => ReadTo(e) = PushLine(ReadTo(Done), line, expect)
  <2> HIDE DEF e, raw
  <2>1. e \in LineEnds /\ \A j \in LineEnds : j < e => j <= bytes
    BY DEF e
  <2> QED
    BY <1>1, <1>2, <1>3, <2>1, LinePushed DEF line, Line
<1>5. /\ raw \in Seq(Cells \cup {"warc"}) /\ Len(raw) = Before + e /\ Before \in Nat
      /\ raw # << >> /\ raw[Len(raw)] = LF
  <2> HIDE DEF e, raw
  <2>1. /\ raw \in Seq(Cells \cup {"warc"}) /\ Len(raw) = Before + e /\ Before \in Nat
        /\ raw # << >> /\ raw[Len(raw)] = Ahead[e]
    BY <1>1, <1>2, <1>3, BlockIsText
  <2>2. Ahead[e] = LF
    <3>1. e \in LineEnds
      BY DEF e
    <3> QED
      BY <3>1 DEF LineEnds, Ends, IsEnd
  <2> QED
    BY <2>1, <2>2
<1>6. Len(raw) <= Most \/ Len(raw) <= Most + 1
  <2>1. Len(map.raw) = Before + bytes /\ Len(raw) = Len(map.raw) + n
    <3>1. Len(map.raw) = Before + bytes
      BY LastOfBlock
    <3>2. Len(raw) = Before + e
      BY <1>5
    <3>3. Before \in Nat /\ bytes \in Nat
      BY <1>1, <1>5
    <3> DEFINE l == Len(raw)  k == Len(map.raw)
    <3>4. l = Before + (bytes + n) /\ k = Before + bytes
      BY <3>1, <3>2
    <3> HIDE DEF l, k, raw
    <3>5. l = k + n
      BY <3>3, <3>4
    <3> QED
      BY <3>1, <3>5 DEF l, k
  <2>2. Most \in Nat /\ Most >= call.limit
    <3>1. Before \in Nat /\ call.limit \in Nat
      BY <1>1, <1>5
    <3> QED
      BY <3>1 DEF Most
  <2>3. Len(map.raw) \in Nat
    BY <1>1, <1>5, <2>1
  <2>4. CASE Fits(n)
    <3>1. Len(map.raw) + n <= call.limit
      BY <2>4 DEF Fits
    <3> HIDE DEF raw
    <3> QED
      BY <1>1, <2>1, <2>2, <2>3, <3>1
  <2>5. CASE n = 1 /\ EndsInCR(map.raw)
    <3>1. Len(map.raw) <= Most
      BY <1>1, <2>5 DEF Within, EndsInCR, CR, LF
    <3> HIDE DEF raw
    <3> QED
      BY <2>1, <2>2, <2>3, <2>5, <3>1
  <2> QED
    BY <2>4, <2>5
<1>7. bytes' = e /\ file' = file /\ call' = call
  BY DEF TakeCells, InParse
<1>8. CASE IsBlank(line, call.quirks)
  <2>1. at' = "ok" /\ map' = [map EXCEPT !.raw = raw] /\ reader' = Consumed(r, consumed + n)
    BY <1>8 DEF TakeCells
  <2> HIDE DEF e, raw, line
  <2>2. IsMap(map') /\ map'.raw = raw /\ SameMap(map', map)
    BY <1>1, <1>5, <2>1 DEF IsMap, SameMap
  <2>3. SameMap(map', ReadTo(e))
    BY <1>1, <1>4, <1>8, <2>2 DEF MapIsRead, SameMap
  <2>4. BlockLength(Ahead, call.quirks, Cr) = e
    <3>1. e \in BlankEnds
      BY <1>4, <1>8
    <3>2. ASSUME NEW j \in BlankEnds PROVE e <= j
      <4>1. j > bytes /\ (j < e => j <= bytes) /\ j \in Nat
        BY <1>1 DEF LinesTaken, e
      <4> QED
        BY <1>1, <1>3, <4>1
    <3> QED
      BY <1>1, <3>1, <3>2, BlockIs DEF BlankEnds
  <2>5. Len(map'.raw) \in Nat /\ Len(map'.raw) <= Most + 1
    <3>1. Most \in Nat
      BY <1>1, <1>5 DEF Most
    <3> QED
      BY <1>3, <1>5, <1>6, <2>2, <3>1
  <2>6. ReadsTheBlock'
    BY <1>1, <1>3, <1>5, <1>7, <2>1, <2>3, <2>4, <2>5, WellEnded
  <2>7. reader'.buf = r.buf /\ ~InCall'
    BY <2>1 DEF Consumed, At, InCall
  <2> QED
    BY <2>2, <2>6, <2>7 DEF ReadInv
<1>9. CASE ~IsBlank(line, call.quirks)
  <2>1. /\ at' = "lines" /\ map' = PushLine([map EXCEPT !.raw = raw], line, expect)
        /\ expect' = FALSE /\ lineStart' = Len(raw) /\ reader' = r
    BY <1>9 DEF TakeCells
  <2> HIDE DEF e, raw, line
  <2> DEFINE m == [map EXCEPT !.raw = raw]
  <2>2. IsMap(m) /\ m.raw = raw /\ SameMap(m, ReadTo(Done)) /\ IsMap(ReadTo(Done)) /\ expect \in BOOLEAN
    <3>1. IsMap(m) /\ m.raw = raw /\ SameMap(m, map)
      <4>1. m = [status |-> map.status, headers |-> map.headers, raw |-> raw, dirty |-> map.dirty]
        BY <1>1 DEF IsMap
      <4> HIDE DEF m
      <4> QED
        BY <1>5, <4>1 DEF IsMap, SameMap
    <3>2. SameMap(map, ReadTo(Done)) /\ IsMap(ReadTo(Done)) /\ expect = (call.status /\ Done = 0)
      BY <1>1 DEF MapIsRead
    <3>3. expect \in BOOLEAN
      BY <3>2
    <3>4. SameMap(m, ReadTo(Done))
      BY <3>1, <3>2 DEF SameMap
    <3> QED
      BY <3>1, <3>2, <3>3, <3>4
  <2>3. /\ IsMap(map') /\ map'.raw = raw
        /\ IsMap(ReadTo(e)) /\ SameMap(map', ReadTo(e))
    <3>1. e \notin BlankEnds
      BY <1>4, <1>9
    <3>2. ReadTo(e) = PushLine(ReadTo(Done), line, expect) /\ map' = PushLine(m, line, expect)
      BY <1>4, <2>1, <3>1
    <3> HIDE DEF m
    <3> QED
      BY <2>2, <3>2, PushLineSame
  <2>4. Done' = e
    BY <1>3, <1>5, <1>7, <2>1, SameText DEF Done
  <2>5. CallTyped'
    BY <1>1, <1>7, SameText
  <2>6. Taken'
    BY <1>2, <1>3, <1>7, <2>3, SameText DEF Taken
  <2>7. LinesTaken'
    <3>1. \A j \in BlankEnds : j > e
      <4> SUFFICES ASSUME NEW j \in BlankEnds PROVE j > e
        OBVIOUS
      <4>1. j > bytes /\ (j < e => j <= bytes) /\ j \in Nat /\ j # e
        BY <1>1, <1>4, <1>9 DEF LinesTaken, e
      <4> QED
        BY <1>1, <1>3, <4>1
    <3>2. lineStart' \in Nat /\ e \in LineEnds /\ e <= e
      BY <1>3, <1>5, <2>1 DEF e
    <3>3. LineEnds' = LineEnds /\ BlankEnds' = BlankEnds
      BY <1>7, SameText
    <3> QED
      BY <1>7, <2>4, <3>1, <3>2, <3>3 DEF LinesTaken
  <2>8. MapIsRead'
    <3>1. Ahead' = Ahead /\ Cr' = Cr
      BY <1>7, SameText
    <3>2. expect' = (call'.status /\ Done' = 0)
      <4>1. Done' # 0
        BY <1>3, <2>4
      <4> QED
        BY <2>1, <4>1
    <3>3. ReadTo(Done)' = ReadTo(e)
      BY <1>7, <2>4, <3>1 DEF ReadTo
    <3> QED
      BY <2>3, <3>2, <3>3 DEF MapIsRead
  <2>9. NotSplit'
    BY <1>5, <2>3 DEF NotSplit, EndsInCR, CR, LF
  <2>10. Within'
    <3>1. Most' = Most
      BY <1>7, SameText
    <3> QED
      BY <1>5, <1>6, <2>3, <3>1 DEF Within
  <2>11. ReadsTheBlock'
    BY <2>1 DEF ReadsTheBlock
  <2> QED
    BY <2>1, <2>3, <2>5, <2>6, <2>7, <2>8, <2>9, <2>10, <2>11 DEF ReadInv
<1> QED
  BY <1>8, <1>9

(* What fill_buf() returns is no longer than the buffer, and nothing only at   *)
(* the end of the file.                                                     *)
LEMMA FilledIsShort ==
  ASSUME file \in Seq(Cells), NEW r, IsReader(r), IsPiece(r), Len(r.buf) <= Capacity,
         NEW s \in Filled(r)
  PROVE  /\ Len(s.buf) <= Capacity
         /\ Chunk(s) = << >> => s.pos >= Len(file)
<1>1. IsReader(s) /\ IsPiece(s) /\ s.pos \in Nat
  BY FilledIsPiece
<1>2. /\ Len(Chunk(s)) = Len(s.buf) - s.bpos /\ Len(s.buf) \in Nat /\ s.bpos \in Nat
  BY <1>1, ChunkType
<1>3. /\ r.bpos \in Nat /\ r.fpos \in Nat /\ Len(r.buf) \in Nat /\ r.bpos <= Len(r.buf)
      /\ Len(file) \in Nat
  BY DEF IsReader, IsPiece
<1>4. CASE r.bpos < Len(r.buf)
  <2>1. s = r
    BY <1>4, FilledIsPiece
  <2>2. Len(Chunk(s)) # 0
    BY <1>2, <1>3, <1>4, <2>1
  <2> QED
    BY <2>1, <2>2
<1>5. CASE ~(r.bpos < Len(r.buf))
  <2>1. PICK k \in PyReads(r.fpos) : s = FilledWith(Located(r), k)
    BY <1>5 DEF Filled
  <2>2. k \in Nat /\ k <= Capacity /\ (k = 0 => r.fpos >= Len(file)) /\ (k # 0 => r.fpos + k <= Len(file))
    BY <1>3 DEF PyReads
  <2>3. Located(r).fpos = r.fpos /\ Located(r) \in [fpos : Nat, pos : Nat \cup {None}, buf : Seq(Cells), bpos : Nat]
    BY LocatedIsPiece DEF IsReader
  <2>4. s.buf = SubSeq(file, r.fpos + 1, r.fpos + k) /\ s.bpos = 0 /\ s.fpos = r.fpos + k
    <3> DEFINE q == Located(r)
    <3>1. s = [fpos |-> q.fpos + k, pos |-> q.pos, buf |-> SubSeq(file, r.fpos + 1, r.fpos + k), bpos |-> 0]
      BY <2>1, <2>3 DEF FilledWith, Located
    <3> HIDE DEF q
    <3> QED
      BY <2>3, <3>1 DEF q
  <2>5. Len(s.buf) = k
    <3> DEFINE p == r.fpos
    <3>1. p \in Nat
      BY <1>3
    <3> HIDE DEF p
    <3>2. CASE k = 0
      <4>1. p + 1 \in Int /\ p + k \in Int /\ p + k < p + 1
        BY <2>2, <3>1, <3>2
      <4>2. SubSeq(file, p + 1, p + k) = << >>
        BY <4>1, SubSeqEmpty
      <4>3. s.buf = << >> /\ Len(<< >>) = 0
        BY <2>4, <4>2 DEF p
      <4> QED
        BY <3>2, <4>3
    <3>3. CASE k # 0
      <4>1. p + k <= Len(file)
        BY <2>2, <3>3 DEF p
      <4>2. Len(SubSeq(file, p + 1, p + k)) = k
        BY <2>2, <3>1, <4>1, PieceOf
      <4> QED
        BY <2>4, <4>2 DEF p
    <3> QED
      BY <3>2, <3>3
  <2>6. ASSUME Chunk(s) = << >> PROVE s.pos >= Len(file)
    <3>1. Len(Chunk(s)) = 0
      BY <2>6
    <3>2. k = 0
      <4>1. k \in Nat
        BY <2>2
      <4> QED
        <5>1. s.bpos = 0 /\ Len(s.buf) - s.bpos = 0
          BY <1>2, <2>4, <3>1
        <5> DEFINE b == s.bpos  l == Len(s.buf)
        <5>2. b = 0 /\ l - b = 0 /\ l = k
          BY <2>5, <5>1
        <5> HIDE DEF b, l
        <5> QED
          BY <4>1, <5>2
    <3>3. s.fpos = s.pos - s.bpos + Len(s.buf)
      BY <1>1 DEF IsPiece, BufStart
    <3>4. s.fpos = r.fpos /\ s.bpos = 0 /\ Len(s.buf) = 0 /\ r.fpos >= Len(file)
      BY <1>3, <2>2, <2>4, <2>5, <3>2
    <3>5. s.pos = s.fpos
      BY <1>1, <3>3, <3>4
    <3> QED
      BY <3>4, <3>5
  <2> QED
    BY <2>2, <2>5, <2>6
<1> QED
  BY <1>4, <1>5

(* The end of the stream.                                                   *)
LEMMA FillAtEndReads ==
  ASSUME IInv, ReadInv, FillAtEnd
  PROVE  ReadInv'
<1>0. at = "fill" /\ InCall /\ InParse /\ UNCHANGED locals /\ at' = "ok"
  BY DEF FillAtEnd, InCall
<1>1. /\ CallTyped /\ LinesTaken /\ MapIsRead /\ Within /\ IsMap(map) /\ Taken
      /\ Ahead \in Seq(Cells) /\ Len(Ahead) \in Nat /\ bytes \in 0 .. Len(Ahead)
      /\ call.limit \in Nat /\ file \in Seq(Cells)
      /\ LineEnds \subseteq 1 .. Len(Ahead) /\ BlankEnds \subseteq LineEnds
      /\ Done \in 0 .. bytes /\ lineStart \in Nat /\ IsMap(call.before)
  BY <1>0, CallFacts
<1>2. PICK r \in Filled(reader) : Chunk(r) = << >> /\ reader' = r
  BY DEF FillAtEnd
<1>3. IsReader(reader) /\ IsPiece(reader) /\ Len(reader.buf) <= Capacity
  BY DEF IInv, ReadInv
<1>4. Len(r.buf) <= Capacity /\ r.pos >= Len(file) /\ r.pos = Located(reader).pos /\ r.pos \in Nat
  BY <1>1, <1>2, <1>3, FilledIsShort, FilledIsPiece
<1>5. r.pos = call.start + bytes
  BY <1>0, <1>4 DEF IInv, Counted
<1>6. bytes = Len(Ahead)
  <2>1. Len(Ahead) = IF call.start <= Len(file) THEN Len(file) - call.start ELSE 0
    BY <1>1, AheadType DEF CallTyped
  <2>2. call.start \in Nat /\ Len(file) \in Nat
    BY <1>1 DEF CallTyped
  <2> QED
    BY <1>1, <1>4, <1>5, <2>1, <2>2
<1>7. BlankEnds = {}
  <2>1. \A j \in BlankEnds : j > bytes /\ j \in 1 .. Len(Ahead)
    BY <1>1 DEF LinesTaken
  <2> QED
    BY <1>1, <1>6, <2>1
<1>8. BlockLength(Ahead, call.quirks, Cr) = bytes
  BY <1>1, <1>6, <1>7, BlockIs DEF BlankEnds
<1> DEFINE line == Line(map.raw)
<1>9. /\ line = SubSeq(Ahead, Done + 1, bytes)
      /\ Len(map.raw) = Before + bytes /\ Before \in Nat /\ map.raw \in Seq(Cells \cup {"warc"})
  <2>1. map.raw = call.before.raw \o SubSeq(Ahead, 1, bytes)
    BY <1>1 DEF Taken
  <2> QED
    BY <1>1, <2>1, BlockIsText DEF Line
<1>10. IsMap(map') /\ map'.raw = map.raw /\ SameMap(map', ReadTo(bytes))
  <2>1. CASE Done = bytes
    <3>1. line = << >>
      <4>1. bytes < Done + 1 /\ Done + 1 \in Int /\ bytes \in Int
        BY <1>1, <2>1
      <4> QED
        BY <1>9, <4>1, SubSeqEmpty
    <3>2. map' = map
      BY <3>1 DEF FillAtEnd
    <3> QED
      BY <1>1, <2>1, <3>2 DEF MapIsRead
  <2>2. CASE Done # bytes
    <3>1. Done < bytes /\ bytes \in 1 .. Len(Ahead) /\ bytes \in Nat
      BY <1>1, <2>2
    <3>2. line # << >>
      <4>1. Done + 1 \in Nat \ {0} /\ bytes \in 0 .. Len(Ahead) /\ Done + 1 <= bytes + 1
            /\ bytes - (Done + 1) + 1 # 0
        BY <1>1, <3>1
      <4>2. Len(SubSeq(Ahead, Done + 1, bytes)) # 0
        BY <1>1, <4>1, PartOf
      <4> QED
        <5> HIDE DEF line
        <5>1. Len(line) # 0
          BY <1>9, <4>2
        <5> QED
          BY <5>1
    <3>3. map' = PushLine(map, line, expect)
      BY <3>2 DEF FillAtEnd
    <3>4. ReadTo(bytes) = PushLine(ReadTo(Done), line, expect)
      <4>1. map.raw = call.before.raw \o SubSeq(Ahead, 1, bytes)
        BY <1>1 DEF Taken
      <4>2. \A j \in LineEnds : j < bytes => j <= bytes
        BY <1>1
      <4>3. bytes \notin BlankEnds
        BY <1>7
      <4> QED
        BY <1>1, <3>1, <4>1, <4>2, <4>3, LinePushed DEF Line
    <3>5. IsMap(ReadTo(Done)) /\ SameMap(map, ReadTo(Done)) /\ expect = (call.status /\ Done = 0)
      BY <1>1 DEF MapIsRead
    <3>6. expect \in BOOLEAN
      BY <3>5
    <3> HIDE DEF line
    <3> QED
      BY <1>1, <3>3, <3>4, <3>5, <3>6, PushLineSame
  <2> QED
    BY <2>1, <2>2
<1>11. file' = file /\ call' = call /\ bytes' = bytes
  BY <1>0 DEF InParse, locals
<1>12. Len(map'.raw) \in Nat /\ Len(map'.raw) <= Most + 1
  <2>1. Len(map.raw) <= Most \/ Len(map.raw) <= Most + 1
    BY <1>1 DEF Within
  <2>2. Most \in Nat /\ Len(map.raw) \in Nat
    BY <1>1, <1>9 DEF Most
  <2> QED
    BY <1>10, <2>1, <2>2
<1>13. ReadsTheBlock'
  <2>1. bytes \in Nat
    BY <1>1
  <2> QED
    BY <1>0, <1>1, <1>8, <1>9, <1>10, <1>11, <1>12, <2>1, WellEnded
<1>14. Len(reader'.buf) <= Capacity /\ ~InCall'
  BY <1>0, <1>2, <1>4 DEF InCall
<1> QED
  BY <1>10, <1>13, <1>14 DEF ReadInv

(* The block is no shorter than what is known to be free of its end.          *)
LEMMA BlockReaches ==
  ASSUME NEW S, NEW s \in Seq(S), NEW q, NEW cr, NEW n \in 0 .. Len(s),
         \A j \in Blanks(s, q, cr) : j >= n
  PROVE  BlockLength(s, q, cr) \in Nat /\ BlockLength(s, q, cr) >= n
<1> DEFINE B == Blanks(s, q, cr)
<1>1. B \subseteq Nat
  BY DEF Blanks, Ends
<1>2. CASE B = {}
  BY <1>2 DEF BlockLength
<1>3. CASE B # {}
  <2>1. \E i \in B : \A j \in B : i <= j
    <3> HIDE DEF B
    <3> QED
      BY <1>1, <1>3, LeastNumber
  <2>2. BlockLength(s, q, cr) \in B
    BY <1>3, <2>1 DEF BlockLength
  <2> QED
    BY <1>1, <2>2
<1> QED
  BY <1>2, <1>3

(* A call that is refused.                                                  *)
LEMMA TooLongReads ==
  ASSUME IInv, ReadInv, InCall, TooLong, InParse, NEW n \in Nat \ {0}, bytes + n <= Len(Ahead),
         \A j \in LineEnds : j < bytes + n => j <= bytes,
         Before + bytes + n + Capacity > call.limit + 1
  PROVE  ReadInv'
<1>1. /\ LinesTaken /\ IsMap(map) /\ Ahead \in Seq(Cells) /\ Len(Ahead) \in Nat /\ bytes \in Nat
      /\ call.limit \in Nat /\ BlankEnds \subseteq LineEnds /\ LineEnds \subseteq 1 .. Len(Ahead)
  BY CallFacts
<1> DEFINE e == bytes + n
           length == BlockLength(Ahead, call.quirks, Cr)
<1>2. ASSUME NEW j \in BlankEnds PROVE j >= e
  <2>1. j > bytes /\ (j < e => j <= bytes) /\ j \in Nat /\ e \in Nat
    BY <1>1 DEF LinesTaken
  <2> QED
    BY <1>1, <2>1
<1>3. e \in 0 .. Len(Ahead)
  BY <1>1
<1>4. length \in Nat /\ length >= e
  <2> HIDE DEF e
  <2> QED
    BY <1>1, <1>2, <1>3, BlockReaches DEF BlankEnds
<1>5. Before \in Nat
  BY LastOfBlock
<1>6. Before + length + Capacity > call.limit + 1
  <2> HIDE DEF length
  <2> QED
    BY <1>1, <1>4, <1>5
<1>7. at' = "too_long" /\ map' = map /\ reader' = reader /\ file' = file /\ call' = call
  BY DEF TooLong, InParse
<1>8. Ahead' = Ahead
  BY <1>7, SameText
<1>9. ReadsTheBlock'
  BY <1>6, <1>7, <1>8 DEF ReadsTheBlock, Cr, Before
<1>10. IsMap(map)' /\ Len(reader'.buf) <= Capacity /\ ~InCall'
  BY <1>1, <1>7 DEF ReadInv, InCall, IsMap
<1> QED
  BY <1>9, <1>10 DEF ReadInv

LEMMA TakeLineReads ==
  ASSUME IInv, ReadInv, TakeLine
  PROVE  ReadInv'
<1>1. at = "lines" /\ InCall /\ InParse
  BY DEF TakeLine, InCall
<1>2. PICK n \in 1 .. Len(Rest) :
        /\ IsFirstEnd(Rest, n, call.quirks)
        /\ IF Fits(n) THEN TakeCells(reader, n) ELSE TooLong
  BY DEF TakeLine
<1>3. /\ Len(Rest) = Len(reader.buf) - reader.bpos - consumed
      /\ Len(reader.buf) \in Nat /\ reader.bpos \in Nat /\ consumed \in Nat
      /\ reader.pos # None /\ reader.pos \in Nat /\ reader.pos = Located(reader).pos
  BY <1>1, RestLength
<1>4. /\ Len(Rest) \in Nat /\ bytes + Len(Rest) <= Len(Ahead)
      /\ \A i \in 1 .. Len(Rest) : bytes + i \in LineEnds <=> IsEnd(Rest, i, call.quirks)
  BY <1>1, RestAhead
<1>5. /\ bytes \in Nat /\ Len(Ahead) \in Nat /\ LineEnds \subseteq 1 .. Len(Ahead)
      /\ call.limit \in Nat
  BY <1>1, CallFacts
<1>6. /\ n \in Nat \ {0} /\ reader.bpos + consumed + n <= Len(reader.buf)
      /\ bytes + n <= Len(Ahead)
  <2>1. n \in Nat \ {0} /\ n <= Len(Rest)
    BY <1>4
  <2>2. bytes + n <= Len(Ahead)
    BY <1>4, <1>5, <2>1
  <2> QED
    BY <1>3, <2>1, <2>2
<1>7. bytes + n \in LineEnds
  BY <1>2, <1>4 DEF IsFirstEnd
<1>8. ASSUME NEW j \in LineEnds, j < bytes + n PROVE j <= bytes
  <2>1. j \in Nat
    BY <1>5
  <2>2. CASE j > bytes
    <3>1. j - bytes \in 1 .. n - 1 /\ j - bytes \in 1 .. Len(Rest) /\ bytes + (j - bytes) = j
      BY <1>4, <1>5, <1>6, <1>8, <2>1, <2>2
    <3>2. ~IsEnd(Rest, j - bytes, call.quirks)
      BY <1>2, <3>1 DEF IsFirstEnd
    <3> QED
      BY <1>4, <1>8, <3>1, <3>2
  <2> QED
    BY <1>5, <2>1, <2>2
<1>9. CASE Fits(n)
  <2>1. TakeCells(reader, n)
    BY <1>2, <1>9
  <2>2. IsReader(reader) /\ IsPiece(reader) /\ Len(reader.buf) <= Capacity
    BY DEF IInv, ReadInv
  <2> QED
    BY <1>1, <1>3, <1>6, <1>7, <1>8, <1>9, <2>1, <2>2, TakeCellsReads
<1>10. CASE ~Fits(n)
  <2>1. TooLong
    BY <1>2, <1>10
  <2>2. Before + bytes + n + Capacity > call.limit + 1
    <3>1. ~(Len(map.raw) + n <= call.limit)
      BY <1>10 DEF Fits
    <3>2. Len(map.raw) = Before + bytes /\ Before \in Nat
      BY <1>1, LastOfBlock
    <3>3. ~(Before + bytes + n <= call.limit)
      BY <3>1, <3>2
    <3> QED
      BY <1>5, <1>6, <3>2, <3>3
  <2> QED
    BY <1>1, <1>6, <1>8, <2>1, <2>2, TooLongReads
<1> QED
  BY <1>9, <1>10

(* The call goes on with what it has.                                        *)
LEMMA SameTaken ==
  ASSUME IInv, ReadInv, InCall, file' = file, call' = call, map' = map, bytes' = bytes,
         lineStart' = lineStart, expect' = expect
  PROVE  CallTyped' /\ Taken' /\ LinesTaken' /\ MapIsRead' /\ Within' /\ IsMap(map)'
<1>1. CallTyped /\ Taken /\ LinesTaken /\ MapIsRead /\ Within /\ IsMap(map)
  BY CallFacts
<1>2. /\ Ahead' = Ahead /\ Cr' = Cr /\ Before' = Before
      /\ LineEnds' = LineEnds /\ BlankEnds' = BlankEnds /\ Most' = Most /\ CallTyped'
  BY <1>1, SameText
<1>3. Done' = Done
  BY <1>2 DEF Done
<1>4. ReadTo(Done)' = ReadTo(Done)
  BY <1>2, <1>3 DEF ReadTo
<1>5. Taken' /\ LinesTaken'
  BY <1>1, <1>2, <1>3 DEF Taken, LinesTaken
<1>6. MapIsRead'
  BY <1>1, <1>3, <1>4 DEF MapIsRead
<1>7. Within' /\ IsMap(map)'
  BY <1>1, <1>2 DEF Within, IsMap
<1> QED
  BY <1>2, <1>5, <1>6, <1>7

LEMMA ConsumeChunkReads ==
  ASSUME IInv, ReadInv, ConsumeChunk
  PROVE  ReadInv'
<1>1. InCall /\ file' = file /\ call' = call /\ map' = map /\ bytes' = bytes
      /\ lineStart' = lineStart /\ expect' = expect /\ at' = "fill"
      /\ reader' = Consumed(reader, consumed)
  BY DEF ConsumeChunk, InCall, InParse
<1>2. CallTyped' /\ Taken' /\ LinesTaken' /\ MapIsRead' /\ Within' /\ IsMap(map)'
  BY <1>1, SameTaken
<1>3. NotSplit' /\ ReadsTheBlock'
  BY <1>1 DEF NotSplit, ReadsTheBlock
<1>4. Len(reader'.buf) <= Capacity
  BY <1>1 DEF Consumed, At, ReadInv
<1> QED
  BY <1>2, <1>3, <1>4 DEF ReadInv

LEMMA FillReads ==
  ASSUME IInv, ReadInv, Fill
  PROVE  ReadInv'
<1>1. PICK r \in Filled(reader) :
        /\ Chunk(r) # << >>
        /\ IF CompletesCR(r)
             THEN TakeCells(r, 1)
             ELSE reader' = r /\ at' = "lines" /\ UNCHANGED <<map, locals>>
  BY DEF Fill
<1>2. at = "fill" /\ consumed = 0 /\ InCall /\ InParse /\ file \in Seq(Cells)
  BY DEF Fill, InCall, IInv, Counted
<1>3. /\ IsReader(r) /\ IsPiece(r) /\ r.pos \in Nat /\ r.pos = Located(reader).pos
      /\ Len(r.buf) <= Capacity
  BY <1>2, FilledIsPiece, FilledIsShort DEF IInv, ReadInv
<1>4. /\ Chunk(r) \in Seq(Cells) /\ Len(Chunk(r)) = Len(r.buf) - r.bpos
      /\ Buffered(r) = Len(Chunk(r)) /\ Len(r.buf) \in Nat /\ r.bpos \in Nat
  BY <1>3, ChunkType
<1>5. Len(Chunk(r)) \in Nat \ {0}
  BY <1>1, <1>4
<1>6. CASE CompletesCR(r)
  <2>1. TakeCells(r, 1)
    BY <1>1, <1>6
  <2>2. EndsInCR(map.raw) /\ Chunk(r)[1] = LF
    BY <1>6 DEF CompletesCR, EndsInCR
  <2>3. r.bpos + consumed + 1 <= Len(r.buf)
    BY <1>2, <1>4, <1>5
  <2>4. 1 \in Nat \ {0} /\ 1 \in 1 .. 1 /\ consumed + 1 = 1
    BY <1>2
  <2>5. bytes + 1 \in 1 .. Len(Ahead) /\ Chunk(r)[1] = Ahead[bytes + 1]
    <3>1. /\ bytes + 1 \in 1 .. Len(Ahead)
          /\ \A i \in 1 .. 1 : Chunk(r)[consumed + i] = Ahead[bytes + i]
      BY <1>2, <1>3, <2>3, <2>4, BlockGrows
    <3> QED
      BY <2>4, <3>1
  <2>6. bytes \in Nat /\ Len(Ahead) \in Nat /\ LineEnds \subseteq 1 .. Len(Ahead)
    BY <1>2, CallFacts
  <2>7. bytes + 1 \in LineEnds
    <3>1. bytes + 1 <= Len(Ahead)
      BY <2>5, <2>6
    <3> QED
      BY <1>2, <2>2, <2>4, <2>5, <3>1, EndAhead
  <2>8. \A j \in LineEnds : j < bytes + 1 => j <= bytes
    BY <2>6
  <2> QED
    BY <1>2, <1>3, <2>1, <2>2, <2>3, <2>4, <2>7, <2>8, TakeCellsReads
<1>7. CASE ~CompletesCR(r)
  <2>1. /\ file' = file /\ call' = call /\ map' = map /\ bytes' = bytes
        /\ lineStart' = lineStart /\ expect' = expect /\ at' = "lines" /\ consumed' = 0
        /\ reader' = r
    BY <1>1, <1>2, <1>7 DEF InParse, locals
  <2>2. CallTyped' /\ Taken' /\ LinesTaken' /\ MapIsRead' /\ Within' /\ IsMap(map)'
    BY <1>2, <2>1, SameTaken
  <2>3. Rest' = Chunk(r)
    <3>1. Rest' = SubSeq(Chunk(r), 0 + 1, Buffered(r))
      BY <2>1 DEF Rest, Chunk, Buffered
    <3>2. SubSeq(Chunk(r), 1, Len(Chunk(r))) = Chunk(r)
      BY <1>4
    <3> QED
      BY <1>4, <3>1, <3>2
  <2>4. NotSplit'
    <3>1. EndsInCR(map.raw) => Chunk(r)[1] # LF
      BY <1>7 DEF CompletesCR, EndsInCR
    <3>2. EndsInCR(map'.raw) => Rest'[1] # LF
      BY <2>1, <2>3, <3>1
    <3> QED
      BY <3>2 DEF NotSplit
  <2>5. ReadsTheBlock'
    BY <2>1 DEF ReadsTheBlock
  <2> QED
    BY <1>3, <2>1, <2>2, <2>4, <2>5 DEF ReadInv
<1> QED
  BY <1>6, <1>7

LEMMA TakeRestReads ==
  ASSUME IInv, ReadInv, TakeRest
  PROVE  ReadInv'
<1>1. at = "lines" /\ InCall /\ InParse /\ Rest # << >> /\ ~HasEnd(Rest, call.quirks)
  BY DEF TakeRest, InCall
<1>2. /\ Rest \in Seq(Cells) /\ Len(Rest) = Len(reader.buf) - reader.bpos - consumed
      /\ Len(reader.buf) \in Nat /\ reader.bpos \in Nat /\ consumed \in Nat
      /\ reader.pos # None /\ reader.pos \in Nat /\ reader.pos = Located(reader).pos
  BY <1>1, RestLength
<1>3. /\ IsReader(reader) /\ IsPiece(reader) /\ Len(reader.buf) <= Capacity
  BY DEF IInv, ReadInv
<1>4. /\ CallTyped /\ Taken /\ LinesTaken /\ MapIsRead /\ Within /\ IsMap(map)
      /\ Ahead \in Seq(Cells) /\ Len(Ahead) \in Nat /\ bytes \in Nat
      /\ call.limit \in Nat /\ BlankEnds \subseteq LineEnds /\ LineEnds \subseteq 1 .. Len(Ahead)
      /\ IsMap(call.before) /\ Done \in 0 .. bytes /\ lineStart \in Nat
  BY <1>1, CallFacts
<1>5. /\ bytes + Len(Rest) <= Len(Ahead)
      /\ \A i \in 1 .. Len(Rest) : bytes + i \in LineEnds <=> IsEnd(Rest, i, call.quirks)
  BY <1>1, RestAhead
<1> DEFINE n == Len(Rest)
<1>6. n \in Nat \ {0}
  BY <1>1, <1>2
<1>7. Buffered(reader) = consumed + n /\ Buffered(reader) \in Nat /\ Buffered(reader) <= Capacity
      /\ reader.bpos + consumed + n <= Len(reader.buf) /\ n <= Buffered(reader)
  <2> HIDE DEF n
  <2>1. n = Len(reader.buf) - reader.bpos - consumed
    BY <1>2 DEF n
  <2> QED
    BY <1>2, <1>3, <1>6, <2>1 DEF Buffered
<1> HIDE DEF n
<1>8. ASSUME NEW j \in LineEnds, j <= bytes + n PROVE j <= bytes
  <2>1. j \in Nat
    BY <1>4
  <2>2. CASE j > bytes
    <3>1. j - bytes \in 1 .. n /\ bytes + (j - bytes) = j
      BY <1>4, <1>6, <1>8, <2>1, <2>2
    <3>2. ~IsEnd(Rest, j - bytes, call.quirks)
      BY <1>1, <3>1 DEF HasEnd, n
    <3> QED
      BY <1>5, <1>8, <3>1, <3>2 DEF n
  <2> QED
    BY <1>4, <2>1, <2>2
<1>9. Len(map.raw) = Before + bytes /\ Before \in Nat
  BY <1>1, LastOfBlock
<1>10. CASE Len(map.raw) + Buffered(reader) > call.limit
  <2>1. TooLong
    BY <1>10 DEF TakeRest
  <2>2. 1 \in Nat \ {0} /\ bytes + 1 <= Len(Ahead) /\ bytes + 1 <= bytes + n
    BY <1>4, <1>5, <1>6 DEF n
  <2>3. \A j \in LineEnds : j < bytes + 1 => j <= bytes
    BY <1>4
  <2>4. Before + bytes + 1 + Capacity > call.limit + 1
    <3> DEFINE b == Buffered(reader)
    <3>1. Before + bytes + b > call.limit /\ b \in Nat /\ b <= Capacity
      BY <1>7, <1>9, <1>10
    <3> HIDE DEF b
    <3> QED
      BY <1>4, <1>9, <3>1
  <2> QED
    BY <1>1, <2>1, <2>2, <2>3, <2>4, TooLongReads
<1>11. CASE ~(Len(map.raw) + Buffered(reader) > call.limit)
  <2> DEFINE raw == map.raw \o Rest
             e == bytes + n
  <2>1. /\ map' = [map EXCEPT !.raw = raw]
        /\ reader' = Consumed(reader, Buffered(reader))
        /\ at' = "fill" /\ bytes' = e
        /\ expect' = expect /\ lineStart' = lineStart /\ file' = file /\ call' = call
    BY <1>1, <1>11 DEF TakeRest, InParse, n
  <2>2. e \in 1 .. Len(Ahead) /\ raw = call.before.raw \o SubSeq(Ahead, 1, e)
    <3>1. Rest = SubSeq(Chunk(reader), consumed + 1, consumed + n)
      BY <1>7 DEF Rest
    <3> QED
      BY <1>1, <1>2, <1>3, <1>6, <1>7, <3>1, BlockGrows
  <2>3. e \in Nat /\ e >= bytes /\ e \in 0 .. Len(Ahead) /\ Done \in 0 .. e
    BY <1>4, <1>6, <2>2
  <2>4. raw \in Seq(Cells \cup {"warc"}) /\ Len(raw) = Before + e
    <3> HIDE DEF e, raw
    <3> QED
      BY <1>4, <2>2, <2>3, BlockIsText
  <2>5. IsMap(map') /\ map'.raw = raw /\ SameMap(map', map)
    <3> HIDE DEF raw
    <3> QED
      BY <1>4, <2>1, <2>4 DEF IsMap, SameMap
  <2> HIDE DEF raw, e
  <2>6. /\ Ahead' = Ahead /\ Cr' = Cr /\ Before' = Before
        /\ LineEnds' = LineEnds /\ BlankEnds' = BlankEnds /\ Most' = Most /\ CallTyped'
    BY <1>4, <2>1, SameText
  <2>7. Done' = Done
    BY <2>1, <2>6 DEF Done
  <2>8. Taken'
    BY <2>1, <2>2, <2>3, <2>5, <2>6 DEF Taken
  <2>9. LinesTaken'
    <3>1. \A j \in LineEnds : j <= e => j <= Done
      BY <1>4, <1>8 DEF LinesTaken, e
    <3>2. ASSUME NEW j \in BlankEnds PROVE j > e
      <4>1. j > bytes /\ j \in LineEnds /\ j \in Nat
        BY <1>4 DEF LinesTaken
      <4>2. j <= bytes + n => j <= bytes
        BY <1>8, <4>1
      <4> QED
        BY <1>4, <2>3, <4>1, <4>2 DEF e
    <3>3. lineStart' \in Nat /\ Done \in {0} \cup LineEnds /\ Done <= e
      BY <1>4, <2>1, <2>3 DEF LinesTaken
    <3> QED
      BY <2>1, <2>6, <2>7, <3>1, <3>2, <3>3 DEF LinesTaken
  <2>10. MapIsRead'
    <3>1. ReadTo(Done)' = ReadTo(Done)
      BY <2>1, <2>6, <2>7 DEF ReadTo
    <3>2. SameMap(map', ReadTo(Done))
      BY <1>4, <2>5 DEF MapIsRead, SameMap
    <3>3. IsMap(ReadTo(Done)) /\ expect = (call.status /\ Done = 0)
      BY <1>4 DEF MapIsRead
    <3> QED
      BY <2>1, <2>7, <3>1, <3>2, <3>3 DEF MapIsRead
  <2>11. Within'
    <3>1. Len(raw) <= call.limit
      <4>1. Len(map.raw) + Buffered(reader) <= call.limit
        BY <1>4, <1>7, <1>9, <1>11
      <4>2. Before + bytes + (consumed + n) <= call.limit
        BY <1>7, <1>9, <4>1
      <4> QED
        BY <1>2, <1>4, <1>6, <1>9, <2>4, <4>2 DEF e
    <3>2. call.limit <= Most /\ Most \in Nat /\ Len(raw) \in Nat
      BY <1>4, <1>9, <2>3, <2>4 DEF Most
    <3>3. Len(raw) <= Most
      BY <1>4, <3>1, <3>2
    <3> QED
      BY <2>5, <2>6, <3>3 DEF Within
  <2>12. NotSplit' /\ ReadsTheBlock'
    BY <2>1 DEF NotSplit, ReadsTheBlock
  <2>13. Len(reader'.buf) <= Capacity
    BY <1>3, <2>1 DEF Consumed, At
  <2> QED
    BY <2>5, <2>6, <2>8, <2>9, <2>10, <2>11, <2>12, <2>13 DEF ReadInv
<1> QED
  BY <1>10, <1>11

(* A step after which no call is open and none has just ended.                *)
LEMMA NoCallReads ==
  ASSUME at' \notin {"fill", "lines", "ok", "too_long"}, IsMap(map'), Len(reader'.buf) <= Capacity
  PROVE  ReadInv'
  BY DEF ReadInv, InCall, IsMap, ReadsTheBlock

LEMMA StartParseReads ==
  ASSUME IInv, ReadInv, NEW mode \in {"status", "plain", "seeded"}, NEW quirks \in BOOLEAN,
         NEW limit \in Limits, StartParse(mode, quirks, limit)
  PROVE  ReadInv'
<1>1. IsReader(reader) /\ IsPiece(reader) /\ file \in Seq(Cells) /\ IsMap(map)
  BY DEF IInv, ReadInv
<1>2. /\ call' = [quirks |-> quirks, limit |-> limit, status |-> mode = "status",
                  start |-> Located(reader).pos, before |-> map']
      /\ at' = "fill" /\ expect' = (mode = "status") /\ lineStart' = Len(map'.raw)
      /\ bytes' = 0 /\ file' = file /\ reader' = reader
  BY DEF StartParse
<1>3. IsMap(map')
  <2> DEFINE seeded == [EmptyMap EXCEPT !.raw = Seed, !.status = <<Trim(Seed)>>]
             given == IF mode = "seeded" THEN seeded ELSE map
  <2>1. IsMap(EmptyMap)
    BY DEF IsMap, EmptyMap
  <2>2. IsMap(seeded)
    <3>1. Seed \in Seq(Cells \cup {"warc"})
      BY DEF Seed, Cells, White
    <3>2. ASSUME NEW m, IsMap(m), NEW w \in Seq(Cells \cup {"warc"}), NEW st,
                 NEW x, x = [m EXCEPT !.raw = w, !.status = st]
          PROVE  IsMap(x)
      BY <3>2 DEF IsMap
    <3> QED
      BY <2>1, <3>1, <3>2
  <2> HIDE DEF seeded
  <2>3. IsMap(given)
    BY <1>1, <2>2
  <2>4. map' = [given EXCEPT !.dirty = FALSE] \/ map' = EmptyMap
    BY DEF StartParse, seeded
  <2>5. CASE map' = [given EXCEPT !.dirty = FALSE]
    <3> HIDE DEF given
    <3>1. map' = [status |-> given.status, headers |-> given.headers, raw |-> given.raw, dirty |-> FALSE]
      BY <2>3, <2>5 DEF IsMap
    <3> QED
      BY <2>3, <3>1 DEF IsMap
  <2> QED
    BY <2>1, <2>4, <2>5
<1>4. /\ call'.before = map' /\ call'.limit = limit /\ call'.status = (mode = "status")
      /\ call'.quirks = quirks /\ call'.start = Located(reader).pos
  BY <1>2
<1>5. Located(reader).pos \in Nat /\ limit \in Nat
  BY <1>1, LocatedIsPiece, HeaderAssumption
<1>6. CallTyped'
  BY <1>3, <1>4, <1>5 DEF CallTyped, IsMap
<1>7. Ahead' \in Seq(Cells) /\ Len(Ahead') \in Nat
  <2> DEFINE m == Located(reader).pos + 1  l == Len(file)
  <2>1. m \in Int /\ l \in Int /\ \A i \in m .. l : file[i] \in Cells
    BY <1>1, <1>5
  <2>2. SubSeq(file, m, l) \in Seq(Cells)
    <3> HIDE DEF m, l
    <3> QED
      BY <2>1, SubSeqProperties
  <2>3. Ahead' = SubSeq(file, m, l)
    BY <1>2, <1>4 DEF Ahead
  <2> QED
    BY <2>2, <2>3
<1>8. Len(map'.raw) \in Nat /\ Before' = Len(map'.raw) /\ Done' = 0 /\ lineStart' \in Nat
  <2>1. Len(map'.raw) \in Nat
    BY <1>3 DEF IsMap
  <2>2. Before' = Len(map'.raw)
    BY <1>4 DEF Before
  <2>3. Done' = 0
    BY <1>2, <2>1, <2>2 DEF Done
  <2> QED
    BY <1>2, <2>1, <2>2, <2>3
<1>9. Taken'
  <2> DEFINE s == Ahead'  w == map'.raw
  <2>1. 0 \in 0 .. Len(s) /\ 0 < 1
    BY <1>7
  <2>2. SubSeq(s, 1, 0) = << >>
    BY <2>1, SubSeqEmpty
  <2>3. w \o << >> = w
    <3>1. w \in Seq(Cells \cup {"warc"})
      BY <1>3 DEF IsMap
    <3> HIDE DEF w
    <3> QED
      BY <3>1, ConcatEmptySeq
  <2> QED
    BY <1>2, <1>4, <2>1, <2>2, <2>3 DEF Taken
<1>10. LineEnds' \subseteq 1 .. Len(Ahead') /\ BlankEnds' \subseteq LineEnds'
  BY DEF LineEnds, BlankEnds, Blanks, Ends
<1>11. LinesTaken'
  <2>1. \A j \in LineEnds' : ~(j <= 0) /\ j > 0
    BY <1>7, <1>10
  <2> QED
    BY <1>2, <1>8, <1>10, <2>1 DEF LinesTaken
<1>12. MapIsRead'
  <2> DEFINE s == Ahead'  q == call'.quirks  cr == Cr'  m == call'.before  st == call'.status
  <2>1. ReadAll(SubSeq(s, 1, 0), q, cr, m, st) = m
    <3> HIDE DEF q, cr, m, st
    <3>1. s \in Seq(Cells)
      BY <1>7
    <3> HIDE DEF s
    <3> QED
      BY <3>1, ReadNothing
  <2>2. ReadTo(Done)' = map'
    BY <1>4, <1>8, <2>1 DEF ReadTo
  <2>3. expect' = (call'.status /\ Done' = 0)
    BY <1>2, <1>4, <1>8
  <2>4. IsMap(ReadTo(Done))'
    BY <1>3, <2>2 DEF IsMap
  <2> QED
    BY <2>2, <2>3, <2>4 DEF MapIsRead, SameMap
<1>13. NotSplit' /\ ReadsTheBlock'
  BY <1>2 DEF NotSplit, ReadsTheBlock
<1>14. Within'
  <2>1. Most' = IF limit < Before' THEN Before' ELSE limit
    BY <1>4 DEF Most
  <2>2. Len(map'.raw) <= Most'
    BY <1>5, <1>8, <2>1
  <2> QED
    BY <2>2 DEF Within
<1>15. Len(reader'.buf) <= Capacity
  BY <1>2 DEF ReadInv
<1> QED
  BY <1>3, <1>6, <1>9, <1>11, <1>12, <1>13, <1>14, <1>15 DEF ReadInv, IsMap

LEMMA SoughtIsShort ==
  ASSUME NEW r, IsReader(r), Len(r.buf) <= Capacity, NEW whence, NEW offset
  PROVE  Len(Sought(r, whence, offset).buf) <= Capacity
<1> DEFINE q == Located(r)
<1>1. q.buf = r.buf
  BY DEF Located, IsReader
<1>2. Sought(r, whence, offset) = q \/ Sought(r, whence, offset) = SeekIn(q, whence, offset)
  BY DEF Sought
<1> HIDE DEF q
<1>3. SeekIn(q, whence, offset).buf \in {q.buf, << >>}
  BY DEF SeekIn, At
<1>4. Sought(r, whence, offset).buf \in {r.buf, << >>}
  BY <1>1, <1>2, <1>3
<1>5. Len(<< >>) = 0 /\ 0 <= Capacity
  OBVIOUS
<1> QED
  BY <1>4, <1>5

LEMMA EditIsMap ==
  ASSUME IsMap(map), NEW key, NEW value,
         \/ SetBytes(key, value) \/ AppendBytes(key, value)
         \/ RemoveBytes(key) \/ SetStatusLine(value) \/ Clear
  PROVE  IsMap(map') /\ \E m : Edit(m)
<1>1. CASE SetBytes(key, value)
  BY <1>1 DEF SetBytes, Edit, IsMap
<1>2. CASE AppendBytes(key, value)
  BY <1>2 DEF AppendBytes, Edit, IsMap
<1>3. CASE RemoveBytes(key)
  BY <1>3 DEF RemoveBytes, Edit, IsMap
<1>4. CASE SetStatusLine(value)
  BY <1>4 DEF SetStatusLine, Edit, IsMap
<1>5. CASE Clear
  BY <1>5 DEF Clear, Edit, IsMap, EmptyMap
<1> QED
  BY <1>1, <1>2, <1>3, <1>4, <1>5

LEMMA ReadInit == Init => ReadInv
<1> SUFFICES ASSUME Init PROVE ReadInv
  OBVIOUS
<1>1. map = EmptyMap /\ reader = NewReader /\ at = "none"
  BY DEF Init, Fresh
<1>2. IsMap(map)
  BY <1>1 DEF IsMap, EmptyMap
<1>3. Len(reader.buf) <= Capacity
  BY <1>1 DEF NewReader
<1> QED
  BY <1>1, <1>2, <1>3 DEF ReadInv, InCall, ReadsTheBlock

LEMMA ReadStep == IInv /\ ReadInv /\ [Next]_vars => ReadInv'
<1> SUFFICES ASSUME IInv, ReadInv, [Next]_vars PROVE ReadInv'
  OBVIOUS
<1>0. /\ file \in Seq(Cells) /\ IsReader(reader) /\ IsPiece(reader) /\ IsMap(map)
      /\ Len(reader.buf) <= Capacity
  BY DEF IInv, ReadInv
<1>1. CASE FillRaises
  <2>1. at' = "failed" /\ map' = map /\ reader' = Located(reader)
    BY <1>1 DEF FillRaises, FillFailed
  <2> QED
    BY <1>0, <2>1, LocatedIsPiece, NoCallReads
<1>2. ASSUME NEW n \in 1 .. Capacity, Read(n) PROVE ReadInv'
  <2>1. PICK r \in Filled(reader) :
          reader' = Consumed(r, IF n < Buffered(r) THEN n ELSE Buffered(r))
    BY <1>2 DEF Read
  <2>2. at' \in {"none", "broken"} /\ map' = map
    BY <1>2 DEF Read, OtherCall
  <2>3. Len(r.buf) <= Capacity
    BY <1>0, FilledIsShort
  <2>4. reader'.buf = r.buf
    BY <2>1 DEF Consumed, At
  <2> QED
    BY <1>0, <2>2, <2>3, <2>4, NoCallReads
<1>3. ASSUME NEW whence, NEW offset, Seek(whence, offset) PROVE ReadInv'
  <2>1. at' \in {"none", "broken"} /\ map' = map /\ reader' = Sought(reader, whence, offset)
    BY <1>3 DEF Seek, OtherCall
  <2> QED
    BY <1>0, <2>1, SoughtIsShort, NoCallReads
<1>4. ASSUME NEW key, NEW value,
             \/ SetBytes(key, value) \/ AppendBytes(key, value)
             \/ RemoveBytes(key) \/ SetStatusLine(value) \/ Clear
      PROVE  ReadInv'
  <2>1. IsMap(map')
    BY <1>0, <1>4, EditIsMap
  <2>2. at' \in {"none", "broken"} /\ reader' = reader
    <3>1. PICK m : Edit(m)
      BY <1>0, <1>4, EditIsMap
    <3> QED
      BY <3>1 DEF Edit, OtherCall
  <2> QED
    BY <1>0, <2>1, <2>2, NoCallReads
<1>5. CASE UNCHANGED vars
  <2>1. /\ file' = file /\ call' = call /\ map' = map /\ bytes' = bytes
        /\ lineStart' = lineStart /\ expect' = expect /\ at' = at /\ consumed' = consumed
        /\ reader' = reader
    BY <1>5 DEF vars, locals
  <2>2. InCall => CallTyped' /\ Taken' /\ LinesTaken' /\ MapIsRead' /\ Within'
    BY <2>1, SameTaken
  <2>3. InCall => NotSplit'
    BY <2>1 DEF ReadInv, NotSplit, Rest, Chunk, Buffered
  <2>4. ReadsTheBlock'
    BY <2>1 DEF ReadInv, ReadsTheBlock, Ahead
  <2> QED
    BY <1>0, <2>1, <2>2, <2>3, <2>4 DEF ReadInv, InCall, IsMap
<1>6. CASE Next
  <2>1. CASE ParseStep
    BY <2>1, <1>1, FillReads, FillAtEndReads, TakeLineReads, TakeRestReads, ConsumeChunkReads
       DEF ParseStep
  <2>2. ASSUME NEW mode \in {"status", "plain", "seeded"}, NEW quirks \in BOOLEAN,
               NEW limit \in Limits, StartParse(mode, quirks, limit)
        PROVE  ReadInv'
    BY <2>2, StartParseReads
  <2> QED
    BY <1>6, <1>2, <1>3, <1>4, <2>1, <2>2 DEF Next
<1> QED
  BY <1>5, <1>6

(* For every file, however short its reads, every buffer and limit: a parse   *)
(* that ends well has read the status line and the headers of the text up to   *)
(* the first blank line, and no further, and refuses only what is too long.    *)
THEOREM BlockIsRead == Spec => []ReadsTheBlock
<1>1. ReadInv => ReadsTheBlock
  BY DEF ReadInv
<1>2. Init => IInv /\ ReadInv
  BY InitHolds, ReadInit
<1>3. IInv /\ ReadInv /\ [Next]_vars => IInv' /\ ReadInv'
  BY StepHolds, ReadStep
<1> QED
  BY <1>1, <1>2, <1>3, PTL DEF Spec
=============================================================================
