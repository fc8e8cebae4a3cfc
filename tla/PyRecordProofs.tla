----------------------------- MODULE PyRecordProofs -----------------------------
(***************************************************************************)
(* What the borrows of PyO3, the record's mutex and the interpreter lock   *)
(* give together, for any number of threads, records and nested calls.     *)
(***************************************************************************)
EXTENDS PyRecord, SequenceTheorems, TLAPS

(***************************************************************************)
(* The calls of a thread, counted from the outermost one: a call keeps its *)
(* number while others are made and return.                                *)
(***************************************************************************)
Nth(s, d) == s[Len(s) + 1 - d]
Depth(t) == Len(stack[t])
Frame(t, d) == Nth(stack[t], d)

Objects == {It} \cup {"rec", "warc", "http", "reader"} \X Records
Doings == {"look", "compare", "date", "getHttp", "freeze", "payload", "http", "verify",
         "pickle", "digest", "write", "advance", "check", "judge"}
AnyMethod == [borrows : {"shared", "mut"}, python : {"nothing", "code", "reader", "stream"}, does : Doings]
AnyFrame == [obj : Objects, arg : Objects \cup {None}, m : AnyMethod,
             at : {"lock", "in", "python", "free"}, want : Seq(Records), held : SUBSET Records]

HistoryTyped == misused \in BOOLEAN /\ overrun \in BOOLEAN

Typed ==
  /\ inplace \in BOOLEAN
  /\ gil \in Threads \cup {None}
  /\ stack \in [Threads -> Seq(AnyFrame)]
  /\ lock \in [Records -> Threads \cup {None}]
  /\ poisoned \in SUBSET Records
  /\ reader \in [Records -> {"memory", "stream", "none", "frozen"}]
  /\ http \in [Records -> BOOLEAN]
  /\ shown \in 0 .. Archive
  /\ objs \in SUBSET Objects
  /\ HistoryTyped

(* A thread that is not in Python code keeps the interpreter lock.         *)
GilKept == \A t \in Threads : ~ InPython(t) => gil = t

(* There is one call of next().                                            *)
OneIterator ==
  \A t, u \in Threads : \A d \in 1 .. Depth(t), e \in 1 .. Depth(u) :
    Frame(t, d).obj = It /\ Frame(u, e).obj = It => t = u /\ d = e

(* A mutex that a call has is locked by its thread, and no other call's.   *)
Exclusive ==
  \A t \in Threads : \A d \in 1 .. Depth(t) : \A r \in Frame(t, d).held :
    /\ lock[r] = t
    /\ \A u \in Threads : \A e \in 1 .. Depth(u) : r \in Frame(u, e).held => t = u /\ d = e

(* What a call has of the mutexes that it needs.                           *)
Mine(f) == {Of(o) : o \in {f.obj, f.arg} \ {None}}

CallOfNext(f) ==
  /\ f.arg = None
  /\ f.m.does \in {"advance", "check", "judge"}
  /\ f.m.borrows = "mut"
  /\ f.at = "lock" => f.want = <<Cur>> /\ f.held = {}
  /\ f.at \in {"in", "python"} => f.want = << >> /\ f.held = {Cur}
  /\ f.at = "free" => f.want = << >> /\ f.held = {}

CallOfOther(f) ==
  /\ f.m.does \notin {"advance", "check", "judge"}
  /\ \A r \in Mine(f) : r <= Cur
  /\ f.arg # None => f.arg # It /\ f.m.borrows = "shared" /\ f.m.does = "compare"
  /\ f.at = "lock" => f.want # << >> /\ f.held \cup Wants(f) = Mine(f)
  /\ f.at \in {"in", "python"} => f.want = << >> /\ f.held = Mine(f)
  /\ f.at = "free" => f.held = {} /\ (f.want # << >> => Wants(f) = Mine(f))

Sound(f) == IF f.obj = It THEN CallOfNext(f) ELSE CallOfOther(f)
Calls == \A t \in Threads : \A d \in 1 .. Depth(t) : Sound(Frame(t, d))

(* Python code knows of no record that next() has not come to.             *)
Known == \A o \in objs : o # It => Of(o) <= Cur

(* Unless calls have collided, no two of them use one record, and none has *)
(* a reason to panic by itself.                                            *)
Apart ==
  \A t, u \in Threads : \A d \in 1 .. Depth(t), e \in 1 .. Depth(u) :
    Uses(Frame(t, d)) \cap Uses(Frame(u, e)) # {} => t = u /\ d = e
Excused == poisoned # {} => overrun
Calm ==
  /\ Excused
  /\ \A t \in Threads : \A d \in 1 .. Depth(t) : ~ PanicsIn(Frame(t, d))
Harmless == misused \/ (Apart /\ Calm)

LockInv == Typed /\ OneIterator /\ Exclusive /\ Calls /\ Known
RecordInv == LockInv /\ GilKept /\ Harmless

-----------------------------------------------------------------------------
(***************************************************************************)
(* Sequences that change at the front.                                     *)
(***************************************************************************)
LEMMA Front ==
  ASSUME NEW S, NEW s \in Seq(S)
  PROVE  /\ Len(s) \in Nat
         /\ s # << >> => Len(s) \in Nat \ {0} /\ Head(s) = Nth(s, Len(s)) /\ Head(s) \in S
         /\ \A d \in 1 .. Len(s) : Nth(s, d) \in S
         /\ {s[i] : i \in DOMAIN s} = {Nth(s, d) : d \in 1 .. Len(s)}
<1>1. \A d \in 1 .. Len(s) : Len(s) + 1 - d \in 1 .. Len(s) /\ Nth(s, Len(s) + 1 - d) = s[d]
  BY DEF Nth
<1>2. DOMAIN s = 1 .. Len(s)
  OBVIOUS
<1>3. {s[i] : i \in DOMAIN s} = {Nth(s, d) : d \in 1 .. Len(s)}
  BY <1>1, <1>2 DEF Nth
<1> QED  BY <1>3 DEF Nth

(***************************************************************************)
(* The calls of all threads, before a step and after it.                   *)
(***************************************************************************)
LEMMA Framed ==
  ASSUME Typed, NEW t \in Threads
  PROVE  /\ Depth(t) \in Nat
         /\ stack[t] # << >> => /\ Depth(t) \in 1 .. Depth(t)
                                /\ Top(t) = Frame(t, Depth(t))
                                /\ Top(t) \in AnyFrame
         /\ \A d \in 1 .. Depth(t) : Frame(t, d) \in AnyFrame
         /\ Frames(t) = {Frame(t, d) : d \in 1 .. Depth(t)}
<1>1. stack[t] \in Seq(AnyFrame)  BY DEF Typed
<1>2. /\ Len(stack[t]) \in Nat
      /\ stack[t] # << >> => /\ Len(stack[t]) \in Nat \ {0}
                             /\ Head(stack[t]) = Nth(stack[t], Len(stack[t]))
                             /\ Head(stack[t]) \in AnyFrame
      /\ \A d \in 1 .. Len(stack[t]) : Nth(stack[t], d) \in AnyFrame
      /\ {stack[t][i] : i \in DOMAIN stack[t]} = {Nth(stack[t], d) : d \in 1 .. Len(stack[t])}
  BY <1>1, Front, ZenonT(60)
<1>3. Frames(t) = {Frame(t, d) : d \in 1 .. Depth(t)}
  BY <1>2, ZenonT(60) DEF Depth, Frame, Frames
<1>4. stack[t] # << >> => Depth(t) \in 1 .. Depth(t) /\ Top(t) = Frame(t, Depth(t)) /\ Top(t) \in AnyFrame
  BY <1>2 DEF Depth, Frame, Top
<1>5. Depth(t) \in Nat /\ \A d \in 1 .. Depth(t) : Frame(t, d) \in AnyFrame
  BY <1>2 DEF Depth, Frame
<1> QED  BY <1>3, <1>4, <1>5

LEMMA OnGoto ==
  ASSUME Typed, NEW t \in Threads, stack[t] # << >>, NEW f \in AnyFrame, Goto(t, f)
  PROVE  /\ stack' \in [Threads -> Seq(AnyFrame)]
         /\ \A u \in Threads :
              /\ Depth(u)' = Depth(u)
              /\ \A d \in 1 .. Depth(u) :
                   Frame(u, d)' = IF u = t /\ d = Depth(t) THEN f ELSE Frame(u, d)
<1>1. stack \in [Threads -> Seq(AnyFrame)]  BY DEF Typed
<1>2. /\ stack'[t] = <<f>> \o Tail(stack[t])
      /\ DOMAIN stack' = Threads
      /\ \A u \in Threads \ {t} : stack'[u] = stack[u]
  BY <1>1 DEF Goto
<1>3. /\ stack'[t] \in Seq(AnyFrame)
      /\ Len(stack'[t]) = Len(stack[t])
      /\ \A d \in 1 .. Len(stack[t]) :
           Nth(stack'[t], d) = IF d = Len(stack[t]) THEN f ELSE Nth(stack[t], d)
  <2> DEFINE s == stack[t]
             q == stack'[t]
  <2>1. s \in Seq(AnyFrame) /\ s # << >> /\ q = <<f>> \o Tail(s)  BY <1>1, <1>2
  <2> HIDE DEF s, q
  <2>2. /\ q \in Seq(AnyFrame)
             /\ Len(q) = Len(s)
             /\ \A d \in 1 .. Len(s) : Nth(q, d) = IF d = Len(s) THEN f ELSE Nth(s, d)
    BY <2>1 DEF Nth
  <2> QED  BY <2>2 DEF s, q
<1>4. stack' \in [Threads -> Seq(AnyFrame)]  BY <1>1, <1>2, <1>3 DEF Goto
<1> QED  BY <1>2, <1>3, <1>4 DEF Depth, Frame

LEMMA OnReturn ==
  ASSUME Typed, NEW t \in Threads, stack[t] # << >>, Return(t)
  PROVE  /\ stack' \in [Threads -> Seq(AnyFrame)]
         /\ \A u \in Threads :
              /\ Depth(u)' = IF u = t THEN Depth(u) - 1 ELSE Depth(u)
              /\ \A d \in 1 .. Depth(u)' : Frame(u, d)' = Frame(u, d)
<1>1. stack \in [Threads -> Seq(AnyFrame)]  BY DEF Typed
<1>2. /\ stack'[t] = Tail(stack[t])
      /\ DOMAIN stack' = Threads
      /\ \A u \in Threads \ {t} : stack'[u] = stack[u]
  BY <1>1 DEF Return
<1>3. /\ stack'[t] \in Seq(AnyFrame)
      /\ Len(stack'[t]) = Len(stack[t]) - 1
      /\ \A d \in 1 .. Len(stack'[t]) : Nth(stack'[t], d) = Nth(stack[t], d)
  <2> DEFINE s == stack[t]
             q == stack'[t]
  <2>1. s \in Seq(AnyFrame) /\ s # << >> /\ q = Tail(s)  BY <1>1, <1>2
  <2> HIDE DEF s, q
  <2>2. /\ q \in Seq(AnyFrame)
             /\ Len(q) = Len(s) - 1
             /\ \A d \in 1 .. Len(q) : Nth(q, d) = Nth(s, d)
    BY <2>1 DEF Nth
  <2> QED  BY <2>2 DEF s, q
<1>4. stack' \in [Threads -> Seq(AnyFrame)]  BY <1>1, <1>2, <1>3 DEF Return
<1> QED  BY <1>2, <1>3, <1>4 DEF Depth, Frame

LEMMA OnCall ==
  ASSUME Typed, NEW t \in Threads, NEW f \in AnyFrame,
         stack' = [stack EXCEPT ![t] = <<f>> \o @]
  PROVE  /\ stack' \in [Threads -> Seq(AnyFrame)]
         /\ \A u \in Threads :
              /\ Depth(u)' = IF u = t THEN Depth(u) + 1 ELSE Depth(u)
              /\ \A d \in 1 .. Depth(u) : Frame(u, d)' = Frame(u, d)
         /\ \A d : d = Depth(t) + 1 => Frame(t, d)' = f
<1>1. stack \in [Threads -> Seq(AnyFrame)]  BY DEF Typed
<1>2. /\ stack'[t] = <<f>> \o stack[t]
      /\ DOMAIN stack' = Threads
      /\ \A u \in Threads \ {t} : stack'[u] = stack[u]
  BY <1>1
<1>3. /\ stack'[t] \in Seq(AnyFrame)
      /\ Len(stack'[t]) = Len(stack[t]) + 1
      /\ Nth(stack'[t], Len(stack'[t])) = f
      /\ \A d \in 1 .. Len(stack[t]) : Nth(stack'[t], d) = Nth(stack[t], d)
  <2> DEFINE s == stack[t]
             q == stack'[t]
  <2>1. s \in Seq(AnyFrame) /\ q = <<f>> \o s  BY <1>1, <1>2
  <2> HIDE DEF s, q
  <2>2. /\ q \in Seq(AnyFrame)
             /\ Len(q) = Len(s) + 1
             /\ Nth(q, Len(q)) = f
             /\ \A d \in 1 .. Len(s) : Nth(q, d) = Nth(s, d)
    BY <2>1 DEF Nth
  <2> QED  BY <2>2 DEF s, q
<1>4. stack' \in [Threads -> Seq(AnyFrame)]  BY <1>1, <1>2, <1>3
<1> QED  BY <1>2, <1>3, <1>4 DEF Depth, Frame

-----------------------------------------------------------------------------
(***************************************************************************)
(* The methods, the objects and the record that next() is at.              *)
(***************************************************************************)
LEMMA MethodsOf ==
  ASSUME NEW o \in Objects, NEW m \in Methods[o[1]]
  PROVE  /\ m \in AnyMethod
         /\ (o = It) <=> (m.does \in {"advance", "check", "judge"})
         /\ o = It => m.borrows = "mut" /\ m.does = "advance"
         /\ m.does = "compare" => m.borrows = "shared"
<1>1. CASE o = It
  <2>1. o[1] = "it"  BY <1>1 DEF It
  <2>2. m = Advance  BY <2>1 DEF Methods
  <2> QED  BY <1>1, <2>2 DEF Advance, Method, AnyMethod, Doings
<1>2. CASE o # It
  <2>1. o[1] \in {"rec", "warc", "http", "reader"}  BY <1>2 DEF Objects
  <2>2. o[1] = "rec" => m \in RecordMethods  BY DEF Methods
  <2>3. o[1] \in {"warc", "http"} => m \in HeaderMethods  BY DEF Methods
  <2>4. o[1] = "reader" => m = PayloadReads  BY DEF Methods
  <2> QED
    BY <1>2, <2>1, <2>2, <2>3, <2>4
    DEF RecordMethods, HeaderMethods, PayloadReads, Method, AnyMethod, Doings,
        RecordGetters, RecordSetters, RecordDate, SetRecordDate, HttpDates, HttpGetters,
        HttpHeaders, GetReader, RecordEq, Freeze, SetBytesPayload, Consume, ParseHttp,
        VerifyDigest, Pickle, SetDigest, Write, NativeFilter, HeaderViews,
        HeaderLookups, HeaderItems, HeaderEdits, HeaderParse, HeaderWrite, HeaderEq
<1> QED  BY <1>1, <1>2

LEMMA NextsMethods ==
  /\ Advance \in AnyMethod /\ Advance.borrows = "mut" /\ Advance.does = "advance"
  /\ Check \in AnyMethod /\ Check.borrows = "mut" /\ Check.does = "check"
  /\ Judge \in AnyMethod /\ Judge.borrows = "mut" /\ Judge.does = "judge"
  BY DEF Advance, Check, Judge, Method, AnyMethod, Doings

LEMMA ObjectsAre ==
  /\ It \in Objects
  /\ None \notin Objects
  /\ It # None
  /\ \A o \in Objects : Of(o) \in Records
  /\ \A o \in Objects : o # It <=> o[1] # "it"
<1>1. None \notin {"it", "rec", "warc", "http", "reader"} \X Nat /\ Archive \in Nat
  BY RecordAssumption
<1>2. Objects \subseteq {"it", "rec", "warc", "http", "reader"} \X Nat
  BY <1>1 DEF Objects, It, Records
<1> QED  BY <1>1, <1>2 DEF Objects, It, Of, Records

LEMMA CurIs == Typed => Cur \in 1 .. Archive + 1 /\ Cur \in Records /\ Archive \in Nat
  BY RecordAssumption DEF Typed, Cur, Records

LEMMA CurAfter ==
  ASSUME shown' \in Nat
  PROVE  Cur' \in Nat
<1>1. \A n \in Nat : n + 1 \in Nat  OBVIOUS
<1> QED  BY <1>1 DEF Cur

-----------------------------------------------------------------------------
(***************************************************************************)
(* What the steps do to the records: only to the given ones.               *)
(***************************************************************************)
OnlyAt(R) == \A q \in Records \ R : reader'[q] = reader[q] /\ http'[q] = http[q]
Sources == {"memory", "stream", "none", "frozen"}

LEMMA ReadersTyped ==
  ASSUME NEW does \in Doings, NEW x \in Sources
  PROVE  Readers(does, x) \subseteq Sources /\ ReadersFailed(does, x) \subseteq Sources
  BY DEF Doings, Sources, Readers, ReadersFailed, Frozen

LEMMA SubjectIs ==
  ASSUME Typed, NEW f \in AnyFrame
  PROVE  Subject(f) \in Records
  BY CurIs, ObjectsAre DEF Subject, AnyFrame

LEMMA WorkedIs ==
  ASSUME Typed, NEW f \in AnyFrame, Worked(f)
  PROVE  /\ reader' \in [Records -> Sources]
         /\ http' \in [Records -> BOOLEAN]
         /\ UNCHANGED <<inplace, shown>>
         /\ Cur' = Cur
         /\ OnlyAt({Subject(f)})
         /\ \A q \in Records : http[q] => http'[q]
<1> DEFINE r == Subject(f)
<1>1. r \in Records  BY SubjectIs
<1>2. /\ reader \in [Records -> Sources]
      /\ http \in [Records -> BOOLEAN]
  BY DEF Typed, Sources
<1>3. CASE r = 0
  <2>1. UNCHANGED data  BY <1>3 DEF Worked
  <2> QED  BY <2>1, <1>2 DEF data, OnlyAt, Cur
<1>4. CASE r # 0
  <2>1. PICK x \in Readers(f.m.does, reader[r]) : reader' = [reader EXCEPT ![r] = x]
    BY <1>4 DEF Worked
  <2>2. PICK h \in BOOLEAN : http' = [http EXCEPT ![r] = h] /\ (http[r] => h)
    <3>1. \E h \in IF f.m.does \in {"http", "check"} /\ reader[r] # "none"
                   THEN {TRUE, http[r]} ELSE {http[r]} : http' = [http EXCEPT ![r] = h]
      BY <1>4 DEF Worked
    <3> QED  BY <3>1, <1>1, <1>2
  <2>3. UNCHANGED <<inplace, shown>>  BY <1>4 DEF Worked
  <2>4. x \in Sources
    BY <2>1, <1>1, <1>2, ReadersTyped DEF AnyFrame, AnyMethod
  <2>5. Cur' = Cur  BY <2>3 DEF Cur
  <2> HIDE DEF r
  <2>6. OnlyAt({r})  BY <2>1, <2>2, <1>1, <1>2 DEF OnlyAt
  <2> QED  BY <2>1, <2>2, <2>3, <2>4, <2>5, <2>6, <1>1, <1>2 DEF r
<1> QED  BY <1>3, <1>4

LEMMA FailedIs ==
  ASSUME Typed, NEW f \in AnyFrame, Failed(f)
  PROVE  /\ reader' \in [Records -> Sources]
         /\ UNCHANGED <<inplace, http, shown>>
         /\ Cur' = Cur
         /\ OnlyAt({Subject(f)})
<1> DEFINE r == Subject(f)
<1>1. r \in Records  BY SubjectIs
<1>2. reader \in [Records -> Sources]  BY DEF Typed, Sources
<1>3. PICK x \in ReadersFailed(f.m.does, reader[r]) : reader' = [reader EXCEPT ![r] = x]
  BY DEF Failed
<1>4. UNCHANGED <<inplace, http, shown>>  BY DEF Failed
<1>5. x \in Sources
  BY <1>3, <1>1, <1>2, ReadersTyped DEF AnyFrame, AnyMethod
<1>6. Cur' = Cur  BY <1>4 DEF Cur
<1> HIDE DEF r
<1>7. OnlyAt({r})  BY <1>3, <1>4, <1>1, <1>2 DEF OnlyAt
<1> QED  BY <1>3, <1>4, <1>5, <1>6, <1>7, <1>1, <1>2 DEF r

LEMMA MovedIs ==
  ASSUME Typed, NEW found \in BOOLEAN, Moved(Cur, found), found => shown # Archive
  PROVE  /\ reader' \in [Records -> Sources]
         /\ http' \in [Records -> BOOLEAN]
         /\ shown' \in 0 .. Archive
         /\ inplace' = inplace
         /\ Cur' = IF found /\ ~ inplace THEN Cur + 1 ELSE Cur
         /\ OnlyAt(IF found THEN {Cur, Cur + 1} ELSE {Cur})
<1> DEFINE r == Cur
<1>1. r \in Records /\ r \in Nat  BY CurIs
<1>2. /\ reader \in [Records -> Sources]
      /\ http \in [Records -> BOOLEAN]
      /\ shown \in 0 .. Archive
      /\ Archive \in Nat
  BY CurIs DEF Typed, Sources
<1>3. /\ inplace' = inplace
      /\ shown' = IF found THEN shown + 1 ELSE shown
  BY DEF Moved
<1>4. shown' \in 0 .. Archive  BY <1>2, <1>3
<1>5. Cur' = IF found /\ ~ inplace THEN Cur + 1 ELSE Cur
  BY <1>2, <1>3 DEF Cur
<1>6. CASE inplace
  <2>1. http' = [http EXCEPT ![r] = FALSE] /\ reader' = reader
    BY <1>6 DEF Moved
  <2> HIDE DEF r
  <2>2. OnlyAt({r})  BY <2>1, <1>1, <1>2 DEF OnlyAt
  <2>3. OnlyAt(IF found THEN {r, r + 1} ELSE {r})  BY <2>2 DEF OnlyAt
  <2> QED  BY <2>1, <2>3, <1>1, <1>2, <1>3, <1>4, <1>5 DEF r
<1>7. CASE ~ inplace
  <2>1. /\ reader' = [q \in Records |->
                        IF q = r THEN Detached(reader[r])
                        ELSE IF found /\ q = r + 1 THEN "stream" ELSE reader[q]]
        /\ http' = http
    BY <1>7 DEF Moved
  <2> HIDE DEF r
  <2>2. OnlyAt(IF found THEN {r, r + 1} ELSE {r})  BY <2>1, <1>1, <1>2 DEF OnlyAt
  <2>3. reader' \in [Records -> Sources]  BY <2>1, <1>1, <1>2 DEF Detached, Sources
  <2> QED  BY <2>1, <2>2, <2>3, <1>2, <1>3, <1>4, <1>5 DEF r
<1> QED  BY <1>6, <1>7

-----------------------------------------------------------------------------
(***************************************************************************)
(* Calls go on to hold their own mutexes, when one of them takes a step.   *)
(***************************************************************************)
LEMMA SoundStays ==
  ASSUME NEW f \in AnyFrame, Sound(f), Cur \in Nat, Cur' \in Nat,
         Cur' = Cur \/ (f.obj # It /\ Cur' >= Cur)
  PROVE  Sound(f)'
<1>1. Mine(f) \subseteq Nat
  BY ObjectsAre, RecordAssumption DEF Mine, AnyFrame, Records
<1>2. CASE f.obj = It
  BY <1>2 DEF Sound, CallOfNext
<1>3. CASE f.obj # It
  BY <1>1, <1>3 DEF Sound, CallOfOther
<1> QED  BY <1>2, <1>3

LEMMA GotoKeeps ==
  ASSUME Typed, OneIterator, Exclusive, Calls, NEW t \in Threads, stack[t] # << >>,
         NEW f \in AnyFrame, Goto(t, f), f.obj = Top(t).obj, Sound(f)',
         Cur' \in Nat, Cur' = Cur \/ (f.obj = It /\ Cur' >= Cur),
         \A r \in f.held : lock'[r] = t /\ (r \in Top(t).held \/ lock[r] = None),
         \A r \in Records \ Top(t).held : lock[r] # None => lock'[r] = lock[r]
  PROVE  OneIterator' /\ Exclusive' /\ Calls'
<1> DEFINE n == Depth(t)
<1>1. n = Depth(t) /\ n \in 1 .. Depth(t) /\ Top(t) = Frame(t, n)  BY Framed
<1>2. \A u \in Threads :
        /\ Depth(u)' = Depth(u)
        /\ \A d \in 1 .. Depth(u) : Frame(u, d)' = IF u = t /\ d = n THEN f ELSE Frame(u, d)
  BY OnGoto
<1>3. \A u \in Threads : \A d \in 1 .. Depth(u) : Frame(u, d) \in AnyFrame
  BY Framed
<1>4. None \notin Threads  BY RecordAssumption
<1> HIDE DEF n
<1>5. OneIterator'
  BY <1>1, <1>2 DEF OneIterator
<1>6. Exclusive'
  <2> SUFFICES ASSUME NEW u \in Threads, NEW d \in 1 .. Depth(u), NEW r \in Frame(u, d)'.held
               PROVE  /\ lock'[r] = u
                      /\ \A v \in Threads : \A e \in 1 .. Depth(v) :
                           r \in Frame(v, e)'.held => u = v /\ d = e
    BY <1>2 DEF Exclusive
  <2>1. CASE u = t /\ d = n
    <3>1. Frame(u, d)' = f  BY <1>2, <2>1
    <3> QED  BY <1>1, <1>2, <1>4, <2>1, <3>1 DEF Exclusive
  <2>2. CASE ~ (u = t /\ d = n)
    <3>1. Frame(u, d)' = Frame(u, d)  BY <1>2, <2>2
    <3>2. lock[r] = u /\ r \notin Top(t).held  BY <1>1, <2>2, <3>1 DEF Exclusive
    <3>3. r \in Records  BY <1>3, <3>1 DEF AnyFrame
    <3> QED  BY <1>1, <1>2, <1>4, <2>2, <3>1, <3>2, <3>3 DEF Exclusive
  <2> QED  BY <2>1, <2>2
<1>7. Calls'
  <2> SUFFICES ASSUME NEW u \in Threads, NEW d \in 1 .. Depth(u)
               PROVE  Sound(Frame(u, d))'
    BY <1>2 DEF Calls
  <2>1. CASE u = t /\ d = n
    <3>1. Frame(u, d)' = f  BY <1>2, <2>1
    <3> QED  BY <3>1 DEF Sound, CallOfNext, CallOfOther
  <2>2. CASE ~ (u = t /\ d = n)
    <3>1. Frame(u, d)' = Frame(u, d)  BY <1>2, <2>2
    <3>2. Sound(Frame(u, d))  BY DEF Calls
    <3>3. Frame(u, d).obj # It \/ Cur' = Cur  BY <1>1, <2>2 DEF OneIterator
    <3>4. Cur \in Nat  BY CurIs
    <3>5. PICK g \in AnyFrame : g = Frame(u, d)  BY <1>3
    <3>6. Sound(g)'  BY <3>2, <3>3, <3>4, <3>5, SoundStays
    <3> QED  BY <3>1, <3>5, <3>6 DEF Sound, CallOfNext, CallOfOther
  <2> QED  BY <2>1, <2>2
<1> QED  BY <1>5, <1>6, <1>7

LEMMA ReturnKeeps ==
  ASSUME Typed, OneIterator, Exclusive, Calls, NEW t \in Threads, stack[t] # << >>,
         Return(t), Cur' = Cur,
         \A r \in Records \ Top(t).held : lock[r] # None => lock'[r] = lock[r]
  PROVE  OneIterator' /\ Exclusive' /\ Calls'
<1> DEFINE n == Depth(t)
<1>1. n = Depth(t) /\ n \in 1 .. Depth(t) /\ Top(t) = Frame(t, n)  BY Framed
<1>2. \A u \in Threads :
        /\ Depth(u) \in Nat
        /\ Depth(u)' = IF u = t THEN n - 1 ELSE Depth(u)
        /\ \A d \in 1 .. Depth(u)' : /\ Frame(u, d)' = Frame(u, d)
                                    /\ d \in 1 .. Depth(u)
                                    /\ ~ (u = t /\ d = n)
  BY <1>1, OnReturn, Framed
<1>3. \A u \in Threads : \A d \in 1 .. Depth(u) : Frame(u, d) \in AnyFrame
  BY Framed
<1>4. None \notin Threads  BY RecordAssumption
<1> HIDE DEF n
<1>5. OneIterator'
  BY <1>1, <1>2 DEF OneIterator
<1>6. Exclusive'
  <2> SUFFICES ASSUME NEW u \in Threads, NEW d \in 1 .. Depth(u)', NEW r \in Frame(u, d)'.held
               PROVE  /\ lock'[r] = u
                      /\ \A v \in Threads : \A e \in 1 .. Depth(v)' :
                           r \in Frame(v, e)'.held => u = v /\ d = e
    BY DEF Exclusive
  <2>1. Frame(u, d)' = Frame(u, d) /\ d \in 1 .. Depth(u) /\ ~ (u = t /\ d = n)  BY <1>2
  <2>2. lock[r] = u /\ r \notin Top(t).held  BY <1>1, <2>1 DEF Exclusive
  <2>3. r \in Records  BY <1>3, <2>1 DEF AnyFrame
  <2> QED  BY <1>2, <1>4, <2>1, <2>2, <2>3 DEF Exclusive
<1>7. Calls'
  <2> SUFFICES ASSUME NEW u \in Threads, NEW d \in 1 .. Depth(u)'
               PROVE  Sound(Frame(u, d))'
    BY DEF Calls
  <2>1. Frame(u, d)' = Frame(u, d) /\ d \in 1 .. Depth(u)  BY <1>2
  <2>2. Sound(Frame(u, d))  BY <2>1 DEF Calls
  <2>3. Cur \in Nat  BY CurIs
  <2>4. PICK g \in AnyFrame : g = Frame(u, d)  BY <1>3, <2>1
  <2>5. Sound(g)'  BY <2>2, <2>3, <2>4, SoundStays
  <2> QED  BY <2>1, <2>4, <2>5 DEF Sound, CallOfNext, CallOfOther
<1> QED  BY <1>5, <1>6, <1>7

LEMMA CallKeeps ==
  ASSUME Typed, OneIterator, Exclusive, Calls, NEW t \in Threads, NEW f \in AnyFrame,
         stack' = [stack EXCEPT ![t] = <<f>> \o @], UNCHANGED <<lock, inplace, shown>>,
         Sound(f), f.held = {},
         f.obj = It => \A u \in Threads : \A d \in 1 .. Depth(u) : Frame(u, d).obj # It
  PROVE  OneIterator' /\ Exclusive' /\ Calls'
<1> DEFINE n == Depth(t) + 1
<1>1. \A u \in Threads :
        /\ Depth(u) \in Nat
        /\ Depth(u)' = IF u = t THEN n ELSE Depth(u)
        /\ \A d \in 1 .. Depth(u)' :
             IF u = t /\ d = n THEN Frame(u, d)' = f
             ELSE Frame(u, d)' = Frame(u, d) /\ d \in 1 .. Depth(u)
  <2>1. \A u \in Threads :
          /\ Depth(u)' = IF u = t THEN Depth(u) + 1 ELSE Depth(u)
          /\ \A d \in 1 .. Depth(u) : Frame(u, d)' = Frame(u, d)
    BY OnCall
  <2>2. \A d : d = n => Frame(t, d)' = f  BY OnCall
  <2> QED  BY <2>1, <2>2, Framed
<1>2. \A u \in Threads : \A d \in 1 .. Depth(u) : Frame(u, d) \in AnyFrame
  BY Framed
<1>3. Cur' = Cur  BY DEF Cur
<1> HIDE DEF n
<1>4. OneIterator'
  BY <1>1 DEF OneIterator
<1>5. Exclusive'
  BY <1>1 DEF Exclusive
<1>6. Calls'
  <2> SUFFICES ASSUME NEW u \in Threads, NEW d \in 1 .. Depth(u)'
               PROVE  Sound(Frame(u, d))'
    BY DEF Calls
  <2>1. CASE u = t /\ d = n
    <3>1. Frame(u, d)' = f  BY <1>1, <2>1
    <3> QED  BY <3>1, <1>3 DEF Sound, CallOfNext, CallOfOther
  <2>2. CASE ~ (u = t /\ d = n)
    <3>1. Frame(u, d)' = Frame(u, d) /\ d \in 1 .. Depth(u)  BY <1>1, <2>2
    <3>2. Sound(Frame(u, d))  BY <3>1 DEF Calls
    <3> QED  BY <3>1, <3>2, <1>3 DEF Sound, CallOfNext, CallOfOther
  <2> QED  BY <2>1, <2>2
<1> QED  BY <1>4, <1>5, <1>6

(***************************************************************************)
(* The mutexes, when those of a call are let go of.                        *)
(***************************************************************************)
LEMMA Released ==
  ASSUME Typed, NEW f \in AnyFrame, Release(f)
  PROVE  /\ lock' \in [Records -> Threads \cup {None}]
         /\ \A r \in Records \ f.held : lock'[r] = lock[r]
         /\ \A r \in f.held : lock'[r] = None
  BY DEF Typed, Release, AnyFrame

-----------------------------------------------------------------------------
(***************************************************************************)
(* A call that returns, as they all do in the end.                         *)
(***************************************************************************)
LEMMA ReturnStep ==
  ASSUME LockInv, NEW t \in Threads, stack[t] # << >>, Return(t), Release(Top(t)),
         gil' \in Threads \cup {None}, poisoned' \in SUBSET Records,
         reader' \in [Records -> Sources], http' \in [Records -> BOOLEAN],
         UNCHANGED <<inplace, shown>>, HistoryTyped', objs' \in SUBSET Objects,
         \A o \in objs' \ objs : o # It => Of(o) <= Cur
  PROVE  LockInv'
<1>1. Top(t) \in AnyFrame  BY Framed DEF LockInv
<1>2. Cur' = Cur  BY DEF Cur
<1>3. OneIterator' /\ Exclusive' /\ Calls'
  BY <1>1, <1>2, Released, ReturnKeeps DEF LockInv
<1>4. Typed'
  BY <1>1, Released, OnReturn DEF LockInv, Typed, Sources
<1>5. Known'  BY <1>2 DEF LockInv, Known
<1> QED  BY <1>3, <1>4, <1>5 DEF LockInv

(* ... and one that goes on without its mutexes.                           *)
LEMMA GoOnStep ==
  ASSUME LockInv, NEW t \in Threads, stack[t] # << >>, NEW f \in AnyFrame,
         Goto(t, f), Release(Top(t)), f.obj = Top(t).obj, f.held = {}, Sound(f)',
         gil' \in Threads \cup {None}, poisoned' \in SUBSET Records,
         reader' \in [Records -> Sources], http' \in [Records -> BOOLEAN],
         inplace' = inplace, shown' \in 0 .. Archive, HistoryTyped',
         Cur' = Cur \/ (f.obj = It /\ Cur' >= Cur),
         objs' \in SUBSET Objects,
         \A o \in objs' \ objs : o # It => Of(o) <= Cur
  PROVE  LockInv'
<1>1. Top(t) \in AnyFrame  BY Framed DEF LockInv
<1>2. Typed'
  BY <1>1, Released, OnGoto DEF LockInv, Typed, Sources
<1>3. Cur \in Nat /\ Cur' \in Nat
  <2>1. Cur \in Nat  BY CurIs DEF LockInv
  <2>2. Cur' \in Nat
    <3>1. shown' \in Nat  BY RecordAssumption
    <3> QED  BY <3>1, CurAfter
  <2> QED  BY <2>1, <2>2
<1>4. OneIterator' /\ Exclusive' /\ Calls'
  BY <1>1, <1>3, Released, GotoKeeps DEF LockInv
<1>5. Known'
  <2>1. \A o \in Objects : Of(o) \in Nat
    BY ObjectsAre, RecordAssumption DEF Records
  <2> QED  BY <1>2, <1>3, <2>1 DEF LockInv, Known, Typed
<1> QED  BY <1>2, <1>4, <1>5 DEF LockInv

-----------------------------------------------------------------------------
(***************************************************************************)
(* Where a step finds the innermost call, and how it leaves it.            *)
(***************************************************************************)
LEMMA OnTop ==
  ASSUME LockInv, NEW t \in Threads, stack[t] # << >>
  PROVE  /\ Top(t) \in AnyFrame
         /\ Top(t) = Frame(t, Depth(t))
         /\ Depth(t) \in 1 .. Depth(t)
         /\ Sound(Top(t))
         /\ Top(t).obj = It <=> Top(t).m.does \in {"advance", "check", "judge"}
         /\ Top(t).obj = It => Subject(Top(t)) = Cur
         /\ Top(t).held \subseteq Records
<1>1. Top(t) \in AnyFrame /\ Top(t) = Frame(t, Depth(t)) /\ Depth(t) \in 1 .. Depth(t)
  BY Framed DEF LockInv
<1>2. Sound(Top(t))  BY <1>1 DEF LockInv, Calls
<1> QED  BY <1>1, <1>2 DEF Sound, CallOfNext, CallOfOther, Subject, AnyFrame

LEMMA Begun ==
  ASSUME NEW f \in AnyFrame, NEW m \in {Advance, Check, Judge}, NEW at \in {"lock", "free"},
         Cur \in Records
  PROVE  LET g == Begin(f, m, at)
         IN /\ g \in AnyFrame
            /\ g.obj = f.obj /\ g.arg = f.arg /\ g.m = m
            /\ g.at = at /\ g.want = <<Cur>> /\ g.held = {}
<1>1. m \in AnyMethod  BY NextsMethods
<1>2. <<Cur>> \in Seq(Records)  OBVIOUS
<1> QED  BY <1>1, <1>2 DEF Begin, AnyFrame

(* A call of next() that goes on to look at a record.                      *)
LEMMA BeginStep ==
  ASSUME LockInv, NEW t \in Threads, stack[t] # << >>, Top(t).obj = It,
         NEW m \in {Advance, Check, Judge},
         Goto(t, Begin(Top(t), m, "lock")), Release(Top(t)),
         gil' \in Threads \cup {None}, poisoned' \in SUBSET Records,
         reader' \in [Records -> Sources], http' \in [Records -> BOOLEAN],
         UNCHANGED <<inplace, shown, objs>>, HistoryTyped'
  PROVE  LockInv'
<1>1. Cur \in Records /\ Cur' = Cur  BY CurIs DEF LockInv, Cur
<1>2. Top(t) \in AnyFrame /\ Top(t).arg = None
  BY OnTop DEF Sound, CallOfNext
<1>3. PICK g \in AnyFrame :
        /\ g = Begin(Top(t), m, "lock")
        /\ g.obj = It /\ g.arg = None /\ g.m = m
        /\ g.at = "lock" /\ g.want = <<Cur>> /\ g.held = {}
  BY <1>1, <1>2, Begun
<1>4. m.borrows = "mut" /\ m.does \in {"advance", "check", "judge"}
  BY NextsMethods
<1>5. Sound(g)'
  BY <1>1, <1>3, <1>4 DEF Sound, CallOfNext
<1>6. objs' \in SUBSET Objects /\ shown' \in 0 .. Archive  BY DEF LockInv, Typed
<1>7. Goto(t, g)  BY <1>3
<1> QED  BY <1>1, <1>3, <1>5, <1>6, <1>7, GoOnStep

LEMMA HistoryKept ==
  ASSUME LockInv, UNCHANGED history
  PROVE  HistoryTyped' /\ UNCHANGED <<misused, overrun>>
  BY DEF LockInv, Typed, history, HistoryTyped

LEMMA DataKept ==
  ASSUME LockInv, UNCHANGED data
  PROVE  /\ reader' \in [Records -> Sources] /\ http' \in [Records -> BOOLEAN]
         /\ shown' \in 0 .. Archive /\ UNCHANGED <<inplace, shown>>
         /\ Cur' = Cur /\ OnlyAt({})
  BY DEF LockInv, Typed, Sources, data, OnlyAt, Cur

LEMMA PanicKeeps ==
  ASSUME LockInv, NEW t \in Threads, stack[t] # << >>, Panic(t), gil' \in Threads \cup {None}
  PROVE  LockInv'
<1>1. Top(t).held \subseteq Records  BY OnTop
<1>2. poisoned' \in SUBSET Records /\ objs' \in SUBSET Objects /\ objs' = objs
  BY <1>1 DEF Panic, LockInv, Typed
<1> QED  BY <1>2, DataKept, HistoryKept, ReturnStep DEF Panic

LEMMA LockKeeps ==
  ASSUME LockInv, NEW t \in Threads, Lock(t), gil' \in Threads \cup {None}
  PROVE  LockInv'
<1> DEFINE f == Top(t)
           r == Head(f.want)
           g == [f EXCEPT !.want = Tail(@), !.held = @ \cup {r},
                          !.at = IF Tail(f.want) = << >> THEN "in" ELSE "lock"]
<1>1. stack[t] # << >> /\ f.at = "lock"  BY DEF Lock, IsAt
<1>2. f \in AnyFrame /\ Sound(f)  BY <1>1, OnTop
<1>3. CASE Panic(t)  BY <1>1, <1>3, PanicKeeps
<1>4. CASE /\ lock[r] = None
           /\ lock' = [lock EXCEPT ![r] = t]
           /\ Goto(t, g)
           /\ UNCHANGED <<poisoned, data, objs, history>>
  <2>1. f.want # << >> /\ f.want \in Seq(Records) /\ f.held \in SUBSET Records
    BY <1>1, <1>2 DEF Sound, CallOfNext, CallOfOther, AnyFrame
  <2>2. /\ r \in Records /\ Tail(f.want) \in Seq(Records)
        /\ Wants(f) = {r} \cup {Tail(f.want)[i] : i \in DOMAIN Tail(f.want)}
    <3> DEFINE w == f.want
    <3>1. w # << >> /\ w \in Seq(Records)  BY <2>1
    <3> HIDE DEF w
    <3>2. Head(w) \in Records /\ Tail(w) \in Seq(Records)  BY <3>1
    <3>3. \A i \in DOMAIN w : i = 1 \/ (i - 1 \in DOMAIN Tail(w) /\ w[i] = Tail(w)[i - 1])
      BY <3>1
    <3>4. \A i \in DOMAIN Tail(w) : i + 1 \in DOMAIN w /\ w[i + 1] = Tail(w)[i]
      BY <3>1
    <3>5. 1 \in DOMAIN w /\ w[1] = Head(w)  BY <3>1
    <3>6. {w[i] : i \in DOMAIN w} = {Head(w)} \cup {Tail(w)[i] : i \in DOMAIN Tail(w)}
      <4>1. ASSUME NEW i \in DOMAIN w
            PROVE  w[i] \in {Head(w)} \cup {Tail(w)[j] : j \in DOMAIN Tail(w)}
        BY <3>3, <3>5
      <4>2. ASSUME NEW i \in DOMAIN Tail(w)
            PROVE  Tail(w)[i] \in {w[j] : j \in DOMAIN w}
        BY <3>4
      <4> QED  BY <3>5, <4>1, <4>2
    <3> QED  BY <3>2, <3>6 DEF w, Wants
  <2> HIDE DEF f, r
  <2>3. PICK h \in AnyFrame :
        /\ h = g
        /\ h.obj = f.obj /\ h.arg = f.arg /\ h.m = f.m
        /\ h.at = IF Tail(f.want) = << >> THEN "in" ELSE "lock"
        /\ h.want = Tail(f.want) /\ h.held = f.held \cup {r}
    <3>1. g \in AnyFrame  BY <1>2, <2>1, <2>2 DEF AnyFrame
    <3>2. /\ g.obj = f.obj /\ g.arg = f.arg /\ g.m = f.m
          /\ g.at = IF Tail(f.want) = << >> THEN "in" ELSE "lock"
          /\ g.want = Tail(f.want) /\ g.held = f.held \cup {r}
      BY <1>2 DEF AnyFrame
    <3> QED  BY <3>1, <3>2
  <2> HIDE DEF g
  <2>4. Cur' = Cur /\ Cur' \in Nat /\ Cur \in Nat
    BY <1>4, DataKept, CurIs DEF LockInv
  <2>5. Sound(h)
    <3>1. CASE f.obj = It
      <4>1. f.want = <<Cur>> /\ f.held = {} /\ r = Cur
        BY <1>1, <1>2, <3>1 DEF Sound, CallOfNext, r
      <4>2. Tail(f.want) = << >>  BY <4>1
      <4> QED  BY <1>2, <3>1, <2>3, <4>1, <4>2 DEF Sound, CallOfNext
    <3>2. CASE f.obj # It
      <4>1. Mine(h) = Mine(f)  BY <2>3 DEF Mine
      <4>2. h.held \cup Wants(h) = Mine(f)
        BY <1>1, <1>2, <2>2, <2>3, <3>2, SMTT(30) DEF Sound, CallOfOther, Wants
      <4>3. h.want = << >> => Wants(h) = {}  BY DEF Wants
      <4> QED  BY <1>1, <1>2, <2>3, <3>2, <4>1, <4>2, <4>3 DEF Sound, CallOfOther
    <3> QED  BY <3>1, <3>2
  <2>6. Sound(h)'  BY <2>3, <2>4, <2>5, SoundStays
  <2>7. /\ \A q \in Records \ f.held : lock[q] # None => lock'[q] = lock[q]
        /\ \A q \in h.held : lock'[q] = t /\ (q \in f.held \/ lock[q] = None)
        /\ lock' \in [Records -> Threads \cup {None}]
    <3>1. \A q \in f.held : lock[q] = t  BY <1>1, OnTop DEF f, LockInv, Exclusive
    <3>2. lock \in [Records -> Threads \cup {None}]  BY DEF LockInv, Typed
    <3> QED  BY <1>4, <2>1, <2>2, <2>3, <3>1, <3>2, RecordAssumption
  <2>8. OneIterator' /\ Exclusive' /\ Calls'
    BY <1>1, <1>4, <2>3, <2>4, <2>6, <2>7, GotoKeeps DEF f, LockInv
  <2>9. Typed'
    BY <1>1, <1>4, <2>3, <2>7, OnGoto, DataKept, HistoryKept DEF LockInv, Typed, Sources
  <2>10. Known'  BY <1>4, <2>4 DEF LockInv, Known
  <2> QED  BY <2>8, <2>9, <2>10 DEF LockInv
<1> QED  BY <1>3, <1>4 DEF Lock

(* EnterPython() and Frees() change where the call stands, nothing else.   *)
LEMMA StandsKeeps ==
  ASSUME LockInv, NEW t \in Threads, stack[t] # << >>, NEW at \in {"lock", "python"},
         Goto(t, [Top(t) EXCEPT !.at = at]), UNCHANGED <<lock, poisoned, data, objs, history>>,
         gil' \in Threads \cup {None},
         \/ Top(t).at = "in" /\ at = "python"
         \/ Top(t).at = "free" /\ at = "lock" /\ Top(t).obj # It /\ Top(t).want # << >>
  PROVE  LockInv'
<1>1. Top(t) \in AnyFrame /\ Sound(Top(t))  BY OnTop
<1>2. PICK f \in AnyFrame :
        /\ f = [Top(t) EXCEPT !.at = at]
        /\ f.obj = Top(t).obj /\ f.arg = Top(t).arg /\ f.m = Top(t).m
        /\ f.at = at /\ f.want = Top(t).want /\ f.held = Top(t).held
  BY <1>1 DEF AnyFrame
<1>3. Cur' = Cur /\ Cur \in Nat  BY DataKept, CurIs DEF LockInv
<1>4. Sound(f)
  <2>1. Mine(f) = Mine(Top(t)) /\ Wants(f) = Wants(Top(t))  BY <1>2 DEF Mine, Wants
  <2> QED  BY <1>1, <1>2, <2>1 DEF Sound, CallOfNext, CallOfOther
<1>5. Sound(f)'  BY <1>3, <1>4, SoundStays
<1>6. \A r \in f.held : lock'[r] = t /\ r \in Top(t).held
  BY <1>2, OnTop DEF LockInv, Exclusive
<1>7. OneIterator' /\ Exclusive' /\ Calls'
  BY <1>2, <1>3, <1>5, <1>6, GotoKeeps DEF LockInv
<1>8. Typed'
  BY <1>2, OnGoto, DataKept, HistoryKept DEF LockInv, Typed, Sources
<1>9. Known'  BY <1>3 DEF LockInv, Known
<1> QED  BY <1>7, <1>8, <1>9 DEF LockInv

LEMMA EnterPythonKeeps ==
  ASSUME LockInv, NEW t \in Threads, EnterPython(t), gil' \in Threads \cup {None}
  PROVE  LockInv'
  BY StandsKeeps DEF EnterPython, IsAt

LEMMA UnwindsTo ==
  ASSUME LockInv, NEW t \in Threads, stack[t] # << >>, Unwinds(t)
  PROVE  /\ Return(t) /\ Release(Top(t)) /\ UNCHANGED <<objs, misused>>
         /\ reader' \in [Records -> Sources] /\ http' \in [Records -> BOOLEAN]
         /\ UNCHANGED <<inplace, shown>>
         /\ poisoned' \in SUBSET Records /\ objs' \in SUBSET Objects
         /\ OnlyAt({Subject(Top(t))})
<1>1. /\ Top(t) \in AnyFrame /\ Top(t).held \subseteq Records
      /\ Top(t).m.does = "advance" => Subject(Top(t)) = Cur
  BY OnTop
<1>2. /\ Return(t) /\ Release(Top(t)) /\ UNCHANGED <<objs, misused>>
      /\ poisoned' = poisoned \cup Top(t).held
  BY DEF Unwinds
<1>3. poisoned' \in SUBSET Records /\ objs' \in SUBSET Objects
  BY <1>1, <1>2 DEF LockInv, Typed
<1>4. CASE UNCHANGED data
  <2>1. OnlyAt({Subject(Top(t))})  BY <1>4, DataKept DEF OnlyAt
  <2> QED  BY <1>2, <1>3, <1>4, <2>1, DataKept
<1>5. CASE Moved(Cur, FALSE) /\ Top(t).m.does = "advance"
  <2>1. shown' = shown  BY <1>5 DEF Moved
  <2>2. OnlyAt({Subject(Top(t))})  BY <1>1, <1>5, MovedIs DEF LockInv
  <2> QED  BY <1>2, <1>3, <1>5, <2>1, <2>2, MovedIs DEF LockInv
<1>6. CASE Failed(Top(t))
  BY <1>1, <1>2, <1>3, <1>6, FailedIs DEF LockInv, Typed
<1> QED  BY <1>4, <1>5, <1>6 DEF Unwinds

LEMMA UnwindsKeeps ==
  ASSUME LockInv, NEW t \in Threads, RaisesPanic(t) \/ Overruns(t),
         gil' \in Threads \cup {None}
  PROVE  LockInv'
<1>1. stack[t] # << >> /\ Unwinds(t)  BY DEF RaisesPanic, Overruns, IsAt
<1>2. misused' = misused /\ objs' = objs  BY <1>1, UnwindsTo
<1>3. HistoryTyped'
  BY <1>2 DEF RaisesPanic, Overruns, LockInv, Typed, HistoryTyped
<1> QED  BY <1>1, <1>2, <1>3, UnwindsTo, ReturnStep

LEMMA FailsKeeps ==
  ASSUME LockInv, NEW t \in Threads, Raises(t) \/ FreeRaises(t),
         gil' \in Threads \cup {None}
  PROVE  LockInv'
<1>1. stack[t] # << >>  BY DEF Raises, FreeRaises, IsAt
<1>2. CASE Raises(t)
  <2>1. Top(t) \in AnyFrame  BY <1>1, OnTop
  <2>2. /\ reader' \in [Records -> Sources]
        /\ UNCHANGED <<inplace, http, shown>>
    BY <1>2, <2>1, FailedIs DEF Raises, LockInv
  <2>3. http' \in [Records -> BOOLEAN] /\ poisoned' \in SUBSET Records /\ objs' \in SUBSET Objects
    BY <1>2, <2>2 DEF Raises, LockInv, Typed
  <2> QED  BY <1>1, <1>2, <2>2, <2>3, HistoryKept, ReturnStep DEF Raises
<1>3. CASE FreeRaises(t)
  <2>1. poisoned' \in SUBSET Records /\ objs' \in SUBSET Objects
    BY <1>3 DEF FreeRaises, LockInv, Typed
  <2> QED  BY <1>1, <1>3, <2>1, DataKept, HistoryKept, ReturnStep DEF FreeRaises
<1> QED  BY <1>2, <1>3

LEMMA FreesKeeps ==
  ASSUME LockInv, NEW t \in Threads, Frees(t), gil' \in Threads \cup {None}
  PROVE  LockInv'
<1>1. stack[t] # << >> /\ Top(t).at = "free" /\ Top(t).obj # It  BY DEF Frees, IsAt
<1>2. CASE Top(t).want # << >>
  <2>1. Goto(t, [Top(t) EXCEPT !.at = "lock"])  BY <1>2 DEF Frees
  <2> QED  BY <1>1, <1>2, <2>1, StandsKeeps DEF Frees
<1>3. CASE Top(t).want = << >>
  <2>1. Return(t)  BY <1>3 DEF Frees
  <2>2. poisoned' \in SUBSET Records /\ objs' \in SUBSET Objects /\ objs' = objs
    BY DEF Frees, LockInv, Typed
  <2>3. Release(Top(t))
    <3>1. Top(t).held = {}  BY <1>1, OnTop DEF Sound, CallOfOther
    <3>2. lock' = lock /\ lock = [r \in Records |-> lock[r]]  BY DEF Frees, LockInv, Typed
    <3> QED  BY <3>1, <3>2 DEF Release
  <2> QED  BY <1>1, <2>1, <2>2, <2>3, DataKept, HistoryKept, ReturnStep DEF Frees
<1> QED  BY <1>2, <1>3

LEMMA FinishKeeps ==
  ASSUME LockInv, NEW t \in Threads, Finish(t), gil' \in Threads \cup {None}
  PROVE  LockInv'
<1>1. stack[t] # << >> /\ Top(t).at \in {"in", "python"} /\ Top(t).obj # It
  BY DEF Finish, Ready, IsAt
<1>2. PICK f \in AnyFrame : f = Top(t) /\ Sound(f)  BY <1>1, OnTop
<1>3. /\ reader' \in [Records -> Sources]
      /\ http' \in [Records -> BOOLEAN]
      /\ UNCHANGED <<inplace, shown>>
      /\ Cur' = Cur
  BY <1>2, WorkedIs DEF Finish, LockInv
<1>4. Subject(f) \in Mine(f) /\ \A r \in Mine(f) : r <= Cur
  <2>1. f.obj # None  BY <1>2, ObjectsAre DEF AnyFrame
  <2> QED  BY <1>1, <1>2, <2>1 DEF Sound, CallOfOther, Subject, Mine
<1>5. /\ poisoned' \in SUBSET Records
      /\ objs' \in SUBSET Objects
      /\ \A o \in objs' \ objs : o # It => Of(o) <= Cur
      /\ HistoryTyped'
  <2>1. Yields(f) \subseteq {<<"http", Subject(f)>>}  BY DEF Yields
  <2>2. <<"http", Subject(f)>> \in Objects /\ Of(<<"http", Subject(f)>>) <= Cur
    BY <1>2, <1>4, SubjectIs DEF Objects, Of, LockInv
  <2> QED  BY <1>2, <2>1, <2>2, HistoryKept DEF Finish, LockInv, Typed
<1>6. CASE f.m.does = "digest"
  <2>1. Goto(t, [f EXCEPT !.m = Write, !.at = "free", !.want = <<Of(f.obj)>>, !.held = {}])
    BY <1>2, <1>6 DEF Finish
  <2>2. Of(f.obj) \in Records  BY ObjectsAre DEF AnyFrame
  <2>3. <<Of(f.obj)>> \in Seq(Records) /\ {} \in SUBSET Records  BY <2>2
  <2>4. Write \in AnyMethod /\ Write.does = "write"
    BY DEF Write, Method, AnyMethod, Doings
  <2>5. PICK g \in AnyFrame :
          /\ Goto(t, g)
          /\ g.obj = f.obj /\ g.arg = f.arg /\ g.m = Write
          /\ g.at = "free" /\ g.want = <<Of(f.obj)>> /\ g.held = {}
    <3> DEFINE h == [f EXCEPT !.m = Write, !.at = "free", !.want = <<Of(f.obj)>>, !.held = {}]
    <3>1. h = [f EXCEPT !.m = Write, !.at = "free", !.want = <<Of(f.obj)>>, !.held = {}]
      OBVIOUS
    <3> HIDE DEF h
    <3>2. /\ h \in AnyFrame
          /\ h.obj = f.obj /\ h.arg = f.arg /\ h.m = Write
          /\ h.at = "free" /\ h.want = <<Of(f.obj)>> /\ h.held = {}
      BY <3>1, <2>3, <2>4 DEF AnyFrame
    <3> QED  BY <2>1, <3>1, <3>2
  <2>6. f.arg = None  BY <1>1, <1>2, <1>6 DEF Sound, CallOfOther
  <2>7. Mine(g) = {Of(f.obj)} /\ Mine(f) = {Of(f.obj)} /\ Wants(g) = {Of(f.obj)}
    <3>1. f.obj # None  BY ObjectsAre DEF AnyFrame
    <3>2. DOMAIN g.want = {1} /\ g.want[1] = Of(f.obj)  BY <2>5
    <3> QED  BY <2>5, <2>6, <3>1, <3>2 DEF Mine, Wants
  <2>8. Sound(g)
    BY <1>1, <1>2, <1>4, <2>4, <2>5, <2>6, <2>7 DEF Sound, CallOfOther
  <2>9. Sound(g)'  BY <1>3, <2>8, SoundStays, CurIs DEF LockInv
  <2> QED  BY <1>1, <1>2, <1>3, <1>5, <2>5, <2>9, GoOnStep DEF Finish, LockInv, Typed
<1>7. CASE f.m.does = "write"
  <2>1. Goto(t, [f EXCEPT !.at = "free", !.held = {}])
    BY <1>2, <1>7 DEF Finish
  <2>2. PICK g \in AnyFrame :
          /\ g = [f EXCEPT !.at = "free", !.held = {}]
          /\ g.obj = f.obj /\ g.arg = f.arg /\ g.m = f.m
          /\ g.at = "free" /\ g.want = f.want /\ g.held = {}
    <3> DEFINE h == [f EXCEPT !.at = "free", !.held = {}]
    <3>1. h \in AnyFrame  BY DEF AnyFrame
    <3>2. /\ h.obj = f.obj /\ h.arg = f.arg /\ h.m = f.m
          /\ h.at = "free" /\ h.want = f.want /\ h.held = {}
      BY DEF AnyFrame
    <3> QED  BY <3>1, <3>2
  <2>3. Mine(g) = Mine(f) /\ g.want = << >>
    BY <1>1, <1>2, <2>2 DEF Mine, Sound, CallOfOther
  <2>4. Sound(g)
    BY <1>1, <1>2, <2>2, <2>3 DEF Sound, CallOfOther
  <2>5. Sound(g)'  BY <1>3, <2>4, SoundStays, CurIs DEF LockInv
  <2> QED  BY <1>1, <1>2, <1>3, <1>5, <2>1, <2>2, <2>5, GoOnStep DEF Finish, LockInv, Typed
<1>8. CASE f.m.does \notin {"digest", "write"}
  <2>1. Return(t)  BY <1>2, <1>8 DEF Finish
  <2> QED  BY <1>1, <1>2, <1>3, <1>5, <2>1, ReturnStep DEF Finish
<1> QED  BY <1>6, <1>7, <1>8

(***************************************************************************)
(* The steps of next().                                                    *)
(***************************************************************************)
LEMMA NextsStep ==
  ASSUME LockInv, NEW t \in Threads,
         \/ NextEnds(t) \/ NextMoves(t) \/ NextFails(t) \/ CheckEnds(t) \/ CheckFails(t)
         \/ JudgeEnds(t) \/ FilterAccepts(t) \/ FilterRejects(t)
  PROVE  /\ stack[t] # << >>
         /\ Top(t).obj = It
         /\ Top(t).arg = None
         /\ Top(t) \in AnyFrame
         /\ Subject(Top(t)) = Cur
         /\ Release(Top(t))
         /\ poisoned' \in SUBSET Records
         /\ poisoned' = poisoned
<1>1. stack[t] # << >>
  BY DEF NextEnds, NextMoves, NextFails, CheckEnds, CheckFails, JudgeEnds, FilterAccepts,
         FilterRejects, Does, Ready, IsAt
<1>2. Top(t).m.does \in {"advance", "check", "judge"} \/ Top(t).obj = It
  BY DEF NextEnds, NextMoves, NextFails, CheckEnds, CheckFails, JudgeEnds, FilterAccepts,
         FilterRejects, Does
<1>3. Release(Top(t)) /\ poisoned' = poisoned
  BY DEF NextEnds, NextMoves, NextFails, CheckEnds, CheckFails, JudgeEnds, FilterAccepts,
         FilterRejects, IterStep
<1>4. Top(t).obj = It /\ Top(t).arg = None  BY <1>1, <1>2, OnTop DEF Sound, CallOfNext
<1> QED  BY <1>1, <1>3, <1>4, OnTop DEF LockInv, Typed

LEMMA NextEndsKeeps ==
  ASSUME LockInv, NEW t \in Threads, NextEnds(t) \/ NextFails(t), gil' \in Threads \cup {None}
  PROVE  LockInv'
<1>1. stack[t] # << >> /\ Release(Top(t)) /\ poisoned' \in SUBSET Records  BY NextsStep
<1>2. Return(t) /\ HistoryTyped' /\ objs' = objs /\ (Moved(Cur, FALSE) \/ UNCHANGED data)
  BY HistoryKept DEF NextEnds, NextFails, IterStep
<1>3. /\ reader' \in [Records -> Sources]
      /\ http' \in [Records -> BOOLEAN]
      /\ UNCHANGED <<inplace, shown>>
  <2>1. CASE Moved(Cur, FALSE)
    <3>1. shown' = shown  BY <2>1 DEF Moved
    <3> QED  BY <2>1, <3>1, MovedIs DEF LockInv
  <2>2. CASE UNCHANGED data  BY <2>2, DataKept
  <2> QED  BY <1>2, <2>1, <2>2
<1>4. objs' \in SUBSET Objects  BY <1>2 DEF LockInv, Typed
<1> QED  BY <1>1, <1>2, <1>3, <1>4, ReturnStep

LEMMA NextMovesKeeps ==
  ASSUME LockInv, NEW t \in Threads, NextMoves(t), gil' \in Threads \cup {None}
  PROVE  LockInv'
<1>1. /\ stack[t] # << >> /\ Release(Top(t)) /\ poisoned' \in SUBSET Records
      /\ Top(t).obj = It /\ Top(t).arg = None /\ Top(t) \in AnyFrame
  BY NextsStep
<1>2. /\ Moved(Cur, TRUE)
      /\ shown # Archive
      /\ Goto(t, [Begin(Top(t), Check, "lock") EXCEPT !.want = <<IF inplace THEN 1 ELSE Cur + 1>>])
      /\ UNCHANGED objs /\ HistoryTyped'
  BY HistoryKept DEF NextMoves, IterStep, Ends
<1>3. /\ reader' \in [Records -> Sources]
      /\ http' \in [Records -> BOOLEAN]
      /\ shown' \in 0 .. Archive
      /\ inplace' = inplace
      /\ Cur' = IF ~ inplace THEN Cur + 1 ELSE Cur
  BY <1>2, MovedIs DEF LockInv
<1>4. /\ Cur \in Records /\ Cur \in Nat /\ Cur' \in Nat
      /\ inplace => Cur = 1
      /\ (IF inplace THEN 1 ELSE Cur + 1) \in Records
  <2>1. Cur \in 1 .. Archive + 1 /\ Archive \in Nat  BY CurIs DEF LockInv
  <2>2. inplace => Cur = 1  BY DEF Cur
  <2>3. ~ inplace => Cur = shown + 1 /\ shown \in 0 .. Archive  BY DEF Cur, LockInv, Typed
  <2> QED  BY <1>2, <1>3, <2>1, <2>2, <2>3 DEF Records
<1>5. Cur' = IF inplace THEN 1 ELSE Cur + 1  BY <1>3, <1>4
<1>6. PICK g \in AnyFrame :
        /\ Goto(t, g)
        /\ g.obj = It /\ g.arg = None /\ g.m = Check
        /\ g.at = "lock" /\ g.want = <<IF inplace THEN 1 ELSE Cur + 1>> /\ g.held = {}
  <2> DEFINE w == <<IF inplace THEN 1 ELSE Cur + 1>>
             g == [Begin(Top(t), Check, "lock") EXCEPT !.want = w]
  <2>1. w \in Seq(Records)  BY <1>4
  <2>2. g = [Begin(Top(t), Check, "lock") EXCEPT !.want = w]  OBVIOUS
  <2> HIDE DEF w, g
  <2>3. /\ g \in AnyFrame /\ g.obj = It /\ g.arg = None /\ g.m = Check
        /\ g.at = "lock" /\ g.want = w /\ g.held = {}
    BY <1>1, <1>4, <2>1, <2>2, NextsMethods DEF Begin, AnyFrame
  <2> QED  BY <1>2, <2>2, <2>3 DEF w
<1>7. Sound(g)'
  BY <1>5, <1>6, NextsMethods DEF Sound, CallOfNext
<1>8. Cur' >= Cur  BY <1>4, <1>5
<1>9. objs' \in SUBSET Objects  BY <1>2 DEF LockInv, Typed
<1> QED  BY <1>1, <1>2, <1>3, <1>6, <1>7, <1>8, <1>9, GoOnStep

LEMMA CheckEndsKeeps ==
  ASSUME LockInv, NEW t \in Threads, CheckEnds(t) \/ CheckFails(t),
         gil' \in Threads \cup {None}
  PROVE  LockInv'
<1>1. /\ stack[t] # << >> /\ Release(Top(t)) /\ poisoned' \in SUBSET Records
      /\ Top(t).obj = It /\ Top(t) \in AnyFrame
  BY NextsStep
<1>2. Worked(Top(t)) \/ Failed(Top(t))  BY DEF CheckEnds, CheckFails
<1>3. /\ reader' \in [Records -> Sources]
      /\ http' \in [Records -> BOOLEAN]
      /\ UNCHANGED <<inplace, shown>>
  <2>1. CASE Worked(Top(t))  BY <1>1, <2>1, WorkedIs DEF LockInv
  <2>2. CASE Failed(Top(t))  BY <1>1, <2>2, FailedIs DEF LockInv, Typed
  <2> QED  BY <1>2, <2>1, <2>2
<1>4. UNCHANGED objs /\ objs' \in SUBSET Objects /\ HistoryTyped'
  BY HistoryKept DEF CheckEnds, CheckFails, IterStep, LockInv, Typed
<1>5. CASE Return(t)  BY <1>1, <1>3, <1>4, <1>5, ReturnStep
<1>6. CASE Goto(t, Begin(Top(t), Judge, "lock"))
  BY <1>1, <1>3, <1>4, <1>6, BeginStep
<1>7. CASE Goto(t, Begin(Top(t), Advance, "lock"))
  BY <1>1, <1>3, <1>4, <1>7, BeginStep
<1> QED  BY <1>5, <1>6, <1>7 DEF CheckEnds, CheckFails

LEMMA JudgeEndsKeeps ==
  ASSUME LockInv, NEW t \in Threads, JudgeEnds(t), gil' \in Threads \cup {None}
  PROVE  LockInv'
<1>1. /\ stack[t] # << >> /\ Release(Top(t)) /\ poisoned' \in SUBSET Records
      /\ Top(t).obj = It /\ Top(t).arg = None /\ Top(t) \in AnyFrame
  BY NextsStep
<1>2. Worked(Top(t)) /\ HistoryTyped'  BY HistoryKept DEF JudgeEnds
<1>3. /\ reader' \in [Records -> Sources]
      /\ http' \in [Records -> BOOLEAN]
      /\ UNCHANGED <<inplace, shown>>
      /\ Cur' = Cur
  BY <1>1, <1>2, WorkedIs DEF LockInv
<1>4. Cur \in Records /\ Cur \in Nat /\ shown' \in 0 .. Archive
  BY <1>2, <1>3, CurIs DEF LockInv, Typed
<1>5. CASE /\ Goto(t, [Begin(Top(t), Judge, "free") EXCEPT !.want = << >>])
           /\ objs' = objs \cup {<<"rec", Cur>>}
  <2>1. PICK g \in AnyFrame :
          /\ Goto(t, g)
          /\ g.obj = It /\ g.arg = None /\ g.m = Judge
          /\ g.at = "free" /\ g.want = << >> /\ g.held = {}
    <3> DEFINE g == [Begin(Top(t), Judge, "free") EXCEPT !.want = << >>]
    <3>1. g = [Begin(Top(t), Judge, "free") EXCEPT !.want = << >>]  OBVIOUS
    <3> HIDE DEF g
    <3>2. << >> \in Seq(Records)  OBVIOUS
    <3>3. /\ g \in AnyFrame /\ g.obj = It /\ g.arg = None /\ g.m = Judge
          /\ g.at = "free" /\ g.want = << >> /\ g.held = {}
      BY <1>1, <1>4, <3>1, <3>2, NextsMethods DEF Begin, AnyFrame
    <3> QED  BY <1>5, <3>1, <3>3
  <2>2. Sound(g)'  BY <2>1, NextsMethods DEF Sound, CallOfNext
  <2>3. objs' \in SUBSET Objects /\ \A o \in objs' \ objs : o # It => Of(o) <= Cur
    BY <1>4, <1>5 DEF LockInv, Typed, Objects, Of
  <2> QED  BY <1>1, <1>2, <1>3, <1>4, <2>1, <2>2, <2>3, GoOnStep
<1>6. CASE Goto(t, Begin(Top(t), Advance, "lock")) /\ UNCHANGED objs
  BY <1>1, <1>2, <1>3, <1>4, <1>6, BeginStep
<1> QED  BY <1>5, <1>6 DEF JudgeEnds

LEMMA FilterKeeps ==
  ASSUME LockInv, NEW t \in Threads, FilterAccepts(t) \/ FilterRejects(t),
         gil' \in Threads \cup {None}
  PROVE  LockInv'
<1>1. /\ stack[t] # << >> /\ Release(Top(t)) /\ poisoned' \in SUBSET Records
      /\ Top(t).obj = It /\ Top(t) \in AnyFrame
  BY NextsStep
<1>2. UNCHANGED <<data, objs>> /\ objs' \in SUBSET Objects
  BY DEF FilterAccepts, FilterRejects, LockInv, Typed
<1>3. CASE FilterAccepts(t)
  BY <1>1, <1>2, <1>3, DataKept, HistoryKept, ReturnStep DEF FilterAccepts
<1>4. CASE FilterRejects(t)
  <2>1. HistoryTyped'  BY <1>4 DEF FilterRejects, LockInv, Typed, HistoryTyped
  <2> QED  BY <1>1, <1>2, <1>4, <2>1, DataKept, BeginStep DEF FilterRejects
<1> QED  BY <1>3, <1>4

(***************************************************************************)
(* A call of a method.                                                     *)
(***************************************************************************)
LEMMA ReachedIs ==
  ASSUME LockInv
  PROVE  /\ Reached \subseteq Objects
         /\ \A o \in Reached : o # It => Of(o) <= Cur
<1>1. \A r \in Records : <<"rec", r>> \in objs => r <= Cur
  BY DEF LockInv, Known, It, Of
<1> QED  BY <1>1 DEF Reached, LockInv, Typed, Known, Objects, Of

LEMMA CallIs ==
  ASSUME LockInv, NEW o \in Reached, NEW m \in Methods[o[1]], NEW a \in Reached \cup {None},
         (a # None) <=> (m.does = "compare"),
         a # None => a[1] \in IF o[1] = "rec" THEN {"rec"} ELSE {"warc", "http"},
         NEW at \in {"free", "lock"},
         at = "free" => m.does \in {"date", "digest", "write"},
         NEW f, f = [obj |-> o, arg |-> a, m |-> m, at |-> at, want |-> Needs(o, a, m), held |-> {}]
  PROVE  /\ f \in AnyFrame
         /\ Sound(f)
         /\ o # It => Wants(f) = Mine(f)
<1>1. o \in Objects /\ a \in Objects \cup {None} /\ Cur \in Records
  BY ReachedIs, CurIs DEF LockInv
<1>2. /\ m \in AnyMethod
      /\ (o = It) <=> (m.does \in {"advance", "check", "judge"})
      /\ o = It => m.borrows = "mut" /\ m.does = "advance"
      /\ m.does = "compare" => m.borrows = "shared"
  BY <1>1, MethodsOf
<1>3. Of(o) \in Records /\ (a # None => Of(a) \in Records) /\ o # None /\ None # It
  BY <1>1, ObjectsAre
<1>4. /\ f.obj = o /\ f.arg = a /\ f.m = m /\ f.at = at
      /\ f.want = Needs(o, a, m) /\ f.held = {}
  OBVIOUS
<1>5. Needs(o, a, m) \in Seq(Records)
  BY <1>1, <1>3 DEF Needs
<1>6. f \in AnyFrame  BY <1>1, <1>2, <1>5 DEF AnyFrame
<1>7. CASE o = It
  <2>1. a = None /\ at = "lock" /\ f.want = <<Cur>>  BY <1>2, <1>4, <1>7 DEF Needs
  <2> QED  BY <1>2, <1>4, <1>6, <1>7, <2>1 DEF Sound, CallOfNext
<1>8. CASE o # It
  <2>1. Needs(o, a, m) # << >> /\ {Needs(o, a, m)[i] : i \in DOMAIN Needs(o, a, m)} =
          IF a = None THEN {Of(o)} ELSE {Of(o), Of(a)}
    <3>1. CASE a = None
      <4>1. Needs(o, a, m) = <<Of(o)>>  BY <1>8, <3>1 DEF Needs
      <4> QED  BY <3>1, <4>1
    <3>2. CASE a # None /\ o[1] = "rec" /\ Of(o) = Of(a)
      <4>1. Needs(o, a, m) = <<Of(o)>>  BY <1>8, <3>2 DEF Needs
      <4> QED  BY <3>2, <4>1
    <3>3. CASE a # None /\ ~ (o[1] = "rec" /\ Of(o) = Of(a))
      <4>1. Needs(o, a, m) = <<Of(o), Of(a)>>  BY <1>8, <3>3 DEF Needs
      <4> QED  BY <3>3, <4>1
    <3> QED  BY <3>1, <3>2, <3>3
  <2>2. Mine(f) = IF a = None THEN {Of(o)} ELSE {Of(o), Of(a)}
    BY <1>3, <1>4 DEF Mine
  <2>3. Wants(f) = Mine(f) /\ f.want # << >>
    BY <1>4, <2>1, <2>2 DEF Wants
  <2>4. a # None => a # It
    BY DEF It
  <2>5. \A r \in Mine(f) : r <= Cur
    BY <1>3, <1>8, <2>2, <2>4, ReachedIs
  <2> QED  BY <1>2, <1>4, <1>6, <1>8, <2>3, <2>4, <2>5 DEF Sound, CallOfOther
<1> QED  BY <1>6, <1>7, <1>8

LEMMA CallFinds ==
  ASSUME Typed
  PROVE  \A g : g \in AllFrames <=> \E u \in Threads : \E d \in 1 .. Depth(u) : g = Frame(u, d)
  BY Framed DEF AllFrames

LEMMA CallStep ==
  ASSUME LockInv, NEW t \in Threads, NEW o \in Reached, NEW m \in Methods[o[1]],
         NEW a \in Reached \cup {None}, Call(t, o, a, m), gil' \in Threads \cup {None}
  PROVE  LockInv'
<1> DEFINE at == IF m.does \in {"date", "digest", "write"} THEN "free" ELSE "lock"
<1>1. PICK f : /\ f = [obj |-> o, arg |-> a, m |-> m, at |-> at, want |-> Needs(o, a, m), held |-> {}]
              /\ stack' = [stack EXCEPT ![t] = <<f>> \o @]
  BY DEF Call
<1>2. f \in AnyFrame /\ Sound(f) /\ f.held = {} /\ f.obj = o
  BY <1>1, CallIs DEF Call
<1>3. f.obj = It => \A u \in Threads : \A d \in 1 .. Depth(u) : Frame(u, d).obj # It
  <2> SUFFICES ASSUME o = It, NEW u \in Threads, NEW d \in 1 .. Depth(u), Frame(u, d).obj = It
               PROVE  FALSE
    BY <1>2
  <2>1. o \in Objects  BY ReachedIs
  <2>2. m.borrows = "mut"  BY <2>1, MethodsOf
  <2>3. ~ Borrowed(o, "any")  BY <2>2 DEF Call, Refused
  <2>4. Frame(u, d) \in AllFrames  BY CallFinds DEF LockInv
  <2> QED  BY <2>3, <2>4 DEF Borrowed
<1>4. UNCHANGED <<lock, poisoned, data, objs>>  BY DEF Call
<1>5. OneIterator' /\ Exclusive' /\ Calls'
  BY <1>1, <1>2, <1>3, <1>4, CallKeeps DEF LockInv, data
<1>6. HistoryTyped'  BY DEF Call, LockInv, Typed, HistoryTyped
<1>7. Typed'
  BY <1>1, <1>2, <1>4, <1>6, OnCall, DataKept DEF LockInv, Typed, Sources
<1>8. Known'  BY <1>4, DataKept DEF LockInv, Known
<1> QED  BY <1>5, <1>7, <1>8 DEF LockInv

(***************************************************************************)
(* Every step, and the start.                                              *)
(***************************************************************************)
LEMMA LockInvStep ==
  ASSUME LockInv, NEW t \in Threads, Step(t) \/ Other(t), gil' \in Threads \cup {None}
  PROVE  LockInv'
<1>1. CASE Step(t)
  <2>1. CASE PanicIn(t)  BY <2>1, PanicKeeps DEF PanicIn, IsAt
  <2> QED
    BY <1>1, <2>1, LockKeeps, EnterPythonKeeps, FinishKeeps, FreesKeeps, NextEndsKeeps,
       NextMovesKeeps, CheckEndsKeeps, JudgeEndsKeeps, FilterKeeps
    DEF Step
<1>2. CASE Other(t)
  BY <1>2, CallStep, FailsKeeps, UnwindsKeeps, NextEndsKeeps, CheckEndsKeeps, FilterKeeps
  DEF Other
<1> QED  BY <1>1, <1>2

LEMMA LockInvInit == Init => LockInv
<1> SUFFICES ASSUME Init PROVE LockInv  OBVIOUS
<1>1. Archive \in Nat /\ It \in Objects  BY RecordAssumption, ObjectsAre
<1>2. 0 \in Records /\ <<"rec", 0>> \in Objects  BY <1>1 DEF Records, Objects
<1>3. \A t \in Threads : stack[t] = << >> /\ Depth(t) = 0  BY DEF Init, Depth
<1>4. Typed
  <2>1. stack \in [Threads -> Seq(AnyFrame)]  BY DEF Init
  <2>2. /\ lock \in [Records -> Threads \cup {None}]
        /\ reader \in [Records -> {"memory", "stream", "none", "frozen"}]
        /\ http \in [Records -> BOOLEAN]
    BY DEF Init
  <2>3. shown \in 0 .. Archive  BY <1>1 DEF Init
  <2> QED  BY <1>1, <1>2, <2>1, <2>2, <2>3 DEF Init, Typed
<1>5. Known  BY <1>4, CurIs DEF Init, Known, Of
<1> QED  BY <1>3, <1>4, <1>5 DEF LockInv, OneIterator, Exclusive, Calls

-----------------------------------------------------------------------------
(***************************************************************************)
(* A step changes the calls of its thread only, and keeps the interpreter  *)
(* lock unless it leaves the thread in Python code.                        *)
(***************************************************************************)
LEMMA OneStack ==
  ASSUME NEW t \in Threads, Step(t) \/ Other(t)
  PROVE  \/ stack[t] # << >> /\ (Return(t) \/ \E f : Goto(t, f))
         \/ \E f : stack' = [stack EXCEPT ![t] = <<f>> \o @]
  BY DEF Step, Other, Lock, PanicIn, Panic, EnterPython, Finish, Frees, NextEnds, NextMoves,
         CheckEnds, JudgeEnds, FilterAccepts, Call, Raises, RaisesPanic, Overruns,
         Unwinds, FreeRaises, NextFails, CheckFails, FilterRejects, IsAt, Does, Ready

LEMMA OthersStacks ==
  ASSUME Typed, NEW t \in Threads, Step(t) \/ Other(t)
  PROVE  \A u \in Threads \ {t} : stack'[u] = stack[u]
<1>1. stack \in [Threads -> Seq(AnyFrame)]  BY DEF Typed
<1> QED  BY <1>1, OneStack DEF Return, Goto

LEMMA GilKeptStep ==
  ASSUME Typed, GilKept, NEW t \in Threads, MayRun(t), Step(t) \/ Other(t), Keeps(t)
  PROVE  GilKept'
<1> SUFFICES ASSUME NEW u \in Threads, ~ InPython(u)'
             PROVE  gil' = u
  BY DEF GilKept
<1>1. CASE u = t  BY <1>1 DEF Keeps
<1>2. CASE u # t
  <2>1. stack'[u] = stack[u]  BY <1>2, OthersStacks
  <2>2. ~ InPython(u)  BY <2>1 DEF InPython, Top
  <2>3. gil = u  BY <2>2 DEF GilKept
  <2> QED  BY <1>2, <2>3, RecordAssumption DEF MayRun
<1> QED  BY <1>1, <1>2

-----------------------------------------------------------------------------
(***************************************************************************)
(* Calls stay apart, as long as none collides.                             *)
(***************************************************************************)
Alone(t, R) ==
  \A u \in Threads : \A d \in 1 .. Depth(u) :
    ~ (u = t /\ d = Depth(t)) => Uses(Frame(u, d)) \cap R = {}

LEMMA UsesAre ==
  ASSUME NEW f \in AnyFrame, Sound(f)
  PROVE  /\ f.obj # It => Uses(f) = Mine(f)
         /\ f.obj = It => Uses(f) = IF f.at = "free" THEN {} ELSE {Cur}
         /\ f.obj = It => ~ PanicsIn(f) /\ ~ PanicsIn(f)'
<1>1. CASE f.obj # It  BY <1>1 DEF Uses, Mine
<1>2. CASE f.obj = It
  <2>1. ~ PanicsIn(f) /\ ~ PanicsIn(f)'
    BY <1>2 DEF Sound, CallOfNext, PanicsIn, Gone, It
  <2>2. f.at = "free" => Uses(f) = {}  BY <1>2 DEF Uses
  <2>3. f.at = "lock" => Uses(f) = {Cur}
    BY <1>2 DEF Uses, Sound, CallOfNext, Wants
  <2>4. f.at \in {"in", "python"} => Uses(f) = {Cur}
    BY <1>2 DEF Uses, Sound, CallOfNext, Wants
  <2> QED  BY <1>2, <2>1, <2>2, <2>3, <2>4 DEF AnyFrame
<1> QED  BY <1>1, <1>2

LEMMA CalmStays ==
  ASSUME NEW f \in AnyFrame, Sound(f), ~ PanicsIn(f),
         \A q \in Uses(f) : reader'[q] = reader[q] /\ http'[q] = http[q]
  PROVE  ~ PanicsIn(f)'
<1>1. CASE f.obj = It  BY <1>1, UsesAre
<1>2. CASE f.obj # It
  <2>1. Uses(f) = Mine(f)  BY <1>2, UsesAre
  <2>2. f.obj # None  BY ObjectsAre DEF AnyFrame
  <2>3. Of(f.obj) \in Uses(f) /\ (f.arg # None => Of(f.arg) \in Uses(f))
    BY <2>1, <2>2 DEF Mine
  <2>4. Gone(f.obj)' => Gone(f.obj)  BY <2>3 DEF Gone
  <2>5. Gone(f.arg)' => Gone(f.arg)  BY <2>3 DEF Gone
  <2> QED  BY <1>2, <2>3, <2>4, <2>5 DEF PanicsIn, Subject
<1> QED  BY <1>1, <1>2

LEMMA ExcusedKept ==
  ASSUME Calm, UNCHANGED <<poisoned, history>>
  PROVE  Excused'
  BY DEF Calm, Excused, history

LEMMA HarmlessStep ==
  ASSUME LockInv, Apart, Calm, NEW t \in Threads, stack[t] # << >>, Excused',
         NEW R \in SUBSET Records, OnlyAt(R), Alone(t, R),
         Return(t) \/ \E f \in AnyFrame : /\ Goto(t, f) /\ ~ PanicsIn(f)'
                                        /\ Alone(t, Uses(f))
  PROVE  Apart' /\ Calm'
<1> DEFINE n == Depth(t)
<1>1. n = Depth(t) /\ n \in 1 .. n  BY Framed DEF LockInv
<1>2. ASSUME NEW u \in Threads, NEW d \in 1 .. Depth(u), ~ (u = t /\ d = n)
      PROVE  ~ PanicsIn(Frame(u, d))' \/ Frame(u, d)' # Frame(u, d)
  <2>1. PICK g \in AnyFrame : g = Frame(u, d) /\ Sound(g) /\ ~ PanicsIn(g)
    BY Framed DEF LockInv, Calls, Calm
  <2>2. Uses(g) \subseteq Records
    <3>1. g.obj = It => Uses(g) \subseteq Records  BY <2>1, UsesAre, CurIs DEF LockInv
    <3>2. g.obj # It => Uses(g) \subseteq Records
      BY <2>1, UsesAre, ObjectsAre DEF Mine, AnyFrame
    <3> QED  BY <3>1, <3>2
  <2>3. \A q \in Uses(g) : q \in Records \ R  BY <1>2, <2>1, <2>2 DEF Alone
  <2>4. ~ PanicsIn(g)'  BY <2>1, <2>3, CalmStays DEF OnlyAt
  <2>5. CASE Frame(u, d)' = Frame(u, d)
    BY <2>1, <2>4, <2>5 DEF PanicsIn, Subject
  <2> QED  BY <2>5
<1> HIDE DEF n
<1>3. CASE Return(t)
  <2>1. \A u \in Threads :
          \A d \in 1 .. Depth(u)' : /\ Frame(u, d)' = Frame(u, d)
                                  /\ d \in 1 .. Depth(u)
                                  /\ ~ (u = t /\ d = n)
    <3>1. \A u \in Threads : Depth(u) \in Nat  BY Framed DEF LockInv
    <3> QED  BY <1>1, <1>3, <3>1, OnReturn DEF LockInv
  <2>2. Apart'
    <3>1. ASSUME NEW u \in Threads, NEW d \in 1 .. Depth(u)'
          PROVE  Uses(Frame(u, d))' = Uses(Frame(u, d))
      <4>1. Frame(u, d)' = Frame(u, d)  BY <2>1
      <4> QED  BY <4>1 DEF Uses, Wants, Of
    <3> QED  BY <2>1, <3>1 DEF Apart
  <2>3. Calm'  BY <1>2, <2>1 DEF Calm
  <2> QED  BY <2>2, <2>3
<1>4. ASSUME NEW f \in AnyFrame, Goto(t, f), ~ PanicsIn(f)', Alone(t, Uses(f))
      PROVE  Apart' /\ Calm'
  <2>1. \A u \in Threads :
          /\ Depth(u)' = Depth(u)
          /\ \A d \in 1 .. Depth(u) : Frame(u, d)' = IF u = t /\ d = n THEN f ELSE Frame(u, d)
    BY <1>1, <1>4, OnGoto DEF LockInv
  <2>2. \A u \in Threads : \A d \in 1 .. Depth(u) :
          Uses(Frame(u, d))' = IF u = t /\ d = n THEN Uses(f) ELSE Uses(Frame(u, d))
    <3> SUFFICES ASSUME NEW u \in Threads, NEW d \in 1 .. Depth(u)
                 PROVE  Uses(Frame(u, d))' = IF u = t /\ d = n THEN Uses(f) ELSE Uses(Frame(u, d))
      OBVIOUS
    <3>1. CASE u = t /\ d = n
      <4>1. Frame(u, d)' = f  BY <2>1, <3>1
      <4> QED  BY <3>1, <4>1 DEF Uses, Wants, Of
    <3>2. CASE ~ (u = t /\ d = n)
      <4>1. Frame(u, d)' = Frame(u, d)  BY <2>1, <3>2
      <4> QED  BY <3>2, <4>1 DEF Uses, Wants, Of
    <3> QED  BY <3>1, <3>2
  <2>3. Apart'
    <3> SUFFICES ASSUME NEW u \in Threads, NEW d \in 1 .. Depth(u),
                        NEW v \in Threads, NEW e \in 1 .. Depth(v),
                        Uses(Frame(u, d))' \cap Uses(Frame(v, e))' # {}
                 PROVE  u = v /\ d = e
      BY <2>1 DEF Apart
    <3>1. CASE u = t /\ d = n  BY <1>1, <1>4, <2>2, <3>1 DEF Alone
    <3>2. CASE v = t /\ e = n  BY <1>1, <1>4, <2>2, <3>2 DEF Alone
    <3>3. CASE ~ (u = t /\ d = n) /\ ~ (v = t /\ e = n)  BY <2>2, <3>3 DEF Apart
    <3> QED  BY <3>1, <3>2, <3>3
  <2>4. Calm'
    <3> SUFFICES ASSUME NEW u \in Threads, NEW d \in 1 .. Depth(u)
                 PROVE  ~ PanicsIn(Frame(u, d))'
      BY <2>1 DEF Calm
    <3>1. CASE u = t /\ d = n
      <4>1. Frame(u, d)' = f  BY <2>1, <3>1
      <4> QED  BY <1>4, <4>1 DEF PanicsIn, Subject
    <3>2. CASE ~ (u = t /\ d = n)  BY <1>2, <2>1, <3>2
    <3> QED  BY <3>1, <3>2
  <2> QED  BY <2>3, <2>4
<1> QED  BY <1>3, <1>4

LEMMA TopAlone ==
  ASSUME LockInv, Apart, Calm, NEW t \in Threads, stack[t] # << >>
  PROVE  /\ Alone(t, Uses(Top(t)))
         /\ ~ PanicsIn(Top(t))
         /\ Top(t).at \in {"in", "python"} => Subject(Top(t)) \in Uses(Top(t))
<1>1. /\ Top(t) = Frame(t, Depth(t)) /\ Depth(t) \in 1 .. Depth(t)
      /\ Sound(Top(t)) /\ Top(t) \in AnyFrame
      /\ Top(t).obj = It => Subject(Top(t)) = Cur
  BY OnTop
<1>2. Alone(t, Uses(Top(t)))  BY <1>1 DEF Alone, Apart
<1>3. ~ PanicsIn(Top(t))  BY <1>1 DEF Calm
<1>4. Top(t).at \in {"in", "python"} => Subject(Top(t)) \in Uses(Top(t))
  <2>1. Top(t).obj # None  BY <1>1, ObjectsAre DEF AnyFrame
  <2> QED  BY <1>1, <2>1, UsesAre DEF Mine, Subject
<1> QED  BY <1>2, <1>3, <1>4

(* Nobody has the record that next() will make.                            *)
LEMMA NobodyAhead ==
  ASSUME LockInv, NEW t \in Threads, stack[t] # << >>, Top(t).obj = It
  PROVE  Alone(t, {Cur + 1})
<1> SUFFICES ASSUME NEW u \in Threads, NEW d \in 1 .. Depth(u), ~ (u = t /\ d = Depth(t))
             PROVE  Cur + 1 \notin Uses(Frame(u, d))
  BY DEF Alone
<1>1. Top(t) = Frame(t, Depth(t)) /\ Depth(t) \in 1 .. Depth(t)  BY OnTop
<1>2. PICK g \in AnyFrame : g = Frame(u, d) /\ Sound(g) /\ g.obj # It
  BY <1>1, Framed DEF LockInv, Calls, OneIterator
<1>3. \A r \in Mine(g) : r <= Cur  BY <1>2 DEF Sound, CallOfOther
<1>4. Cur \in Nat  BY CurIs DEF LockInv
<1> QED  BY <1>2, <1>3, <1>4, UsesAre

(* What next() goes on with is as sound as any call of it.                 *)
LEMMA BegunCalm ==
  ASSUME LockInv, NEW f \in AnyFrame, f.obj = It, f.arg = None,
         NEW m \in {Advance, Check, Judge}
  PROVE  /\ Begin(f, m, "lock") \in AnyFrame
         /\ Uses(Begin(f, m, "lock")) = {Cur}
         /\ \A g \in AnyFrame : g.obj = It /\ g.arg = None /\ g.m = m => ~ PanicsIn(g)'
<1>1. PICK g \in AnyFrame :
        /\ g = Begin(f, m, "lock")
        /\ g.obj = It /\ g.at = "lock" /\ g.want = <<Cur>> /\ g.held = {}
  BY Begun, CurIs DEF LockInv
<1>2. Wants(g) = {Cur}
  <2>1. DOMAIN g.want = {1} /\ g.want[1] = Cur  BY <1>1
  <2> QED  BY <2>1 DEF Wants
<1>3. Uses(g) = {Cur}  BY <1>1, <1>2 DEF Uses
<1>4. m.does # "pickle"  BY NextsMethods
<1> QED  BY <1>1, <1>3, <1>4 DEF PanicsIn, Gone, It

LEMMA BeginHarmless ==
  ASSUME LockInv, Apart, Calm, NEW t \in Threads, stack[t] # << >>, Excused',
         Top(t).obj = It, NEW m \in {Advance, Check, Judge},
         Goto(t, Begin(Top(t), m, "lock")),
         NEW R \in SUBSET Records, OnlyAt(R), Alone(t, R), Alone(t, {Cur})
  PROVE  Apart' /\ Calm'
<1>1. Top(t) \in AnyFrame /\ Top(t).arg = None  BY OnTop DEF Sound, CallOfNext
<1>2. PICK f \in AnyFrame :
        /\ f = Begin(Top(t), m, "lock") /\ Uses(f) = {Cur}
        /\ f.obj = It /\ f.arg = None /\ f.m = m
  BY <1>1, BegunCalm, Begun, CurIs DEF LockInv
<1>3. ~ PanicsIn(f)'  BY <1>1, <1>2, BegunCalm
<1>4. Goto(t, f) /\ Alone(t, Uses(f))  BY <1>2
<1> QED  BY <1>3, <1>4, HarmlessStep

(* A call that stays with its object and its record.                       *)
LEMMA StaysHarmless ==
  ASSUME LockInv, Apart, Calm, NEW t \in Threads, stack[t] # << >>, Excused',
         UNCHANGED data, NEW f \in AnyFrame, Goto(t, f),
         f.obj = Top(t).obj, f.arg = Top(t).arg, f.m = Top(t).m,
         f.held \cup Wants(f) \subseteq Top(t).held \cup Wants(Top(t)),
         Top(t).obj = It => Top(t).at # "free"
  PROVE  Apart' /\ Calm'
<1>1. OnlyAt({})  BY DataKept
<1>2. Uses(f) \subseteq Uses(Top(t))  BY DEF Uses
<1>3. Alone(t, Uses(f)) /\ Alone(t, {})  BY <1>2, TopAlone DEF Alone
<1>4. ~ PanicsIn(f)'
  <2>1. ~ PanicsIn(Top(t))  BY TopAlone
  <2>2. ~ PanicsIn(f)  BY <2>1 DEF PanicsIn, Subject
  <2>3. http' = http /\ reader' = reader /\ Cur' = Cur  BY DataKept DEF data
  <2> QED  BY <2>2, <2>3 DEF PanicsIn, Subject, Gone
<1> QED  BY <1>1, <1>3, <1>4, HarmlessStep

LEMMA LockHarmless ==
  ASSUME LockInv, Apart, Calm, NEW t \in Threads, Lock(t)
  PROVE  Apart' /\ Calm'
<1> DEFINE f == Top(t)
           r == Head(f.want)
           g == [f EXCEPT !.want = Tail(@), !.held = @ \cup {r},
                          !.at = IF Tail(f.want) = << >> THEN "in" ELSE "lock"]
<1>1. stack[t] # << >> /\ f.at = "lock"  BY DEF Lock, IsAt
<1>2. f \in AnyFrame /\ Sound(f)  BY <1>1, OnTop
<1>4. ~ OtherRefused(f)
  <2> SUFFICES ASSUME f.arg # None, Borrowed(f.arg, "mut")
               PROVE  FALSE
    BY DEF OtherRefused
  <2>1. f.obj # It /\ f.m.borrows = "shared" /\ f.arg # It
    BY <1>2 DEF Sound, CallOfNext, CallOfOther
  <2>2. PICK u \in Threads : \E d \in 1 .. Depth(u) :
          Frame(u, d).obj = f.arg /\ Frame(u, d).m.borrows = "mut"
    <3>1. PICK h \in AllFrames : h.obj = f.arg /\ h.m.borrows = "mut"
      BY DEF Borrowed
    <3>2. \E u \in Threads : \E d \in 1 .. Depth(u) : h = Frame(u, d)
      BY <3>1, CallFinds DEF LockInv
    <3> QED  BY <3>1, <3>2
  <2>8. PICK d \in 1 .. Depth(u) : Frame(u, d).obj = f.arg /\ Frame(u, d).m.borrows = "mut"
    BY <2>2
  <2>3. PICK h \in AnyFrame : h = Frame(u, d) /\ Sound(h)
    BY Framed DEF LockInv, Calls
  <2>4. Of(f.arg) \in Uses(h)
    BY <2>1, <2>8, <2>3, ObjectsAre, UsesAre DEF Mine, AnyFrame
  <2>5. Of(f.arg) \in Uses(f)  BY <1>2, <2>1, UsesAre DEF Mine
  <2>6. u = t /\ d = Depth(t)
    BY <1>1, <2>3, <2>4, <2>5, TopAlone DEF Alone
  <2>7. h = f  BY <1>1, <2>3, <2>6, OnTop
  <2> QED  BY <2>1, <2>8, <2>3, <2>7
<1>5. CASE Panic(t) /\ r \in poisoned
  <2>1. UNCHANGED <<data, overrun>> /\ Return(t)  BY <1>5 DEF Panic, history
  <2>2. Alone(t, {}) /\ OnlyAt({})  BY <2>1, DataKept DEF Alone
  <2>3. Excused'  BY <1>5, <2>1 DEF Calm, Excused
  <2> QED  BY <1>1, <2>1, <2>2, <2>3, HarmlessStep
<1>3. SUFFICES ASSUME Goto(t, g), UNCHANGED <<poisoned, data, history>>
               PROVE  Apart' /\ Calm'
  BY <1>4, <1>5 DEF Lock
<1>6. f.want # << >> /\ f.want \in Seq(Records) /\ f.held \in SUBSET Records
  BY <1>1, <1>2 DEF Sound, CallOfNext, CallOfOther, AnyFrame
<1>7. PICK h \in AnyFrame :
        /\ h = g /\ h.obj = f.obj /\ h.arg = f.arg /\ h.m = f.m
        /\ h.want = Tail(f.want) /\ h.held = f.held \cup {r}
  <2>1. r \in Records /\ Tail(f.want) \in Seq(Records)  BY <1>6
  <2>2. g \in AnyFrame
    <3> HIDE DEF f, r
    <3> QED  BY <1>2, <1>6, <2>1 DEF AnyFrame
  <2>3. /\ g.obj = f.obj /\ g.arg = f.arg /\ g.m = f.m
        /\ g.want = Tail(f.want) /\ g.held = f.held \cup {r}
    <3> HIDE DEF f, r
    <3> QED  BY <1>2 DEF AnyFrame
  <2> QED  BY <2>2, <2>3
<1>8. h.held \cup Wants(h) \subseteq f.held \cup Wants(f)
  <2> DEFINE w == f.want
  <2>1. w # << >> /\ w \in Seq(Records)  BY <1>6
  <2> HIDE DEF w
  <2>2. \A i \in DOMAIN Tail(w) : i + 1 \in DOMAIN w /\ w[i + 1] = Tail(w)[i]  BY <2>1
  <2>3. 1 \in DOMAIN w /\ w[1] = Head(w)  BY <2>1
  <2>4. {Tail(w)[i] : i \in DOMAIN Tail(w)} \subseteq {w[i] : i \in DOMAIN w}
    <3>1. ASSUME NEW i \in DOMAIN Tail(w)
          PROVE  Tail(w)[i] \in {w[j] : j \in DOMAIN w}
      BY <2>2
    <3> QED  BY <3>1
  <2>5. Head(w) \in {w[i] : i \in DOMAIN w}  BY <2>3
  <2> QED  BY <1>7, <2>4, <2>5 DEF w, Wants
<1> HIDE DEF f, g, r
<1>9. Goto(t, h) /\ Excused' /\ UNCHANGED data  BY <1>3, <1>7, ExcusedKept
<1> QED  BY <1>1, <1>7, <1>8, <1>9, StaysHarmless DEF f

LEMMA FinishHarmless ==
  ASSUME LockInv, Apart, Calm, NEW t \in Threads, Finish(t)
  PROVE  Apart' /\ Calm'
<1>1. stack[t] # << >> /\ Top(t).at \in {"in", "python"} /\ Top(t).obj # It
  BY DEF Finish, Ready, IsAt
<1>2. PICK f \in AnyFrame : f = Top(t) /\ Sound(f)  BY <1>1, OnTop
<1>3. /\ OnlyAt({Subject(f)})
      /\ \A q \in Records : http[q] => http'[q]
  BY <1>2, WorkedIs DEF Finish, LockInv
<1>4. /\ Alone(t, Uses(f)) /\ Alone(t, {Subject(f)})
      /\ {Subject(f)} \in SUBSET Records
  BY <1>1, <1>2, TopAlone, SubjectIs DEF Alone, LockInv
<1>5. Excused'  BY ExcusedKept DEF Finish
<1>6. ~ Gone(f.obj) /\ ~ Gone(f.arg)  BY <1>1, <1>2, TopAlone DEF PanicsIn
<1>7. ASSUME NEW g \in AnyFrame, Goto(t, g), g.obj = f.obj, g.arg = f.arg,
             g.m.does = "write"
      PROVE  Apart' /\ Calm'
  <2>1. Uses(g) = Uses(f)  BY <1>1, <1>2, <1>7 DEF Uses
  <2>2. ~ PanicsIn(g)'
    <3>1. \A o \in Objects : Of(o) \in Records  BY ObjectsAre
    <3>2. ~ Gone(g.obj)'  BY <1>3, <1>6, <1>7, <3>1 DEF Gone, AnyFrame
    <3>3. ~ Gone(g.arg)'  BY <1>3, <1>6, <1>7, <3>1 DEF Gone, AnyFrame
    <3> QED  BY <1>7, <3>2, <3>3 DEF PanicsIn
  <2> QED  BY <1>1, <1>3, <1>4, <1>5, <1>7, <2>1, <2>2, HarmlessStep
<1>8. CASE f.m.does = "digest"
  <2> DEFINE g == [f EXCEPT !.m = Write, !.at = "free", !.want = <<Of(f.obj)>>, !.held = {}]
  <2>1. Goto(t, g)  BY <1>2, <1>8 DEF Finish
  <2>2. Of(f.obj) \in Records  BY ObjectsAre DEF AnyFrame
  <2>3. <<Of(f.obj)>> \in Seq(Records) /\ {} \in SUBSET Records  BY <2>2
  <2>4. Write \in AnyMethod /\ Write.does = "write"
    BY DEF Write, Method, AnyMethod, Doings
  <2>5. g \in AnyFrame /\ g.obj = f.obj /\ g.arg = f.arg /\ g.m = Write
    BY <2>3, <2>4 DEF AnyFrame
  <2> HIDE DEF g
  <2> QED  BY <1>7, <2>1, <2>4, <2>5
<1>9. CASE f.m.does = "write"
  <2> DEFINE g == [f EXCEPT !.at = "free", !.held = {}]
  <2>1. Goto(t, g)  BY <1>2, <1>9 DEF Finish
  <2>2. g \in AnyFrame  BY DEF AnyFrame
  <2>3. g.obj = f.obj /\ g.arg = f.arg /\ g.m = f.m  BY DEF AnyFrame
  <2> HIDE DEF g
  <2> QED  BY <1>7, <1>9, <2>1, <2>2, <2>3
<1>10. CASE f.m.does \notin {"digest", "write"}
  <2>1. Return(t)  BY <1>2, <1>10 DEF Finish
  <2> QED  BY <1>1, <1>3, <1>4, <1>5, <2>1, HarmlessStep
<1> QED  BY <1>8, <1>9, <1>10

LEMMA StandsHarmless ==
  ASSUME LockInv, Apart, Calm, NEW t \in Threads, EnterPython(t) \/ Frees(t)
  PROVE  Apart' /\ Calm'
<1>1. stack[t] # << >> /\ Excused' /\ UNCHANGED data
  BY ExcusedKept DEF EnterPython, Frees, IsAt
<1>2. Top(t) \in AnyFrame  BY <1>1, OnTop
<1>3. ASSUME NEW at \in {"lock", "python"}, Goto(t, [Top(t) EXCEPT !.at = at]),
             Top(t).obj = It => Top(t).at # "free"
      PROVE  Apart' /\ Calm'
  <2>1. PICK f \in AnyFrame :
          /\ f = [Top(t) EXCEPT !.at = at]
          /\ f.obj = Top(t).obj /\ f.arg = Top(t).arg /\ f.m = Top(t).m
          /\ f.want = Top(t).want /\ f.held = Top(t).held
    <3> DEFINE f == [Top(t) EXCEPT !.at = at]
    <3>1. f \in AnyFrame  BY <1>2 DEF AnyFrame
    <3>2. /\ f.obj = Top(t).obj /\ f.arg = Top(t).arg /\ f.m = Top(t).m
          /\ f.want = Top(t).want /\ f.held = Top(t).held
      BY <1>2 DEF AnyFrame
    <3> QED  BY <3>1, <3>2
  <2>2. f.held \cup Wants(f) \subseteq Top(t).held \cup Wants(Top(t))  BY <2>1 DEF Wants
  <2> QED  BY <1>1, <1>3, <2>1, <2>2, StaysHarmless
<1>4. CASE EnterPython(t)  BY <1>3, <1>4 DEF EnterPython, IsAt
<1>5. CASE Frees(t) /\ Top(t).want # << >>  BY <1>3, <1>5 DEF Frees
<1>6. CASE Frees(t) /\ Top(t).want = << >>
  <2>1. Return(t)  BY <1>6 DEF Frees
  <2>2. Alone(t, {}) /\ OnlyAt({})  BY <1>1, DataKept DEF Alone
  <2> QED  BY <1>1, <2>1, <2>2, HarmlessStep
<1> QED  BY <1>4, <1>5, <1>6

LEMMA FailsHarmless ==
  ASSUME LockInv, Apart, Calm, NEW t \in Threads,
         \/ Raises(t) \/ FreeRaises(t) \/ PanicIn(t)
         \/ NextEnds(t) \/ NextFails(t) \/ FilterAccepts(t)
  PROVE  Apart' /\ Calm'
<1>1. stack[t] # << >>
  BY DEF Raises, FreeRaises, PanicIn, NextEnds, NextFails, FilterAccepts, Does, Ready, IsAt
<1>2. ~ PanicIn(t)
  BY <1>1, TopAlone DEF PanicIn
<1>3. Return(t) /\ Excused'
  BY <1>2, ExcusedKept DEF Raises, FreeRaises, NextEnds, NextFails, FilterAccepts, IterStep
<1>4. Top(t) \in AnyFrame  BY <1>1, OnTop
<1>5. CASE UNCHANGED data
  <2>1. Alone(t, {}) /\ OnlyAt({})  BY <1>5, DataKept DEF Alone
  <2> QED  BY <1>1, <1>3, <2>1, HarmlessStep
<1>6. CASE Raises(t)
  <2>1. OnlyAt({Subject(Top(t))}) /\ {Subject(Top(t))} \in SUBSET Records
    BY <1>4, <1>6, FailedIs, SubjectIs DEF Raises, LockInv
  <2>2. Alone(t, {Subject(Top(t))})  BY <1>1, <1>6, TopAlone DEF Raises, IsAt, Alone
  <2> QED  BY <1>1, <1>3, <2>1, <2>2, HarmlessStep
<1>7. CASE (NextEnds(t) \/ NextFails(t)) /\ Moved(Cur, FALSE)
  <2>1. OnlyAt({Cur}) /\ {Cur} \in SUBSET Records
    BY <1>7, MovedIs, CurIs DEF LockInv
  <2>2. Top(t).obj = It /\ Top(t).at \in {"in", "python"}
    BY <1>7, NextsStep DEF NextEnds, NextFails, Does, Ready, IsAt
  <2>3. Alone(t, {Cur})
    <3>1. Uses(Top(t)) = {Cur}  BY <1>1, <1>4, <2>2, OnTop, UsesAre
    <3>2. Alone(t, Uses(Top(t)))  BY <1>1, TopAlone
    <3> QED  BY <3>1, <3>2
  <2> QED  BY <1>1, <1>3, <2>1, <2>3, HarmlessStep
<1> QED
  BY <1>2, <1>5, <1>6, <1>7 DEF Raises, FreeRaises, NextEnds, NextFails, FilterAccepts

(* A panic that the record is not to blame for.                            *)
LEMMA UnwindsHarmless ==
  ASSUME LockInv, Apart, Calm, NEW t \in Threads, RaisesPanic(t) \/ Overruns(t)
  PROVE  Apart' /\ Calm'
<1>1. stack[t] # << >> /\ Unwinds(t) /\ Top(t).at \in {"in", "python"}
  BY DEF RaisesPanic, Overruns, IsAt
<1>2. Return(t) /\ OnlyAt({Subject(Top(t))})  BY <1>1, UnwindsTo
<1>3. Excused'  BY DEF RaisesPanic, Overruns, Calm, Excused
<1>4. Alone(t, {Subject(Top(t))}) /\ {Subject(Top(t))} \in SUBSET Records
  BY <1>1, TopAlone, OnTop, SubjectIs DEF Alone, LockInv
<1> QED  BY <1>1, <1>2, <1>3, <1>4, HarmlessStep

LEMMA NextsRecord ==
  ASSUME LockInv, Apart, Calm, NEW t \in Threads, stack[t] # << >>, Top(t).obj = It,
         Top(t).at \in {"in", "python"}
  PROVE  /\ Alone(t, {Cur}) /\ Alone(t, {Cur + 1}) /\ Alone(t, {Cur, Cur + 1})
         /\ {Cur} \in SUBSET Records
<1>1. Top(t) \in AnyFrame /\ Sound(Top(t))  BY OnTop
<1>2. Uses(Top(t)) = {Cur}  BY <1>1, UsesAre
<1>3. Alone(t, Uses(Top(t)))  BY TopAlone
<1>4. Alone(t, {Cur})  BY <1>2, <1>3
<1>5. Alone(t, {Cur + 1})  BY NobodyAhead
<1>6. Alone(t, {Cur, Cur + 1})  BY <1>4, <1>5 DEF Alone
<1> QED  BY <1>4, <1>5, <1>6, CurIs DEF LockInv

LEMMA NextMovesHarmless ==
  ASSUME LockInv, Apart, Calm, NEW t \in Threads, NextMoves(t)
  PROVE  Apart' /\ Calm'
<1>1. /\ stack[t] # << >> /\ Top(t).obj = It /\ Top(t).arg = None /\ Top(t) \in AnyFrame
      /\ Top(t).at \in {"in", "python"} /\ Excused'
  BY NextsStep, ExcusedKept DEF NextMoves, IterStep, Does, Ready, IsAt
<1>2. /\ Moved(Cur, TRUE)
      /\ shown # Archive
      /\ Goto(t, [Begin(Top(t), Check, "lock") EXCEPT !.want = <<IF inplace THEN 1 ELSE Cur + 1>>])
  BY DEF NextMoves, Ends
<1>3. Cur \in 1 .. Archive + 1 /\ Cur \in Records /\ Archive \in Nat /\ (inplace => Cur = 1)
  BY CurIs DEF LockInv, Cur
<1>4. ~ inplace => Cur + 1 \in Records
  <2>1. ~ inplace => Cur = shown + 1 /\ shown \in 0 .. Archive  BY DEF Cur, LockInv, Typed
  <2> QED  BY <1>2, <1>3, <2>1 DEF Records
<1>5. OnlyAt({Cur, Cur + 1})  BY <1>2, MovedIs DEF LockInv
<1>6. Alone(t, {Cur, Cur + 1})  BY <1>1, NextsRecord
<1>7. PICK R \in SUBSET Records : OnlyAt(R) /\ Alone(t, R)
  <2> DEFINE R == {Cur, Cur + 1} \cap Records
  <2>1. OnlyAt(R)  BY <1>5 DEF OnlyAt
  <2>2. Alone(t, R)  BY <1>6 DEF Alone
  <2> QED  BY <2>1, <2>2
<1>8. PICK f \in AnyFrame :
        /\ Goto(t, f) /\ f.obj = It /\ f.arg = None /\ f.m = Check /\ f.held = {}
        /\ f.want = <<IF inplace THEN 1 ELSE Cur + 1>> /\ f.at = "lock"
  <2> DEFINE w == <<IF inplace THEN 1 ELSE Cur + 1>>
             g == [Begin(Top(t), Check, "lock") EXCEPT !.want = w]
  <2>1. w \in Seq(Records)  BY <1>3, <1>4
  <2>2. g = [Begin(Top(t), Check, "lock") EXCEPT !.want = w]  OBVIOUS
  <2> HIDE DEF w, g
  <2>3. /\ g \in AnyFrame /\ g.obj = It /\ g.arg = None /\ g.m = Check
        /\ g.at = "lock" /\ g.want = w /\ g.held = {}
    BY <1>1, <1>3, <2>1, <2>2, NextsMethods DEF Begin, AnyFrame
  <2> QED  BY <1>2, <2>2, <2>3 DEF w
<1>9. Uses(f) \subseteq {Cur, Cur + 1}
  <2>1. Wants(f) = {IF inplace THEN 1 ELSE Cur + 1}
    <3>1. DOMAIN f.want = {1} /\ f.want[1] = IF inplace THEN 1 ELSE Cur + 1  BY <1>8
    <3> QED  BY <3>1 DEF Wants
  <2> QED  BY <1>3, <1>8, <2>1 DEF Uses
<1>10. Alone(t, Uses(f))  BY <1>6, <1>9 DEF Alone
<1>11. ~ PanicsIn(f)'  BY <1>1, <1>8, BegunCalm
<1> QED  BY <1>1, <1>7, <1>8, <1>10, <1>11, HarmlessStep

LEMMA CheckHarmless ==
  ASSUME LockInv, Apart, Calm, NEW t \in Threads, CheckEnds(t) \/ CheckFails(t) \/ JudgeEnds(t)
  PROVE  Apart' /\ Calm'
<1>1. /\ stack[t] # << >> /\ Top(t).obj = It /\ Top(t).arg = None /\ Top(t) \in AnyFrame
      /\ Top(t).at \in {"in", "python"} /\ Excused' /\ Subject(Top(t)) = Cur
  BY NextsStep, ExcusedKept DEF CheckEnds, CheckFails, JudgeEnds, IterStep, Does, Ready, IsAt
<1>2. OnlyAt({Cur})
  BY <1>1, WorkedIs, FailedIs DEF CheckEnds, CheckFails, JudgeEnds, LockInv
<1>3. Alone(t, {Cur}) /\ {Cur} \in SUBSET Records  BY <1>1, NextsRecord
<1>4. CASE Return(t)  BY <1>1, <1>2, <1>3, <1>4, HarmlessStep
<1>5. CASE Goto(t, Begin(Top(t), Judge, "lock"))
  BY <1>1, <1>2, <1>3, <1>5, BeginHarmless
<1>6. CASE Goto(t, Begin(Top(t), Advance, "lock"))
  BY <1>1, <1>2, <1>3, <1>6, BeginHarmless
<1>7. CASE Goto(t, [Begin(Top(t), Judge, "free") EXCEPT !.want = << >>])
  <2>1. PICK f \in AnyFrame :
          /\ Goto(t, f)
          /\ f.obj = It /\ f.arg = None /\ f.m = Judge /\ f.at = "free"
    <3> DEFINE g == [Begin(Top(t), Judge, "free") EXCEPT !.want = << >>]
    <3>1. g = [Begin(Top(t), Judge, "free") EXCEPT !.want = << >>]  OBVIOUS
    <3> HIDE DEF g
    <3>2. << >> \in Seq(Records) /\ Cur \in Records  BY <1>3
    <3>3. g \in AnyFrame /\ g.obj = It /\ g.arg = None /\ g.m = Judge /\ g.at = "free"
      BY <1>1, <3>1, <3>2, NextsMethods DEF Begin, AnyFrame
    <3> QED  BY <1>7, <3>1, <3>3
  <2>2. Alone(t, Uses(f))  BY <2>1 DEF Uses, Alone
  <2>3. ~ PanicsIn(f)'  BY <1>1, <2>1, BegunCalm
  <2> QED  BY <1>1, <1>2, <1>3, <2>1, <2>2, <2>3, HarmlessStep
<1> QED  BY <1>4, <1>5, <1>6, <1>7 DEF CheckEnds, CheckFails, JudgeEnds

LEMMA FilterHarmless ==
  ASSUME LockInv, Apart, Calm, NEW t \in Threads, FilterRejects(t), ~ misused'
  PROVE  Apart' /\ Calm'
<1>1. /\ stack[t] # << >> /\ Top(t).obj = It /\ Excused' /\ UNCHANGED data
      /\ Goto(t, Begin(Top(t), Advance, "lock"))
  BY DEF FilterRejects, IsAt, Calm, Excused
<1>2. OnlyAt({}) /\ Alone(t, {})  BY <1>1, DataKept DEF Alone
<1>3. ~ InUse(Cur)  BY DEF FilterRejects
<1>4. Alone(t, {Cur})  BY <1>3, CallFinds DEF Alone, InUse, LockInv
<1> QED  BY <1>1, <1>2, <1>4, BeginHarmless

LEMMA CallHarmless ==
  ASSUME LockInv, Apart, Calm, NEW t \in Threads, NEW o \in Reached, NEW m \in Methods[o[1]],
         NEW a \in Reached \cup {None}, Call(t, o, a, m), ~ misused'
  PROVE  Apart' /\ Calm'
<1> DEFINE at == IF m.does \in {"date", "digest", "write"} THEN "free" ELSE "lock"
           n == Depth(t) + 1
<1>1. PICK f : /\ f = [obj |-> o, arg |-> a, m |-> m, at |-> at, want |-> Needs(o, a, m), held |-> {}]
              /\ stack' = [stack EXCEPT ![t] = <<f>> \o @]
  BY DEF Call
<1>2. f \in AnyFrame /\ Sound(f) /\ (o # It => Wants(f) = Mine(f))
  BY <1>1, CallIs DEF Call
<1>3. f.held = {} /\ f.obj = o /\ f.arg = a /\ f.m = m /\ f.want = Needs(o, a, m)  BY <1>1
<1>4. \A u \in Threads :
        /\ Depth(u) \in Nat
        /\ Depth(u)' = IF u = t THEN n ELSE Depth(u)
        /\ \A d \in 1 .. Depth(u)' :
             IF u = t /\ d = n THEN Frame(u, d)' = f
             ELSE Frame(u, d)' = Frame(u, d) /\ d \in 1 .. Depth(u)
  <2>1. \A u \in Threads :
          /\ Depth(u)' = IF u = t THEN Depth(u) + 1 ELSE Depth(u)
          /\ \A d \in 1 .. Depth(u) : Frame(u, d)' = Frame(u, d)
    BY <1>1, <1>2, OnCall DEF LockInv
  <2>2. \A d : d = n => Frame(t, d)' = f  BY <1>1, <1>2, OnCall DEF LockInv
  <2> QED  BY <2>1, <2>2, Framed DEF LockInv
<1> HIDE DEF n, at
<1>5. ~ Misuses(o, a, m) /\ UNCHANGED <<poisoned, data>> /\ Excused'
  BY DEF Call, Calm, Excused
<1>6. \A u \in Threads : \A d \in 1 .. Depth(u) : Uses(Frame(u, d)) \cap Uses(f) = {}
  <2>1. Uses(f) \subseteq Wants(f)
    BY <1>2, <1>3, UsesAre DEF Uses
  <2>2. \A i \in DOMAIN f.want : ~ InUse(f.want[i])  BY <1>3, <1>5 DEF Misuses
  <2>3. \A r \in Uses(f) : ~ InUse(r)  BY <2>1, <2>2 DEF Wants
  <2> QED  BY <2>3, CallFinds DEF InUse, LockInv
<1>7. ~ PanicsIn(f)'
  <2>1. CASE o = It  BY <1>2, <1>3, <2>1, UsesAre
  <2>2. CASE o # It
    <3>1. Subject(f) = Of(o)  BY <1>3, <2>2 DEF Subject
    <3>2. ~ PanicsIn(f)  BY <1>3, <1>5, <3>1 DEF Misuses, PanicsIn
    <3> QED  BY <1>3, <1>5, <2>2, <3>2 DEF PanicsIn, Subject, Gone, data
  <2> QED  BY <2>1, <2>2
<1>8. \A u \in Threads : \A d \in 1 .. Depth(u)' :
        Uses(Frame(u, d))' = IF u = t /\ d = n THEN Uses(f) ELSE Uses(Frame(u, d))
  <2> SUFFICES ASSUME NEW u \in Threads, NEW d \in 1 .. Depth(u)'
               PROVE  Uses(Frame(u, d))' = IF u = t /\ d = n THEN Uses(f) ELSE Uses(Frame(u, d))
    OBVIOUS
  <2>1. CASE u = t /\ d = n
    <3>1. Frame(u, d)' = f  BY <1>4, <2>1
    <3> QED  BY <2>1, <3>1 DEF Uses, Wants, Of
  <2>2. CASE ~ (u = t /\ d = n)
    <3>1. Frame(u, d)' = Frame(u, d)  BY <1>4, <2>2
    <3> QED  BY <2>2, <3>1 DEF Uses, Wants, Of
  <2> QED  BY <2>1, <2>2
<1>9. Apart'  BY <1>4, <1>6, <1>8 DEF Apart
<1>10. Calm'
  <2> SUFFICES ASSUME NEW u \in Threads, NEW d \in 1 .. Depth(u)'
               PROVE  ~ PanicsIn(Frame(u, d))'
    BY <1>5 DEF Calm
  <2>1. CASE u = t /\ d = n
    <3>1. Frame(u, d)' = f  BY <1>4, <2>1
    <3> QED  BY <1>7, <3>1 DEF PanicsIn, Subject
  <2>2. CASE ~ (u = t /\ d = n)
    <3>1. Frame(u, d)' = Frame(u, d) /\ d \in 1 .. Depth(u)  BY <1>4, <2>2
    <3>2. PICK g \in AnyFrame : g = Frame(u, d) /\ Sound(g) /\ ~ PanicsIn(g)
      BY <3>1, Framed DEF LockInv, Calls, Calm
    <3>3. ~ PanicsIn(g)'  BY <1>5, <3>2, CalmStays DEF data
    <3> QED  BY <3>1, <3>2, <3>3 DEF PanicsIn, Subject
  <2> QED  BY <2>1, <2>2
<1> QED  BY <1>9, <1>10

LEMMA HarmlessKept ==
  ASSUME LockInv, Harmless, NEW t \in Threads, Step(t) \/ Other(t)
  PROVE  Harmless'
<1> SUFFICES ASSUME ~ misused' PROVE Apart' /\ Calm'
  BY DEF Harmless
<1>1. ~ misused
  BY DEF Step, Other, Lock, PanicIn, Panic, EnterPython, Finish, Frees, NextEnds, NextMoves,
         CheckEnds, JudgeEnds, FilterAccepts, Call, Raises, RaisesPanic, Overruns, Unwinds,
         FreeRaises, NextFails, CheckFails, FilterRejects, IterStep, history
<1>2. Apart /\ Calm  BY <1>1 DEF Harmless
<1>3. CASE Step(t)
  BY <1>2, <1>3, LockHarmless, FailsHarmless, StandsHarmless, FinishHarmless,
     NextMovesHarmless, CheckHarmless
  DEF Step
<1>4. CASE Other(t)
  BY <1>2, <1>4, FailsHarmless, UnwindsHarmless, CheckHarmless, FilterHarmless, CallHarmless
  DEF Other
<1> QED  BY <1>3, <1>4

-----------------------------------------------------------------------------
(***************************************************************************)
(* The invariant.                                                          *)
(***************************************************************************)
THEOREM RecordInvariant == Spec => []RecordInv
<1>1. Init => RecordInv
  <2> SUFFICES ASSUME Init PROVE RecordInv  OBVIOUS
  <2>1. LockInv  BY LockInvInit
  <2>2. \A t \in Threads : stack[t] = << >> /\ Depth(t) = 0  BY DEF Init, Depth
  <2>3. GilKept  BY <2>2 DEF GilKept, InPython
  <2>4. Apart /\ Calm  BY <2>2 DEF Init, Apart, Calm, Excused
  <2> QED  BY <2>1, <2>3, <2>4 DEF RecordInv, Harmless
<1>2. RecordInv /\ [Next]_vars => RecordInv'
  <2> SUFFICES ASSUME RecordInv, [Next]_vars PROVE RecordInv'  OBVIOUS
  <2>1. CASE Next
    <3>1. PICK t \in Threads : MayRun(t) /\ (Step(t) \/ Other(t)) /\ Keeps(t)
      BY <2>1 DEF Next
    <3>2. gil' \in Threads \cup {None}  BY <3>1 DEF Keeps
    <3>3. LockInv'  BY <3>1, <3>2, LockInvStep DEF RecordInv
    <3>4. GilKept'  BY <3>1, GilKeptStep DEF RecordInv, LockInv
    <3>5. Harmless'  BY <3>1, HarmlessKept DEF RecordInv
    <3> QED  BY <3>3, <3>4, <3>5 DEF RecordInv
  <2>2. CASE UNCHANGED vars
    <3>1. UNCHANGED <<gil, stack, lock, poisoned, inplace, reader, http, shown, objs,
                     misused, overrun>>
      BY <2>2 DEF vars, data, history
    <3>2. LockInv'
      <4>1. Typed'  BY <3>1 DEF RecordInv, LockInv, Typed, HistoryTyped
      <4>2. OneIterator' /\ Exclusive'
        BY <3>1 DEF RecordInv, LockInv, OneIterator, Exclusive, Frame, Depth
      <4>3. Known'  BY <3>1 DEF RecordInv, LockInv, Known, Cur
      <4>4. Calls'
        <5>1. \A u \in Threads :
                /\ Depth(u)' = Depth(u)
                /\ \A d \in 1 .. Depth(u) : Frame(u, d)' = Frame(u, d)
          BY <3>1 DEF Frame, Depth
        <5>2. ASSUME NEW u \in Threads, NEW d \in 1 .. Depth(u)
              PROVE  Sound(Frame(u, d))'
          <6>1. PICK g \in AnyFrame : g = Frame(u, d) /\ Sound(g)
            BY Framed DEF RecordInv, LockInv, Calls
          <6>2. Cur' = Cur /\ Cur \in Nat
            BY <3>1, CurIs DEF Cur, RecordInv, LockInv
          <6>3. Sound(g)'  BY <6>1, <6>2, SoundStays
          <6>4. Frame(u, d)' = g  BY <5>1, <6>1
          <6> QED  BY <6>3, <6>4 DEF Sound, CallOfNext, CallOfOther
        <5> QED  BY <5>1, <5>2 DEF Calls
      <4> QED  BY <4>1, <4>2, <4>3, <4>4 DEF LockInv
    <3>3. GilKept'  BY <3>1 DEF RecordInv, GilKept, InPython, Top
    <3>4. Harmless'
      <4>1. Excused => Excused'
        BY <3>1 DEF Excused
      <4>3. Apart => Apart'
        <5>1. \A u \in Threads :
                /\ Depth(u)' = Depth(u)
                /\ \A d \in 1 .. Depth(u) : Frame(u, d)' = Frame(u, d)
          BY <3>1 DEF Frame, Depth
        <5>2. ASSUME NEW u \in Threads, NEW d \in 1 .. Depth(u)
              PROVE  Uses(Frame(u, d))' = Uses(Frame(u, d))
          <6>1. Frame(u, d)' = Frame(u, d)  BY <5>1
          <6> QED  BY <6>1 DEF Uses, Wants, Of
        <5> QED  BY <5>1, <5>2 DEF Apart
      <4>2. (\A t \in Threads : \A d \in 1 .. Depth(t) : ~ PanicsIn(Frame(t, d)))
              => \A t \in Threads : \A d \in 1 .. Depth(t)' : ~ PanicsIn(Frame(t, d))'
        BY <3>1 DEF Frame, Depth, PanicsIn, Gone, Subject, Cur
      <4> QED  BY <3>1, <4>1, <4>2, <4>3 DEF RecordInv, Harmless, Calm
    <3> QED  BY <3>2, <3>3, <3>4 DEF RecordInv
  <2> QED  BY <2>1, <2>2
<1> QED  BY <1>1, <1>2, PTL DEF Spec

(* An exception poisons no mutex: a panic under one needs calls that       *)
(* collide or that ask for what is not there, or a stream or a size that   *)
(* overruns the code.                                                      *)
THEOREM ErrorsPoisonNothing == Spec => []ErrorsDoNotPoison
<1>1. RecordInv => ErrorsDoNotPoison
  BY DEF RecordInv, Harmless, Calm, Excused, ErrorsDoNotPoison
<1> QED  BY <1>1, RecordInvariant, PTL

(* While func_filter runs there is no other call of next(), on any thread. *)
THEOREM FilterIsAlone == Spec => []FilterJudgesTheCurrent
<1>1. RecordInv => FilterJudgesTheCurrent
  <2> SUFFICES ASSUME RecordInv, NEW f \in AllFrames, f.obj = It,
                      NEW t \in Threads, NEW i \in DOMAIN stack[t], stack[t][i].obj = It
               PROVE  stack[t][i] = f
    BY DEF FilterJudgesTheCurrent
  <2>1. stack[t][i] \in AllFrames  BY DEF AllFrames, Frames
  <2>2. \A g \in AllFrames :
          \E u \in Threads : \E d \in 1 .. Depth(u) : g = Frame(u, d)
    BY CallFinds DEF RecordInv, LockInv
  <2> QED  BY <2>1, <2>2 DEF RecordInv, LockInv, OneIterator
<1> QED  BY <1>1, RecordInvariant, PTL

(* While next() is between two of the locks it takes, nobody takes one.    *)
THEOREM NobodyGetsBetween == Spec => NextIsOneStep
<1> DEFINE Between ==
      \A t \in Threads : stack[t] # << >> /\ Top(t).obj = It /\ Top(t).at = "lock"
        => \A r \in Records : lock'[r] \in {lock[r], None, t}
<1>1. RecordInv /\ [Next]_vars => [Between]_vars
  <2> SUFFICES ASSUME RecordInv, Next, NEW t \in Threads, stack[t] # << >>, Top(t).at = "lock"
               PROVE  \A r \in Records : lock'[r] \in {lock[r], None, t}
    OBVIOUS
  <2>1. gil = t  BY DEF RecordInv, GilKept, InPython
  <2>2. PICK u \in Threads : MayRun(u) /\ (Step(u) \/ Other(u))  BY DEF Next
  <2>3. u = t  BY <2>1, <2>2, RecordAssumption DEF MayRun
  <2>4. lock \in [Records -> Threads \cup {None}]  BY DEF RecordInv, LockInv, Typed
  <2>5. \/ lock' = lock
        \/ \E r \in Records : lock' = [lock EXCEPT ![r] = t]
        \/ \E f : Release(f)
    <3>1. CASE Lock(t)
      BY <3>1, <2>4 DEF Lock, Panic
    <3> QED
      BY <2>2, <2>3, <3>1
      DEF Step, Other, PanicIn, Panic, EnterPython, Finish, Frees, NextEnds, NextMoves,
          CheckEnds, JudgeEnds, FilterAccepts, Call, Raises, RaisesPanic, Overruns, Unwinds,
          FreeRaises, NextFails, CheckFails, FilterRejects, IterStep
  <2> QED  BY <2>4, <2>5 DEF Release
<1> QED  BY <1>1, RecordInvariant, PTL DEF Spec, NextIsOneStep

-----------------------------------------------------------------------------
(***************************************************************************)
(* Nobody touches a record whose method waits for Python code.             *)
(***************************************************************************)
LEMMA FromTheFront ==
  ASSUME NEW s \in Seq(AnyFrame), NEW i \in DOMAIN s
  PROVE  \E d \in 1 .. Len(s) : Nth(s, d) = s[i] /\ Len(s) - i = d - 1
<1> DEFINE d == Len(s) + 1 - i
<1>1. d \in 1 .. Len(s) /\ Nth(s, d) = s[i] /\ Len(s) - i = d - 1  BY DEF Nth
<1> QED  BY <1>1

LEMMA Worker ==
  ASSUME LockInv, NEW t \in Threads, Step(t) \/ Other(t)
  PROVE  \/ UNCHANGED <<reader, http>>
         \/ /\ stack[t] # << >>
            /\ Top(t).at \in {"in", "python"}
            /\ \/ OnlyAt({Subject(Top(t))})
               \/ Top(t).obj = It /\ OnlyAt({Cur, Cur + 1})
            /\ Return(t) \/ \E f : Goto(t, f) /\ f.at \in {"lock", "free"}
<1>1. stack[t] # << >> => Top(t) \in AnyFrame  BY OnTop
<1>2. CASE UNCHANGED data  BY <1>2 DEF data
<1>3. CASE Finish(t)
  <2>1. stack[t] # << >> /\ Top(t).at \in {"in", "python"}
    BY <1>3 DEF Finish, Ready, IsAt
  <2>2. OnlyAt({Subject(Top(t))})  BY <1>1, <1>3, <2>1, WorkedIs DEF Finish, LockInv
  <2>3. Return(t) \/ \E f : Goto(t, f) /\ f.at \in {"lock", "free"}
    <3>1. [Top(t) EXCEPT !.m = Write, !.at = "free", !.want = <<Of(Top(t).obj)>>, !.held = {}].at = "free"
      BY <1>1, <2>1 DEF AnyFrame
    <3>2. [Top(t) EXCEPT !.at = "free", !.held = {}].at = "free"
      BY <1>1, <2>1 DEF AnyFrame
    <3> QED  BY <1>3, <3>1, <3>2 DEF Finish
  <2> QED  BY <2>1, <2>2, <2>3
<1>4. CASE Raises(t) \/ RaisesPanic(t) \/ Overruns(t)
  <2>1. stack[t] # << >> /\ Top(t).at \in {"in", "python"}
    BY <1>4 DEF Raises, RaisesPanic, Overruns, IsAt
  <2>2. CASE Raises(t)
    BY <1>1, <2>1, <2>2, FailedIs DEF Raises, LockInv
  <2>3. CASE RaisesPanic(t) \/ Overruns(t)
    <3>1. Unwinds(t)  BY <2>3 DEF RaisesPanic, Overruns
    <3> QED  BY <2>1, <3>1, UnwindsTo
  <2> QED  BY <1>4, <2>2, <2>3
<1>5. ASSUME \/ NextEnds(t) \/ NextMoves(t) \/ NextFails(t) \/ CheckEnds(t) \/ CheckFails(t)
             \/ JudgeEnds(t)
      PROVE  \/ UNCHANGED <<reader, http>>
             \/ /\ stack[t] # << >>
                /\ Top(t).at \in {"in", "python"}
                /\ \/ OnlyAt({Subject(Top(t))})
                   \/ Top(t).obj = It /\ OnlyAt({Cur, Cur + 1})
                /\ Return(t) \/ \E f : Goto(t, f) /\ f.at \in {"lock", "free"}
  <2>1. stack[t] # << >> /\ Top(t).obj = It /\ Top(t) \in AnyFrame /\ Subject(Top(t)) = Cur
    BY <1>5, NextsStep
  <2>2. Top(t).at \in {"in", "python"}
    BY <1>5 DEF NextEnds, NextMoves, NextFails, CheckEnds, CheckFails, JudgeEnds, Does, Ready,
                IsAt
  <2>3. Cur \in Records  BY CurIs DEF LockInv
  <2>4. Return(t) \/ \E f : Goto(t, f) /\ f.at \in {"lock", "free"}
    <3>1. \A m : \A at : Begin(Top(t), m, at).at = at
      BY <2>1 DEF Begin, AnyFrame
    <3>2. \A m : \A at : \A w : [Begin(Top(t), m, at) EXCEPT !.want = w].at = at
      BY <2>1 DEF Begin, AnyFrame
    <3>3. ASSUME NEW m, Goto(t, Begin(Top(t), m, "lock"))
          PROVE  \E f : Goto(t, f) /\ f.at \in {"lock", "free"}
      BY <3>1, <3>3
    <3>4. ASSUME NEW m, NEW w, NEW at \in {"lock", "free"},
                 Goto(t, [Begin(Top(t), m, at) EXCEPT !.want = w])
          PROVE  \E f : Goto(t, f) /\ f.at \in {"lock", "free"}
      <4> DEFINE g == [Begin(Top(t), m, at) EXCEPT !.want = w]
      <4>1. g.at = at  BY <3>2
      <4>2. Goto(t, g)  BY <3>4
      <4> HIDE DEF g
      <4> QED  BY <4>1, <4>2
    <3>5. CASE NextMoves(t)  BY <3>4, <3>5 DEF NextMoves
    <3>6. CASE CheckEnds(t)  BY <3>3, <3>6 DEF CheckEnds
    <3>7. CASE CheckFails(t)  BY <3>3, <3>7 DEF CheckFails
    <3>8. CASE JudgeEnds(t)  BY <3>3, <3>4, <3>8 DEF JudgeEnds
    <3> QED  BY <1>5, <3>5, <3>6, <3>7, <3>8 DEF NextEnds, NextFails
  <2>5. CASE CheckEnds(t) \/ CheckFails(t) \/ JudgeEnds(t)
    <3>1. OnlyAt({Subject(Top(t))})
      BY <2>1, <2>5, WorkedIs, FailedIs DEF CheckEnds, CheckFails, JudgeEnds, LockInv
    <3> QED  BY <2>1, <2>2, <2>4, <3>1
  <2>6. CASE NextMoves(t)
    <3>1. OnlyAt({Cur, Cur + 1})  BY <2>6, MovedIs DEF NextMoves, Ends, LockInv
    <3> QED  BY <2>1, <2>2, <2>4, <3>1
  <2>7. CASE NextEnds(t) \/ NextFails(t)
    <3>1. CASE UNCHANGED data  BY <3>1 DEF data
    <3>2. CASE Moved(Cur, FALSE)
      <4>1. OnlyAt({Subject(Top(t))})  BY <2>1, <3>2, MovedIs DEF LockInv
      <4> QED  BY <2>1, <2>2, <2>4, <4>1
    <3> QED  BY <2>7, <3>1, <3>2 DEF NextEnds, NextFails
  <2> QED  BY <1>5, <2>5, <2>6, <2>7
<1> QED
  BY <1>2, <1>3, <1>4, <1>5
  DEF Step, Other, Lock, PanicIn, Panic, EnterPython, Frees, FilterAccepts, Call, FreeRaises,
      FilterRejects

LEMMA Untouched ==
  ASSUME LockInv, LockInv', NEW t \in Threads, Step(t) \/ Other(t),
         NEW u \in Threads, NEW d \in 1 .. Depth(u), d \in 1 .. Depth(u)',
         Frame(u, d).at = "python", Frame(u, d)'.at = "python"
  PROVE  LET r == Subject(Frame(u, d)) IN reader'[r] = reader[r] /\ http'[r] = http[r]
<1> DEFINE r == Subject(Frame(u, d))
           n == Depth(t)
<1>1. PICK g \in AnyFrame : g = Frame(u, d) /\ Sound(g)
  BY Framed DEF LockInv, Calls
<1>2. r \in Records /\ r \in g.held
  <2>1. g.obj # None  BY ObjectsAre DEF AnyFrame
  <2> QED  BY <1>1, <2>1, SubjectIs DEF LockInv, Sound, CallOfNext, CallOfOther, Mine, Subject
<1>3. SUFFICES ASSUME /\ stack[t] # << >>
                      /\ Top(t).at \in {"in", "python"}
                      /\ \/ OnlyAt({Subject(Top(t))})
                         \/ Top(t).obj = It /\ OnlyAt({Cur, Cur + 1})
                      /\ Return(t) \/ \E f : Goto(t, f) /\ f.at \in {"lock", "free"}
               PROVE  reader'[r] = reader[r] /\ http'[r] = http[r]
  BY Worker
<1>4. /\ n \in 1 .. n /\ Top(t) = Frame(t, n) /\ Top(t) \in AnyFrame /\ Sound(Top(t))
      /\ Top(t).obj = It => Subject(Top(t)) = Cur
  BY <1>3, OnTop
<1>5. ~ (u = t /\ d = n)
  <2> SUFFICES ASSUME u = t, d = n PROVE FALSE  OBVIOUS
  <2>1. CASE Return(t)
    <3>1. Depth(t)' = n - 1  BY <1>3, <2>1, OnReturn DEF LockInv
    <3> QED  BY <1>4, <3>1
  <2>2. ASSUME NEW f, Goto(t, f), f.at \in {"lock", "free"} PROVE FALSE
    <3>1. stack'[t] = <<f>> \o Tail(stack[t]) /\ stack[t] \in Seq(AnyFrame) /\ stack'[t] \in Seq(AnyFrame)
      BY <2>2 DEF Goto, LockInv, Typed
    <3>2. f \in AnyFrame
      <4> DEFINE s == stack[t]
                 q == stack'[t]
      <4>1. s \in Seq(AnyFrame) /\ s # << >> /\ q = <<f>> \o Tail(s) /\ q \in Seq(AnyFrame)
        BY <1>3, <3>1
      <4> HIDE DEF s, q
      <4>2. q[1] = f /\ 1 \in DOMAIN q  BY <4>1
      <4> QED  BY <4>1, <4>2
    <3>3. Frame(u, d)' = f
      BY <1>3, <1>4, <2>2, <3>2, OnGoto DEF LockInv
    <3> QED  BY <2>2, <3>3
  <2> QED  BY <1>3, <2>1, <2>2
<1>6. Subject(Top(t)) \in Top(t).held
  <2>1. Top(t).obj # None  BY <1>4, ObjectsAre DEF AnyFrame
  <2> QED  BY <1>3, <1>4, <2>1 DEF Sound, CallOfNext, CallOfOther, Mine, Subject
<1>7. r # Subject(Top(t))
  BY <1>1, <1>2, <1>4, <1>5, <1>6 DEF LockInv, Exclusive
<1>8. CASE OnlyAt({Subject(Top(t))})  BY <1>2, <1>7, <1>8 DEF OnlyAt
<1>9. CASE Top(t).obj = It /\ OnlyAt({Cur, Cur + 1})
  <2>1. g.obj # It  BY <1>1, <1>4, <1>5, <1>9 DEF LockInv, OneIterator
  <2>2. r <= Cur
    <3>1. g.obj # None  BY ObjectsAre DEF AnyFrame
    <3> QED  BY <1>1, <2>1, <3>1 DEF Sound, CallOfOther, Mine, Subject
  <2>3. r # Cur  BY <1>4, <1>7, <1>9
  <2>4. r \in Nat /\ Cur \in Nat  BY <1>2, CurIs, RecordAssumption DEF Records, LockInv
  <2>5. r \notin {Cur, Cur + 1}  BY <2>2, <2>3, <2>4
  <2> QED  BY <1>2, <1>9, <2>5 DEF OnlyAt
<1> QED  BY <1>3, <1>8, <1>9

(* A record is left alone while a method that works on it has called       *)
(* Python code.                                                            *)
THEOREM WorkIsLeftAlone == Spec => LeftAlone
<1> DEFINE Left ==
      \A t \in Threads : \A p \in AtWork(t) \cap AtWork(t)' :
        reader'[p[2]] = reader[p[2]] /\ http'[p[2]] = http[p[2]]
<1>1. RecordInv /\ RecordInv' /\ [Next]_vars => [Left]_vars
  <2> SUFFICES ASSUME RecordInv, RecordInv', Next, NEW u \in Threads,
                      NEW p \in AtWork(u), p \in AtWork(u)'
               PROVE  reader'[p[2]] = reader[p[2]] /\ http'[p[2]] = http[p[2]]
    OBVIOUS
  <2>1. stack[u] \in Seq(AnyFrame) /\ stack'[u] \in Seq(AnyFrame)
    BY DEF RecordInv, LockInv, Typed
  <2>2. PICK d \in 1 .. Depth(u) : /\ Frame(u, d).at = "python"
                                  /\ p[1] = d - 1 /\ p[2] = Subject(Frame(u, d))
    <3>1. PICK i \in DOMAIN stack[u] :
            stack[u][i].at = "python" /\ p = <<Len(stack[u]) - i, Subject(stack[u][i])>>
      BY DEF AtWork
    <3> QED  BY <2>1, <3>1, FromTheFront DEF Depth, Frame
  <2>3. PICK e \in 1 .. Depth(u)' : Frame(u, e)'.at = "python" /\ p[1] = e - 1
    <3>1. PICK i \in DOMAIN stack'[u] :
            stack'[u][i].at = "python" /\ p[1] = Len(stack'[u]) - i
      BY DEF AtWork
    <3> QED  BY <2>1, <3>1, FromTheFront DEF Depth, Frame
  <2>4. d = e
    <3>1. Depth(u) \in Nat /\ Depth(u)' \in Nat  BY <2>1 DEF Depth
    <3> QED  BY <2>2, <2>3, <3>1
  <2>5. PICK t \in Threads : Step(t) \/ Other(t)  BY DEF Next
  <2> QED  BY <2>2, <2>3, <2>4, <2>5, Untouched DEF RecordInv
<1> QED  BY <1>1, RecordInvariant, PTL DEF Spec, LeftAlone
=============================================================================
