-------------------------------- MODULE PyRecord --------------------------------
(***************************************************************************)
(* The Python objects of FastWARC that share a record: WarcRecord, its     *)
(* HeaderMaps and payload readers hold one Arc<Mutex<WarcRecord>>, and so  *)
(* does the ArchiveIterator.  A method runs with the interpreter lock,     *)
(* with its object borrowed, and mostly with the record's mutex, which it  *)
(* keeps while a Python stream, or other Python code it calls, runs: there *)
(* the interpreter may switch to another thread, and that code may call    *)
(* methods itself.  A thread that waits for a mutex keeps the interpreter  *)
(* lock.                                                                   *)
(***************************************************************************)
EXTENDS Naturals, Sequences, Functions

CONSTANTS
  Threads,    \* Python threads
  Archive,    \* how many records the archive has
  MaxActive,  \* bound: calls in progress at a time; after an overrun new ones
              \* are made one by one, after a misuse none
  None        \* no thread, no object

ASSUME RecordAssumption ==
  /\ Archive \in Nat
  /\ MaxActive \in Nat
  /\ None \notin Threads \cup {"it", "rec", "warc", "http", "reader"} \X Nat

VARIABLES
  inplace,    \* the iterator's inplace option
  gil,        \* the thread that keeps the interpreter lock, if one does
  stack,      \* the calls each thread is in, innermost first
  lock,       \* the thread that holds each record's mutex
  poisoned,   \* records whose mutex a panic has poisoned
  reader,     \* where each record's payload comes from
  http,       \* whether each record has HTTP headers
  shown,      \* records that the iterator has parsed
  objs,       \* objects that Python code has got hold of
  misused,    \* history: whether Python code did what the objects do not bear
  overrun     \* history: whether a stream, or a size, was more than the code bears

data == <<inplace, reader, http, shown>>
history == <<misused, overrun>>
vars == <<gil, stack, lock, poisoned, data, objs, history>>

(* Record 0 is one that Python code made with from_bytes(), of a payload   *)
(* that is not HTTP.                                                       *)
Records == 0 .. Archive + 1
It == <<"it", 0>>
Of(o) == o[2]

(* A new record is made for each record of the archive, or the first one   *)
(* is parsed into again and again.                                         *)
Cur == IF inplace THEN 1 ELSE shown + 1

-----------------------------------------------------------------------------
(***************************************************************************)
(* The methods: how they borrow their object, what Python code may run     *)
(* under the mutex (that of the archive's stream, if the payload still     *)
(* comes from it, that of another stream, or other code), and what they do *)
(* to the record.                                                          *)
(***************************************************************************)
Method(borrows, python, does) == [borrows |-> borrows, python |-> python, does |-> does]

HeaderViews == Method("shared", "nothing", "look")
HeaderLookups == Method("shared", "nothing", "look")
HeaderItems == Method("shared", "nothing", "look")
HeaderEdits == Method("mut", "nothing", "look")
HeaderParse == Method("mut", "stream", "look")
HeaderWrite == Method("shared", "stream", "look")
HeaderEq == Method("shared", "nothing", "compare")
PayloadReads == Method("shared", "reader", "look")

RecordGetters == Method("shared", "nothing", "look")
RecordSetters == Method("mut", "nothing", "look")
RecordDate == Method("shared", "code", "look")
SetRecordDate == Method("mut", "nothing", "date")
HttpDates == Method("shared", "code", "look")
HttpGetters == Method("shared", "nothing", "look")
HttpHeaders == Method("shared", "nothing", "getHttp")
GetReader == Method("shared", "nothing", "look")
RecordEq == Method("shared", "nothing", "compare")
Freeze == Method("mut", "reader", "freeze")
SetBytesPayload == Method("mut", "nothing", "payload")
Consume == Method("mut", "reader", "look")
ParseHttp == Method("mut", "reader", "http")
VerifyDigest == Method("mut", "reader", "verify")
Pickle == Method("mut", "reader", "pickle")
SetDigest == Method("mut", "nothing", "digest")
Write == Method("mut", "stream", "write")
NativeFilter == Method("shared", "reader", "verify")

(* next(): find the next record, check and parse it, ask the filters.      *)
(* Mutant: next() takes the iterator by shared reference.                  *)
AdvanceShared == Method("shared", "reader", "advance")

Advance == Method("mut", "reader", "advance")
Check == [Advance EXCEPT !.does = "check"]
Judge == [Advance EXCEPT !.does = "judge"]

HeaderMethods == {HeaderViews, HeaderLookups, HeaderItems, HeaderEdits, HeaderParse,
                  HeaderWrite, HeaderEq}
RecordMethods == {RecordGetters, RecordSetters, RecordDate, SetRecordDate, HttpDates,
                  HttpGetters, HttpHeaders, GetReader, RecordEq, Freeze,
                  SetBytesPayload, Consume, ParseHttp, VerifyDigest, Pickle, SetDigest,
                  Write, NativeFilter}
Methods == [rec |-> RecordMethods, warc |-> HeaderMethods, http |-> HeaderMethods,
            reader |-> {PayloadReads}, it |-> {Advance}]

(* WarcRecord.headers needs no lock and gives the headers of the record,   *)
(* whatever it is; a payload reader may stem from when there was one.      *)
Reached == objs \cup {"warc", "reader"} \X {r \in Records : <<"rec", r>> \in objs}

-----------------------------------------------------------------------------
(***************************************************************************)
(* Calls in progress.  at: waiting for a mutex ("lock"), at work under it  *)
(* ("in"), Python code under it ("python"), or Python code without it      *)
(* ("free").                                                               *)
(***************************************************************************)
Frames(t) == {stack[t][i] : i \in DOMAIN stack[t]}
Active == FoldFunction(LAMBDA calls, n : n + Len(calls), 0, stack)
AllFrames == UNION {Frames(t) : t \in Threads}
Top(t) == Head(stack[t])
(* Mutant: the interpreter lock is let go of for locking a mutex.          *)
InPythonUnlocked(t) == stack[t] # << >> => Top(t).at \in {"lock", "python", "free"}

InPython(t) == stack[t] # << >> => Top(t).at \in {"python", "free"}
IsAt(t, at) == stack[t] # << >> /\ Top(t).at = at
Goto(t, f) == stack' = [stack EXCEPT ![t] = <<f>> \o Tail(@)]
Return(t) == stack' = [stack EXCEPT ![t] = Tail(@)]

Wants(f) == {f.want[i] : i \in DOMAIN f.want}
Uses(f) == IF f.obj # It THEN {Of(o) : o \in {f.obj, f.arg} \ {None}}
           ELSE IF f.at = "free" THEN {} ELSE f.held \cup Wants(f)
InUse(r) == \E f \in AllFrames : r \in Uses(f)

(* PyRef and PyRefMut.                                                     *)
Borrowed(o, how) ==
  \E f \in AllFrames : o \in {f.obj, f.arg} /\ (how = "any" \/ (f.obj = o /\ f.m.borrows = "mut"))
Refused(o, m) == Borrowed(o, IF m.borrows = "mut" THEN "any" ELSE "mut")

(* The HTTP headers that a HeaderMap stands for are gone.                  *)
Gone(o) == o # None /\ o[1] = "http" /\ ~ http[Of(o)]

(* The mutexes a method takes, in this order.                              *)
Needs(o, a, m) ==
  IF o = It THEN <<Cur>>
  ELSE IF a = None \/ (o[1] = "rec" /\ Of(o) = Of(a)) THEN <<Of(o)>>
  ELSE <<Of(o), Of(a)>>

Misuses(o, a, m) ==
  \/ \E i \in DOMAIN Needs(o, a, m) : InUse(Needs(o, a, m)[i])
  \/ a # None /\ o[1] # "rec" /\ Of(o) = Of(a)
  \/ m.does = "pickle" /\ reader[Of(o)] = "none"
  \/ Gone(o) \/ Gone(a)

-----------------------------------------------------------------------------
(***************************************************************************)
(* What is done to the record under its mutex.                             *)
(***************************************************************************)
Subject(f) == IF f.obj = It THEN Cur ELSE Of(f.obj)

(* freeze(): a payload that is being decoded cannot be frozen, and its     *)
(* reader is lost.                                                         *)
Frozen(x) == IF x = "stream" THEN {"frozen", "none"} ELSE {x}

Readers(does, x) ==
  CASE does = "freeze" -> Frozen(x)
    [] does \in {"verify", "write", "judge"} -> {x} \cup Frozen(x)
    [] does = "check" -> {x, "none"} \cup Frozen(x)
    [] does = "payload" -> IF x = "stream" THEN {"frozen", "memory"} ELSE {"memory"}
    [] does = "http" -> {x, "none"}
    [] OTHER -> {x}
ReadersFailed(does, x) ==
  IF x = "stream" /\ does \in {"freeze", "verify", "write", "check", "judge"}
  THEN {x, "none"} ELSE {x}

(* A method on one record that succeeds, or fails.                         *)
Worked(f) ==
  LET r == Subject(f) IN
  IF r = 0 THEN UNCHANGED data ELSE
  /\ \E x \in Readers(f.m.does, reader[r]) : reader' = [reader EXCEPT ![r] = x]
  /\ \E h \in IF f.m.does \in {"http", "check"} /\ reader[r] # "none" THEN {TRUE, http[r]} ELSE {http[r]} :
       http' = [http EXCEPT ![r] = h]
  /\ UNCHANGED <<inplace, shown>>
Failed(f) ==
  LET r == Subject(f) IN
  /\ \E x \in ReadersFailed(f.m.does, reader[r]) : reader' = [reader EXCEPT ![r] = x]
  /\ UNCHANGED <<inplace, http, shown>>

(* What Python code gets to see of it.                                     *)
Yields(f) == IF f.m.does = "getHttp" /\ http[Subject(f)] THEN {<<"http", Subject(f)>>} ELSE {}

(* next_impl() and next_inplace_impl(), once what is left is consumed.     *)
Ends(r) == shown = Archive \/ reader[r] \in {"none", "memory"} \/ (inplace /\ reader[r] = "frozen")
Detached(x) == IF x = "frozen" THEN "memory" ELSE "none"
Moved(r, found) ==
  /\ IF inplace
     THEN http' = [http EXCEPT ![r] = FALSE] /\ UNCHANGED reader
     ELSE /\ reader' = [q \in Records |-> IF q = r THEN Detached(reader[r])
                                        ELSE IF found /\ q = r + 1 THEN "stream" ELSE reader[q]]
          /\ UNCHANGED http
  /\ shown' = IF found THEN shown + 1 ELSE shown
  /\ UNCHANGED inplace

-----------------------------------------------------------------------------
(***************************************************************************)
(* The steps.                                                              *)
(***************************************************************************)
Init ==
  /\ inplace \in BOOLEAN
  /\ gil = None
  /\ stack = [t \in Threads |-> << >>]
  /\ lock = [r \in Records |-> None]
  /\ poisoned = {}
  /\ reader = [r \in Records |-> IF r = 0 THEN "memory" ELSE IF r = 1 THEN "stream" ELSE "none"]
  /\ http = [r \in Records |-> FALSE]
  /\ shown = 0
  /\ objs = {It, <<"rec", 0>>}
  /\ misused = FALSE
  /\ overrun = FALSE

Call(t, o, a, m) ==
  /\ InPython(t)
  /\ ~ misused
  /\ Active < IF overrun THEN 1 ELSE MaxActive
  /\ (a # None) <=> (m.does = "compare")
  /\ a # None => a[1] \in IF o[1] = "rec" THEN {"rec"} ELSE {"warc", "http"}
  /\ ~ Refused(o, m)
  /\ LET at == IF m.does \in {"date", "digest", "write"} THEN "free" ELSE "lock"
     IN stack' = [stack EXCEPT ![t] = <<[obj |-> o, arg |-> a, m |-> m, at |-> at,
                                         want |-> Needs(o, a, m), held |-> {}]>> \o @]
  /\ misused' = (misused \/ Misuses(o, a, m))
  /\ UNCHANGED <<lock, poisoned, data, objs, overrun>>

Release(f) == lock' = [r \in Records |-> IF r \in f.held THEN None ELSE lock[r]]

(* unwrap() and expect(): the guards are dropped in a panic.               *)
Panic(t) ==
  /\ Release(Top(t))
  /\ poisoned' = poisoned \cup Top(t).held
  /\ Return(t)
  /\ UNCHANGED <<data, objs, history>>

(* The other HeaderMap or record is borrowed before its mutex is taken.    *)
OtherRefused(f) == f.arg # None /\ Len(f.want) = 1 /\ Borrowed(f.arg, "mut")

Lock(t) ==
  /\ IsAt(t, "lock")
  /\ LET f == Top(t)
         r == Head(f.want)
     IN \/ /\ OtherRefused(f) \/ (lock[r] = None /\ r \in poisoned)
           /\ Panic(t)
        \/ /\ ~ OtherRefused(f)
           /\ lock[r] = None
           /\ r \notin poisoned
           /\ lock' = [lock EXCEPT ![r] = t]
           /\ Goto(t, [f EXCEPT !.want = Tail(@), !.held = @ \cup {r},
                                !.at = IF Tail(f.want) = << >> THEN "in" ELSE "lock"])
           /\ UNCHANGED <<poisoned, data, objs, history>>

PanicsIn(f) == Gone(f.obj) \/ Gone(f.arg) \/ (f.m.does = "pickle" /\ reader[Subject(f)] = "none")

PanicIn(t) ==
  /\ IsAt(t, "in")
  /\ PanicsIn(Top(t))
  /\ Panic(t)

(* A Python stream, or other Python code, is called under the mutex; one   *)
(* call stands for all of those that the method makes.                     *)
RunsPython(f) ==
  \/ f.m.python \in {"code", "stream"}
  \/ f.m.python = "reader" /\ reader[Subject(f)] = "stream"
  \/ f.m.does = "advance" /\ reader[Subject(f)] = "frozen" /\ ~ inplace
(* Mutant: the mutex is unlocked while Python code runs.                   *)
EnterPythonUnlocked(t) ==
  /\ IsAt(t, "in")
  /\ ~ PanicsIn(Top(t))
  /\ RunsPython(Top(t))
  /\ Release(Top(t))
  /\ Goto(t, [Top(t) EXCEPT !.at = "python", !.held = {}])
  /\ UNCHANGED <<poisoned, data, objs, history>>

EnterPython(t) ==
  /\ IsAt(t, "in")
  /\ ~ PanicsIn(Top(t))
  /\ RunsPython(Top(t))
  /\ Goto(t, [Top(t) EXCEPT !.at = "python"])
  /\ UNCHANGED <<lock, poisoned, data, objs, history>>

(* The code raises an exception; a PanicException goes on as a panic.      *)
(* Mutant: an error is unwrapped instead of returned.                      *)
RaisesUnwrapped(t) == IsAt(t, "python") /\ Top(t).obj # It /\ Panic(t)

Raises(t) ==
  /\ IsAt(t, "python")
  /\ Top(t).obj # It
  /\ Failed(Top(t))
  /\ Release(Top(t))
  /\ Return(t)
  /\ UNCHANGED <<poisoned, objs, history>>

(* What a panic in the middle of a method leaves of the record.            *)
Unwinds(t) ==
  /\ IF Top(t).m.does = "advance" THEN Moved(Cur, FALSE) \/ UNCHANGED data ELSE Failed(Top(t))
  /\ Release(Top(t))
  /\ poisoned' = poisoned \cup Top(t).held
  /\ Return(t)
  /\ UNCHANGED <<objs, misused>>
RaisesPanic(t) == IsAt(t, "python") /\ poisoned # {} /\ Unwinds(t) /\ UNCHANGED overrun

(* FastWARC's own streams panic when they are closed, read() when it gets  *)
(* more than it asked for, and so does making a buffer of a size that no   *)
(* buffer can have: read(size) on any payload, and freeze().               *)
CanOverrun(f) ==
  \/ RunsPython(f) /\ f.m.python # "code"
  \/ f.m = PayloadReads /\ reader[Subject(f)] # "none"
Overruns(t) ==
  /\ IsAt(t, "in") \/ IsAt(t, "python")
  /\ ~ PanicsIn(Top(t))
  /\ CanOverrun(Top(t))
  /\ Unwinds(t)
  /\ overrun' = TRUE

(* The method is done with the record.                                     *)
Ready(t) == (IsAt(t, "in") \/ IsAt(t, "python")) /\ ~ PanicsIn(Top(t))
Begin(f, m, at) == [f EXCEPT !.m = m, !.at = at, !.want = <<Cur>>, !.held = {}]

Finish(t) ==
  /\ Ready(t)
  /\ LET f == Top(t) IN
     /\ f.obj # It
     /\ Worked(f)
     /\ Release(f)
     /\ CASE f.m.does = "digest" ->
              Goto(t, [f EXCEPT !.m = Write, !.at = "free", !.want = <<Of(f.obj)>>, !.held = {}])
          [] f.m.does = "write" -> Goto(t, [f EXCEPT !.at = "free", !.held = {}])
          [] OTHER -> Return(t)
     /\ objs' = objs \cup Yields(f)
     /\ UNCHANGED <<poisoned, history>>

(* Python code before and after the work under the mutex.                  *)
Frees(t) ==
  /\ IsAt(t, "free")
  /\ Top(t).obj # It
  /\ IF Top(t).want # << >> THEN Goto(t, [Top(t) EXCEPT !.at = "lock"]) ELSE Return(t)
  /\ UNCHANGED <<lock, poisoned, data, objs, history>>
FreeRaises(t) ==
  /\ IsAt(t, "free")
  /\ Release(Top(t))
  /\ Return(t)
  /\ UNCHANGED <<poisoned, data, objs, history>>

-----------------------------------------------------------------------------
(***************************************************************************)
(* ArchiveIterator.__next__().                                             *)
(***************************************************************************)
Does(t, does) == Ready(t) /\ Top(t).m.does = does
IterStep(t) ==
  /\ Release(Top(t))
  /\ UNCHANGED <<poisoned, objs, history>>

(* There is no next record: the archive ends, or the reader is not there.  *)
NextEnds(t) ==
  /\ Does(t, "advance")
  /\ Ends(Cur)
  /\ IF reader[Cur] \in {"none", "memory"} \/ (inplace /\ reader[Cur] = "frozen")
     THEN UNCHANGED data
     ELSE Moved(Cur, FALSE)
  /\ Return(t)
  /\ IterStep(t)

NextMoves(t) ==
  /\ Does(t, "advance")
  /\ ~ Ends(Cur)
  /\ Moved(Cur, TRUE)
  /\ Goto(t, [Begin(Top(t), Check, "lock") EXCEPT !.want = <<IF inplace THEN 1 ELSE Cur + 1>>])
  /\ IterStep(t)

(* The stream fails, before or after the reader is detached.               *)
NextFails(t) ==
  /\ IsAt(t, "python")
  /\ Top(t).m.does = "advance"
  /\ Moved(Cur, FALSE) \/ UNCHANGED data
  /\ Return(t)
  /\ IterStep(t)

(* The record is checked and its HTTP headers are parsed: the filters are  *)
(* asked, or it is skipped, or parsing fails.                              *)
CheckEnds(t) ==
  /\ Does(t, "check")
  /\ Worked(Top(t))
  /\ \/ Goto(t, Begin(Top(t), Judge, "lock"))
     \/ Goto(t, Begin(Top(t), Advance, "lock"))
     \/ Return(t)
  /\ IterStep(t)
CheckFails(t) ==
  /\ IsAt(t, "python")
  /\ Top(t).m.does \in {"check", "judge"}
  /\ Failed(Top(t))
  /\ \/ Goto(t, Begin(Top(t), Advance, "lock"))
     \/ Top(t).m.does = "check" /\ Return(t)
  /\ IterStep(t)

(* The native filter passes the record on to the Python filter, or skips   *)
(* it.                                                                     *)
(* Mutant: the guard of the native filter lives on while func_filter runs. *)
JudgeEndsLocked(t) ==
  /\ Does(t, "judge")
  /\ Worked(Top(t))
  /\ \/ /\ Goto(t, [Top(t) EXCEPT !.at = "free"])
        /\ objs' = objs \cup {<<"rec", Cur>>}
        /\ UNCHANGED lock
     \/ /\ Goto(t, Begin(Top(t), Advance, "lock"))
        /\ Release(Top(t))
        /\ UNCHANGED objs
  /\ UNCHANGED <<poisoned, history>>

JudgeEnds(t) ==
  /\ Does(t, "judge")
  /\ Worked(Top(t))
  /\ \/ /\ Goto(t, [Begin(Top(t), Judge, "free") EXCEPT !.want = << >>])
        /\ objs' = objs \cup {<<"rec", Cur>>}
     \/ /\ Goto(t, Begin(Top(t), Advance, "lock"))
        /\ UNCHANGED objs
  /\ Release(Top(t))
  /\ UNCHANGED <<poisoned, history>>

(* func_filter accepts the record or not.                                  *)
FilterAccepts(t) ==
  /\ IsAt(t, "free")
  /\ Top(t).obj = It
  /\ Release(Top(t))
  /\ Return(t)
  /\ UNCHANGED <<poisoned, data, objs, history>>
FilterRejects(t) ==
  /\ IsAt(t, "free")
  /\ Top(t).obj = It
  /\ Release(Top(t))
  /\ Goto(t, Begin(Top(t), Advance, "lock"))
  /\ misused' = (misused \/ InUse(Cur))
  /\ UNCHANGED <<poisoned, data, objs, overrun>>

-----------------------------------------------------------------------------
Step(t) ==
  \/ Lock(t) \/ PanicIn(t) \/ EnterPython(t) \/ Finish(t) \/ Frees(t)
  \/ NextEnds(t) \/ NextMoves(t) \/ CheckEnds(t) \/ JudgeEnds(t) \/ FilterAccepts(t)

Other(t) ==
  \/ \E o \in Reached : \E m \in Methods[o[1]] : \E a \in Reached \cup {None} : Call(t, o, a, m)
  \/ Raises(t) \/ RaisesPanic(t) \/ Overruns(t) \/ FreeRaises(t)
  \/ NextFails(t) \/ CheckFails(t) \/ FilterRejects(t)

(* The interpreter may switch threads when Python code runs, only then.    *)
MayRun(t) == gil \in {t, None}
Keeps(t) == gil' = IF InPython(t)' THEN None ELSE t

Next == \E t \in Threads : MayRun(t) /\ (Step(t) \/ Other(t)) /\ Keeps(t)

Spec == Init /\ [][Next]_vars

(* The interpreter gives every thread its turns; a stream's methods and a  *)
(* func_filter return, whatever they call before.                          *)
StepAt(t, d) == Len(stack[t]) = d /\ MayRun(t) /\ Step(t) /\ Keeps(t)
FairSpec == Spec /\ \A t \in Threads : \A d \in 1 .. MaxActive : SF_vars(StepAt(t, d))

-----------------------------------------------------------------------------
(***************************************************************************)
(* What the locks are worth.                                               *)
(***************************************************************************)

(* Mutexes are held while Python code runs and are not reentrant; still,   *)
(* every call returns, as long as no method of a record is called while    *)
(* another one, or next(), is in the middle of that record: what PyO3      *)
(* refuses, and what a func_filter does to its record, is harmless.        *)
EveryCallReturns == \A t \in Threads : stack[t] # << >> ~> stack[t] = << >> \/ misused

(* next() holds no mutex while func_filter runs: it is the borrow of the   *)
(* iterator that keeps that function, and other threads, from advancing it *)
(* past the record that is judged.                                         *)
FilterJudgesTheCurrent ==
  \A f \in AllFrames : f.obj = It /\ f.at = "free"
    => \A t \in Threads : \A i \in DOMAIN stack[t] : stack[t][i].obj = It => stack[t][i] = f

(* A record is left alone while a method that works on it has called       *)
(* Python code, whatever that code and other threads do.                   *)
AtWork(t) ==
  {<<Len(stack[t]) - i, Subject(stack[t][i])>> :
     i \in {i \in DOMAIN stack[t] : stack[t][i].at = "python"}}
LeftAlone ==
  [][\A t \in Threads : \A p \in AtWork(t) \cap AtWork(t)' :
      reader'[p[2]] = reader[p[2]] /\ http'[p[2]] = http[p[2]]]_vars

(* In inplace mode Python code has the record while next() parses the next *)
(* one into it, and next() lets go of it twice on the way: nobody gets in  *)
(* between.                                                                *)
NextIsOneStep ==
  [][\A t \in Threads : stack[t] # << >> /\ Top(t).obj = It /\ Top(t).at = "lock"
      => \A r \in Records : lock'[r] \in {lock[r], None, t}]_vars

(* An exception that a stream or other code raises poisons no mutex: a     *)
(* record stays usable unless it was pickled without a reader, its HTTP    *)
(* headers were asked for when it had none any more, or calls collided     *)
(* (misused), or a stream was closed or gave too much, or a size was too   *)
(* large, while it was in use (overrun).                                   *)
ErrorsDoNotPoison == poisoned # {} => misused \/ overrun
=============================================================================
