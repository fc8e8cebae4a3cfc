------------------------------ MODULE ProcessGuard ------------------------------
(***************************************************************************)
(* Guard contexts: entering and leaving them, the registry that forbids    *)
(* nesting contexts of one type, the guard thread of each context and the  *)
(* interrupts it raises in the guarded thread, which arrive wherever that  *)
(* thread is: in the guarded body, in the Python code that makes and starts *)
(* a guard thread, or in the join() of a context that is being left.  When a loop *)
(* decides to interrupt is the subject of GuardLoop; here it may at any    *)
(* time.                                                                   *)
(***************************************************************************)
EXTENDS Naturals, Sequences

CONSTANTS
  Guards,     \* guard objects
  Classes,    \* TimeGuard, MemGuard
  Class,      \* the class of each guard
  Signals,    \* the guards whose loops send signals
  Threads,    \* the user's threads
  Main,       \* the interpreter's main thread, which handles all signals
  Loops,      \* identities of guard threads that have not been collected yet
  MemGuards,  \* the classes that run on Linux only
  MaxDepth,   \* bound: contexts a thread is in at a time
  None        \* no guard, no guard thread

ASSUME GuardAssumption ==
  /\ Class \in [Guards -> Classes]
  /\ Signals \subseteq Guards
  /\ Main \in Threads
  /\ MemGuards \subseteq Classes
  /\ MaxDepth \in Nat
  /\ None \notin Guards \cup Loops

VARIABLES
  registry,   \* __GUARD_CTX_ACTIVE
  ended,      \* gctx.ended of each guard
  handle,     \* guard_thread of each guard
  loop,       \* the guard threads
  stack,      \* the contexts each user thread is in, innermost first
  exc,        \* PyThreadState.async_exc: the guard whose exception is to be raised
  sig,        \* the guards whose signals have been caught and not handled yet
  released,   \* guards that user code holds no reference to any more
  platform,   \* whether the platform supports MemGuard
  cut,        \* history: classes of contexts whose entry or finish() was cut short,
              \* until the name is removed
  spoilt      \* history: classes of which a guard was destroyed while another was in use

vars == <<registry, ended, handle, loop, stack, exc, sig, released, platform, cut, spoilt>>
user == <<stack, exc, sig>>
registration == <<registry, cut, spoilt>>

(* A guard thread is made, started, has begun to run (which is when it may  *)
(* be joined), sleeps or waits for the GIL to send an interrupt, and ends.  *)
Idle == [pc |-> "over", guard |-> None, target |-> None]
Runs(l) == loop[l].pc \in {"started", "wait", "send"}
LoopOf(g) == {l \in Loops : Runs(l) /\ loop[l].guard = g}

Frames(t) == {stack[t][i] : i \in DOMAIN stack[t]}
Frame == [guard : Guards, pc : {"entering", "starting", "body", "leaving"},
          thread : Loops \cup {None}]
In(g) == \E t \in Threads : \E f \in Frames(t) : f.guard = g
InContext(t, pc) == stack[t] # << >> /\ Head(stack[t]).pc = pc
Top(t) == Head(stack[t]).guard
Thread(t) == Head(stack[t]).thread
Pop(t) == [stack EXCEPT ![t] = Tail(@)]
Replace(t, frame) == [stack EXCEPT ![t] = <<frame>> \o Tail(@)]
Referred(l) ==
  \/ \E g \in Guards : handle[g] = l
  \/ \E t \in Threads : \E f \in Frames(t) : f.thread = l

-----------------------------------------------------------------------------
(***************************************************************************)
(* What the methods of a guard do.                                         *)
(***************************************************************************)

(* A thread may enter a context when it runs user code.                    *)
RunsUserCode(t) == stack[t] = << >> \/ InContext(t, "body")

(* Mutant: a context is entered whatever is registered.                    *)
SetupUnchecked(g) ==
  /\ registry' = registry \cup {Class[g]}
  /\ ended' = [ended EXCEPT ![g] = FALSE]

Setup(g) ==
  /\ Class[g] \notin registry
  /\ registry' = registry \cup {Class[g]}
  /\ ended' = [ended EXCEPT ![g] = FALSE]

(* Mutant: the name is not removed.                                        *)
FinishRegistered(g) == handle' = [handle EXCEPT ![g] = None] /\ UNCHANGED registration

(* What is left of finish() once the guard thread is over.                 *)
FinishJoined(g) ==
  /\ handle' = [handle EXCEPT ![g] = None]
  /\ registry' = registry \ {Class[g]}
  /\ cut' = cut \ {Class[g]}
  /\ UNCHANGED spoilt

(* Destroying a guard removes the name of its type, whoever registered it. *)
Harmless(g) ==
  Class[g] \in registry =>
    \A h \in Guards \ {g} : Class[h] = Class[g] => ~In(h) /\ handle[h] = None

(* __dealloc__() calls finish(), in guard thread l or in another thread.   *)
(* Its join() raises in the guard thread itself ("cannot join current      *)
(* thread"), and for a thread that was not started, unless the garbage     *)
(* collector has cleared guard_thread before: the name stays.              *)
Destroyed(g, l) ==
  /\ ended' = [ended EXCEPT ![g] = TRUE]
  /\ handle' = [handle EXCEPT ![g] = None]
  /\ \/ /\ handle[g] # None => handle[g] # l /\ ~Runs(handle[g])
        /\ registry' = registry \ {Class[g]}
        /\ cut' = cut \ {Class[g]}
        /\ spoilt' = IF Harmless(g) THEN spoilt ELSE spoilt \cup {Class[g]}
     \/ /\ handle[g] # None
        /\ handle[g] = l \/ loop[handle[g]].pc = "made"
        /\ UNCHANGED registration

-----------------------------------------------------------------------------
(***************************************************************************)
(* User code.                                                              *)
(***************************************************************************)

(* setup().  A registered class makes it raise, which changes nothing.     *)
Enter(t, g) ==
  /\ RunsUserCode(t)
  /\ Len(stack[t]) < MaxDepth
  /\ g \notin released
  /\ Setup(g)
  /\ stack' = [stack EXCEPT ![t] = <<[guard |-> g, pc |-> "entering", thread |-> None]>> \o @]
  /\ UNCHANGED <<handle, loop, exc, sig, released, platform, cut, spoilt>>

Pending(t) == exc[t] # None \/ (t = Main /\ sig # {})

(* The context on top of t's is left without the rest of __enter__() or    *)
(* finish().                                                               *)
CutShort(t) == stack' = Pop(t) /\ cut' = cut \cup {Class[Top(t)]}

(* exec_before() of a MemGuard raises after setup() on a platform that is  *)
(* not supported.  Neither guard_wrapper nor a with statement calls        *)
(* finish() then.                                                          *)
Unsupported(t) ==
  /\ InContext(t, "entering") /\ ~Pending(t)
  /\ Class[Top(t)] \in MemGuards /\ ~platform
  /\ CutShort(t)
  /\ UNCHANGED <<registry, ended, handle, loop, exc, sig, released, platform, spoilt>>

Unused == {l \in Loops : ~Runs(l) /\ ~Referred(l)}

(* threading.Thread() has returned.                                        *)
Constructed(t) ==
  LET l == CHOOSE l \in Unused : TRUE IN
  /\ InContext(t, "entering") /\ ~Pending(t)
  /\ Class[Top(t)] \in MemGuards => platform
  /\ Unused # {}
  /\ handle' = [handle EXCEPT ![Top(t)] = l]
  /\ loop' = [loop EXCEPT ![l] = [pc |-> "made", guard |-> Top(t), target |-> t]]
  /\ stack' = Replace(t, [guard |-> Top(t), pc |-> "starting", thread |-> l])
  /\ UNCHANGED <<registration, ended, exc, sig, released, platform>>

(* Thread.start() starts the thread,                                       *)
Starts(t) ==
  /\ InContext(t, "starting")
  /\ loop[Thread(t)].pc = "made"
  /\ loop' = [loop EXCEPT ![Thread(t)].pc = "started"]
  /\ UNCHANGED <<registration, ended, handle, user, released, platform>>

(* and returns when it runs: an interrupt would have been raised in it.    *)
Started(t) ==
  /\ InContext(t, "starting") /\ ~Pending(t)
  /\ loop[Thread(t)].pc \notin {"made", "started"}
  /\ stack' = Replace(t, [guard |-> Top(t), pc |-> "body", thread |-> None])
  /\ UNCHANGED <<registration, ended, handle, loop, exc, sig, released, platform>>

(* Mutant: finish() does not tell the guard thread.                        *)
LeaveSilently(t) ==
  /\ InContext(t, "body")
  /\ stack' = Replace(t, [guard |-> Top(t), pc |-> "leaving", thread |-> handle[Top(t)]])
  /\ UNCHANGED <<registration, ended, handle, loop, exc, sig, released, platform>>

(* The body returns or raises: finish() up to the join.                    *)
Leave(t) ==
  /\ InContext(t, "body")
  /\ ended' = [ended EXCEPT ![Top(t)] = TRUE]
  /\ stack' = Replace(t, [guard |-> Top(t), pc |-> "leaving", thread |-> handle[Top(t)]])
  /\ UNCHANGED <<registration, handle, loop, exc, sig, released, platform>>

(* Mutant: finish() does not wait for the guard thread.                    *)
JoinedAtOnce(t) ==
  /\ InContext(t, "leaving")
  /\ FinishJoined(Top(t))
  /\ stack' = Pop(t)
  /\ UNCHANGED <<ended, loop, exc, sig, released, platform>>

(* The join has returned, and no interrupt was raised in it.               *)
Joined(t) ==
  /\ InContext(t, "leaving")
  /\ Thread(t) # None => loop[Thread(t)].pc = "over" /\ ~Pending(t)
  /\ FinishJoined(Top(t))
  /\ stack' = Pop(t)
  /\ UNCHANGED <<ended, loop, exc, sig, released, platform>>

(* "cannot join thread before it is started": another context of the same  *)
(* guard has just made it.                                                 *)
JoinFails(t) ==
  /\ InContext(t, "leaving") /\ Thread(t) # None
  /\ loop[Thread(t)].pc \in {"made", "started"}
  /\ CutShort(t)
  /\ UNCHANGED <<registry, ended, handle, loop, exc, sig, released, platform, spoilt>>

Raised(t) ==
  \/ exc[t] # None /\ exc' = [exc EXCEPT ![t] = None] /\ UNCHANGED sig
  \/ t = Main /\ sig # {} /\ sig' = {} /\ UNCHANGED exc

(* Mutant: the name is removed even if the join is cut short.              *)
InterruptedUnregisters(t) ==
  /\ Raised(t)
  /\ IF RunsUserCode(t) THEN UNCHANGED <<stack, registry, cut>>
       ELSE /\ CutShort(t) /\ registry' = registry \ {Class[Top(t)]}
  /\ UNCHANGED <<ended, handle, loop, released, platform, spoilt>>

(* An interrupt is raised in t.  Raised in the body of a context it ends   *)
(* the body or is caught there, which leaves the rest to Leave.  Raised    *)
(* while the thread is made, started or joined it takes t out of the       *)
(* context without the rest of __enter__() or finish().                    *)
Interrupted(t) ==
  /\ Raised(t)
  /\ InContext(t, "leaving") => Thread(t) # None
  /\ IF RunsUserCode(t) THEN UNCHANGED <<stack, cut>> ELSE CutShort(t)
  /\ UNCHANGED <<registry, ended, handle, loop, released, platform, spoilt>>

(* The last reference of user code goes away: the guard is destroyed,      *)
(* unless the closure of a running guard thread holds it.                  *)
Release(g) ==
  /\ ~In(g)
  /\ g \notin released
  /\ released' = released \cup {g}
  /\ IF LoopOf(g) = {} THEN Destroyed(g, None)
                       ELSE UNCHANGED <<registration, ended, handle>>
  /\ UNCHANGED <<loop, user, platform>>

-----------------------------------------------------------------------------
(***************************************************************************)
(* The guard threads.                                                      *)
(***************************************************************************)

(* Thread._bootstrap_inner() sets _started and calls the loop.             *)
LoopBegins(l) ==
  /\ loop[l].pc = "started"
  /\ loop' = [loop EXCEPT ![l].pc = "wait"]
  /\ UNCHANGED <<registration, ended, handle, user, released, platform>>

(* The thread ends, and with it its closure, which may be the last thing   *)
(* that holds the guard.                                                   *)
Over(l) ==
  /\ loop' = [loop EXCEPT ![l] = Idle]
  /\ IF loop[l].guard \in released /\ LoopOf(loop[l].guard) = {l}
       THEN Destroyed(loop[l].guard, l)
       ELSE UNCHANGED <<registration, ended, handle>>

(* The check of ended after usleep().                                      *)
LoopEnds(l) ==
  /\ loop[l].pc = "wait"
  /\ ended[loop[l].guard]
  /\ Over(l)
  /\ UNCHANGED <<user, released, platform>>

(* send_interrupt() has checked ended; it may have to wait for the GIL.    *)
LoopDecides(l) ==
  /\ loop[l].pc = "wait"
  /\ ~ended[loop[l].guard]
  /\ loop' = [loop EXCEPT ![l].pc = "send"]
  /\ UNCHANGED <<registration, ended, handle, user, released, platform>>

(* PyThreadState_SetAsyncExc() replaces an exception that is not raised    *)
(* yet; a signal is handled by the main thread whatever thread it is sent  *)
(* to.  After the last level the loop ends.                                *)
LoopSends(l) ==
  LET g == loop[l].guard IN
  /\ loop[l].pc = "send"
  /\ IF g \in Signals
       THEN sig' = sig \cup {g} /\ UNCHANGED exc
       ELSE exc' = [exc EXCEPT ![loop[l].target] = g] /\ UNCHANGED sig
  /\ \/ loop' = [loop EXCEPT ![l].pc = "wait"] /\ UNCHANGED <<registration, ended, handle>>
     \/ Over(l)
  /\ UNCHANGED <<stack, released, platform>>

-----------------------------------------------------------------------------
Init ==
  /\ registry = {}
  /\ ended = [g \in Guards |-> FALSE]
  /\ handle = [g \in Guards |-> None]
  /\ loop = [l \in Loops |-> Idle]
  /\ stack = [t \in Threads |-> << >>]
  /\ exc = [t \in Threads |-> None]
  /\ sig = {}
  /\ released = {}
  /\ platform \in BOOLEAN
  /\ cut = {} /\ spoilt = {}

Next ==
  \/ \E t \in Threads, g \in Guards : Enter(t, g)
  \/ \E t \in Threads : \/ Unsupported(t) \/ Constructed(t) \/ Starts(t) \/ Started(t)
                        \/ Leave(t) \/ Joined(t) \/ JoinFails(t) \/ Interrupted(t)
  \/ \E g \in Guards : Release(g)
  \/ \E l \in Loops : LoopBegins(l) \/ LoopEnds(l) \/ LoopDecides(l) \/ LoopSends(l)

Spec == Init /\ [][Next]_vars

(* Python code runs on; a guard thread wakes up and gets the GIL; what is  *)
(* pending is raised.  Bodies are not forced to end, nor loops to          *)
(* interrupt.                                                              *)
Fairness ==
  /\ \A t \in Threads : /\ WF_vars(Starts(t)) /\ WF_vars(Started(t))
                        /\ WF_vars(Joined(t)) /\ WF_vars(JoinFails(t))
                        /\ WF_vars(Interrupted(t))
  /\ \A l \in Loops : WF_vars(LoopBegins(l)) /\ WF_vars(LoopEnds(l)) /\ WF_vars(LoopSends(l))

FairSpec == Spec /\ Fairness
-----------------------------------------------------------------------------
TypeOK ==
  /\ registry \subseteq Classes
  /\ ended \in [Guards -> BOOLEAN]
  /\ handle \in [Guards -> Loops \cup {None}]
  /\ loop \in [Loops -> {Idle} \cup
        [pc : {"made", "started", "wait", "send"}, guard : Guards, target : Threads]]
  /\ stack \in [Threads -> Seq(Frame)]
  /\ exc \in [Threads -> Guards \cup {None}]
  /\ sig \subseteq Guards
  /\ released \subseteq Guards
  /\ platform \in BOOLEAN
  /\ cut \subseteq Classes /\ spoilt \subseteq Classes

(* A type stays registered for no other reason than a context of it, or    *)
(* one whose entry or finish() was cut short: by an interrupt, or because  *)
(* the platform has no MemGuard.                                           *)
RegisteredForAReason ==
  \A c \in registry : c \in cut \/ \E g \in Guards : Class[g] = c /\ In(g)

FramesOf(c) ==
  {p \in UNION {{<<t, i>> : i \in DOMAIN stack[t]} : t \in Threads} :
     Class[stack[p[1]][p[2]].guard] = c}

(* "Guard contexts of the same type cannot be nested": setup() lets no     *)
(* second context of a type in, whatever the first one is doing, unless a  *)
(* guard of the type is destroyed meanwhile.                               *)
NotNested == \A c \in Classes \ spoilt : \A p, q \in FramesOf(c) : p = q

(* An exception that is pending comes from a context its thread is in: the *)
(* join in finish() keeps a guard thread from interrupting what comes      *)
(* after the context.  The exception are guards of which __enter__() or     *)
(* finish() was cut short, which still have a thread, or had when they     *)
(* were released, and types that were let nest.                            *)
NoLateInterrupt ==
  \A t \in Threads :
    LET g == exc[t] IN
    g # None => \/ \E f \in Frames(t) : f.guard = g
                \/ handle[g] # None \/ g \in released \/ Class[g] \in spoilt

(* A context makes a guard thread when no other one of that guard runs:    *)
(* setup() has reset ended, which would keep the old one going.            *)
NoRevival ==
  [][\A g \in Guards : handle'[g] \notin {None, handle[g]} =>
       LoopOf(g) = {} \/ Class[g] \in spoilt]_vars

(* A context that is being left is left: the guard thread sees ended.      *)
LeavingEnds ==
  \A t \in Threads :
    InContext(t, "leaving") ~> ~InContext(t, "leaving") \/ Class[Top(t)] \in spoilt
=============================================================================
