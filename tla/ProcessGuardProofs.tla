--------------------------- MODULE ProcessGuardProofs ---------------------------
(***************************************************************************)
(* Contexts are never nested, types are registered for a reason, and       *)
(* guards interrupt nothing but their own contexts: for any number of      *)
(* guards, classes and threads, as long as no guard of the class was       *)
(* destroyed while another one was in use.                                 *)
(***************************************************************************)
EXTENDS ProcessGuard, TLAPS, SequenceTheorems

Places(t) == 1 .. Len(stack[t])
G(t, i) == stack[t][i].guard

(* Nobody has removed the name of g's class but those that registered it.  *)
Sound(g) == Class[g] \notin spoilt

FramesRegistered ==
  \A t \in Threads : \A i \in Places(t) : Sound(G(t, i)) => Class[G(t, i)] \in registry

FramesDiffer ==
  \A t, u \in Threads : \A i \in Places(t), j \in Places(u) :
    Sound(G(t, i)) /\ Class[G(t, i)] = Class[G(u, j)] => t = u /\ i = j

HandlesRegistered ==
  \A g \in Guards : Sound(g) /\ handle[g] # None => Class[g] \in registry

(* A guard that has a thread is alone in its class.                        *)
HandlesDiffer ==
  \A g, h \in Guards :
    Sound(g) /\ handle[g] # None /\ Class[g] = Class[h] /\ g # h =>
      handle[h] = None /\ \A t \in Threads : \A i \in Places(t) : G(t, i) # h

FramesHandled ==
  \A t \in Threads : \A i \in Places(t) : Sound(G(t, i)) =>
    /\ stack[t][i].pc = "entering" => handle[G(t, i)] = None
    /\ stack[t][i].pc \in {"starting", "leaving"} => stack[t][i].thread = handle[G(t, i)]

(* A thread that is being started is its context's.                        *)
StartsOwn ==
  \A t \in Threads : \A i \in Places(t) : stack[t][i].pc = "starting" =>
    /\ stack[t][i].thread \in Loops
    /\ loop[stack[t][i].thread].pc # "over" =>
         /\ loop[stack[t][i].thread].guard = G(t, i)
         /\ loop[stack[t][i].thread].target = t

(* A running loop is its guard's, and targets the thread in its context.   *)
LoopsHandled ==
  \A l \in Loops : Runs(l) /\ Sound(loop[l].guard) =>
    /\ handle[loop[l].guard] = l
    /\ \A t \in Threads : \A i \in Places(t) : G(t, i) = loop[l].guard => t = loop[l].target

PendingHandled ==
  \A t \in Threads : exc[t] # None /\ Sound(exc[t]) =>
    \/ exc[t] \in released
    \/ /\ handle[exc[t]] # None
       /\ \A u \in Threads : \A i \in Places(u) : G(u, i) = exc[t] => u = t

ReleasedIdle == \A t \in Threads : \A i \in Places(t) : G(t, i) \notin released

Reasons ==
  \A c \in registry :
    c \in cut \/ \E t \in Threads : \E i \in Places(t) : Class[G(t, i)] = c

GuardInv ==
  /\ TypeOK
  /\ FramesRegistered /\ FramesDiffer
  /\ HandlesRegistered /\ HandlesDiffer
  /\ FramesHandled /\ StartsOwn /\ LoopsHandled /\ PendingHandled
  /\ ReleasedIdle /\ Reasons
-----------------------------------------------------------------------------
(***************************************************************************)
(* What the stack operations do to the places of frames.                   *)
(***************************************************************************)

(* The innermost frame of a stack that is not empty.                       *)
LEMMA TopIsFirst ==
  ASSUME TypeOK, NEW t \in Threads, stack[t] # << >>
  PROVE  1 \in Places(t) /\ Top(t) = G(t, 1) /\ Thread(t) = stack[t][1].thread
         /\ Head(stack[t]).pc = stack[t][1].pc /\ Top(t) \in Guards
PROOF
<1>1. stack[t] \in Seq(Frame)
  BY DEF TypeOK
<1>2. Len(stack[t]) \in Nat \ {0}
  BY <1>1, EmptySeq
<1>3. Head(stack[t]) = stack[t][1]
  BY <1>1
<1>4. stack[t][1] \in Frame
  BY <1>1, <1>2, ElementOfSeq
<1> QED
  BY <1>2, <1>3, <1>4 DEF Places, Top, G, Thread, Frame

(* Tail moves every frame of t up by one place.                            *)
LEMMA Popped ==
  ASSUME TypeOK, NEW t \in Threads, stack[t] # << >>, stack' = Pop(t)
  PROVE  /\ stack' \in [Threads -> Seq(Frame)]
         /\ \A i \in Places(t)' : i + 1 \in Places(t) /\ stack'[t][i] = stack[t][i + 1]
         /\ \A i \in Places(t) : i # 1 => i - 1 \in Places(t)' /\ stack'[t][i - 1] = stack[t][i]
         /\ \A u \in Threads \ {t} : stack'[u] = stack[u]
PROOF
<1>1. stack \in [Threads -> Seq(Frame)] /\ stack[t] \in Seq(Frame)
  BY DEF TypeOK
<1>2. /\ Tail(stack[t]) \in Seq(Frame)
      /\ Len(Tail(stack[t])) = Len(stack[t]) - 1
      /\ \A i \in 1 .. Len(Tail(stack[t])) : Tail(stack[t])[i] = stack[t][i + 1]
  BY <1>1, HeadTailProperties
<1>3. stack' = [stack EXCEPT ![t] = Tail(stack[t])]
  BY <1>1 DEF Pop
<1>4. stack'[t] = Tail(stack[t]) /\ \A u \in Threads \ {t} : stack'[u] = stack[u]
  BY <1>1, <1>3
<1>5. Len(stack[t]) \in Nat /\ Len(Tail(stack[t])) \in Nat
  BY <1>1, <1>2, LenProperties
<1> QED
  BY <1>1, <1>2, <1>3, <1>4, <1>5 DEF Places

(* A frame in front of the others.                                         *)
LEMMA Pushed ==
  ASSUME TypeOK, NEW t \in Threads, NEW f \in Frame,
         stack' = [stack EXCEPT ![t] = <<f>> \o @]
  PROVE  /\ stack' \in [Threads -> Seq(Frame)]
         /\ 1 \in Places(t)' /\ stack'[t][1] = f
         /\ \A i \in Places(t)' : i # 1 => i - 1 \in Places(t) /\ stack'[t][i] = stack[t][i - 1]
         /\ \A i \in Places(t) : i + 1 \in Places(t)' /\ stack'[t][i + 1] = stack[t][i]
         /\ \A u \in Threads \ {t} : stack'[u] = stack[u]
PROOF
<1>1. stack \in [Threads -> Seq(Frame)] /\ stack[t] \in Seq(Frame)
  BY DEF TypeOK
<1>2. <<f>> \in Seq(Frame) /\ Len(<<f>>) = 1 /\ <<f>>[1] = f
  OBVIOUS
<1>3. /\ <<f>> \o stack[t] \in Seq(Frame)
      /\ Len(<<f>> \o stack[t]) = 1 + Len(stack[t])
      /\ \A i \in 1 .. 1 + Len(stack[t]) :
           (<<f>> \o stack[t])[i] = IF i <= 1 THEN <<f>>[i] ELSE stack[t][i - 1]
  BY <1>1, <1>2, ConcatProperties
<1>4. stack' = [stack EXCEPT ![t] = <<f>> \o stack[t]]
  BY <1>1
<1>5. stack'[t] = <<f>> \o stack[t] /\ \A u \in Threads \ {t} : stack'[u] = stack[u]
  BY <1>1, <1>4
<1>6. Len(stack[t]) \in Nat
  BY <1>1, LenProperties
<1> QED
  BY <1>1, <1>2, <1>3, <1>4, <1>5, <1>6 DEF Places

(* The innermost frame is replaced.                                        *)
LEMMA Replaced ==
  ASSUME TypeOK, NEW t \in Threads, stack[t] # << >>, NEW f \in Frame, stack' = Replace(t, f)
  PROVE  /\ stack' \in [Threads -> Seq(Frame)]
         /\ \A u \in Threads : Places(u)' = Places(u)
         /\ stack'[t][1] = f
         /\ \A u \in Threads : \A i \in Places(u) :
              ~(u = t /\ i = 1) => stack'[u][i] = stack[u][i]
PROOF
<1>1. stack \in [Threads -> Seq(Frame)] /\ stack[t] \in Seq(Frame)
  BY DEF TypeOK
<1>2. /\ Tail(stack[t]) \in Seq(Frame)
      /\ Len(Tail(stack[t])) = Len(stack[t]) - 1
      /\ \A i \in 1 .. Len(Tail(stack[t])) : Tail(stack[t])[i] = stack[t][i + 1]
  BY <1>1, HeadTailProperties
<1>3. <<f>> \in Seq(Frame) /\ Len(<<f>>) = 1 /\ <<f>>[1] = f
  OBVIOUS
<1>4. /\ <<f>> \o Tail(stack[t]) \in Seq(Frame)
      /\ Len(<<f>> \o Tail(stack[t])) = 1 + Len(Tail(stack[t]))
      /\ \A i \in 1 .. 1 + Len(Tail(stack[t])) :
           (<<f>> \o Tail(stack[t]))[i] = IF i <= 1 THEN <<f>>[i] ELSE Tail(stack[t])[i - 1]
  BY <1>2, <1>3, ConcatProperties
<1>5. stack' = [stack EXCEPT ![t] = <<f>> \o Tail(stack[t])]
  BY <1>1 DEF Replace
<1>6. stack'[t] = <<f>> \o Tail(stack[t]) /\ \A u \in Threads \ {t} : stack'[u] = stack[u]
  BY <1>1, <1>5
<1>7. Len(stack[t]) \in Nat \ {0}
  BY <1>1, EmptySeq
<1> QED
  BY <1>1, <1>2, <1>3, <1>4, <1>5, <1>6, <1>7 DEF Places
-----------------------------------------------------------------------------
(***************************************************************************)
(* Every action preserves the invariant.                                   *)
(***************************************************************************)

(* The invariant is about states, so stuttering preserves it.              *)
LEMMA StutterKeeps == ASSUME GuardInv, UNCHANGED vars PROVE GuardInv'
PROOF
<1>1. TypeOK' /\ FramesRegistered' /\ FramesDiffer' /\ HandlesRegistered' /\ HandlesDiffer'
  BY DEF GuardInv, vars, TypeOK, FramesRegistered, FramesDiffer, HandlesRegistered,
         HandlesDiffer, Places, G, Sound
<1>2. FramesHandled' /\ StartsOwn' /\ LoopsHandled' /\ PendingHandled'
  BY DEF GuardInv, vars, FramesHandled, StartsOwn, LoopsHandled, PendingHandled, Places, G,
         Sound, Runs
<1>3. ReleasedIdle' /\ Reasons'
  BY DEF GuardInv, vars, ReleasedIdle, Reasons, Places, G
<1> QED
  BY <1>1, <1>2, <1>3 DEF GuardInv

(* Frames are about guards.                                                *)
LEMMA PlacesHoldGuards ==
  ASSUME TypeOK, NEW t \in Threads, NEW i \in Places(t)
  PROVE  stack[t][i] \in Frame /\ G(t, i) \in Guards
PROOF
<1>1. stack[t] \in Seq(Frame)
  BY DEF TypeOK
<1>2. stack[t][i] \in Frame
  BY <1>1, ElementOfSeq DEF Places
<1> QED
  BY <1>2 DEF G, Frame

(* A running loop has a guard and a target.                                *)
LEMMA RunningLoop ==
  ASSUME TypeOK, NEW l \in Loops, loop[l].pc # "over"
  PROVE  loop[l] \in [pc : {"made", "started", "wait", "send"}, guard : Guards, target : Threads]
PROOF
BY DEF TypeOK, Idle

(* A guard is in a context when a frame of a stack is about it.            *)
LEMMA InIsPlace ==
  ASSUME TypeOK, NEW g
  PROVE  In(g) <=> \E t \in Threads : \E i \in Places(t) : G(t, i) = g
PROOF
<1>1. \A t \in Threads : DOMAIN stack[t] = Places(t)
  BY LenProperties DEF TypeOK, Places
<1> QED
  BY <1>1 DEF In, Frames, G

(* No context, no guard thread and no running loop of a class that is not  *)
(* registered.                                                             *)
LEMMA UnregisteredIsIdle ==
  ASSUME GuardInv, NEW g \in Guards, Class[g] \notin registry, Sound(g)
  PROVE  /\ handle[g] = None /\ LoopOf(g) = {}
         /\ \A t \in Threads : \A i \in Places(t) : Class[G(t, i)] # Class[g]
         /\ \A h \in Guards : Class[h] = Class[g] => handle[h] = None
         /\ \A t \in Threads : exc[t] = g => g \in released
PROOF
<1>1. handle[g] = None
  BY DEF GuardInv, HandlesRegistered
<1>2. None \notin Guards \cup Loops
  BY GuardAssumption
<1>3. LoopOf(g) = {}
  BY <1>1, <1>2 DEF GuardInv, LoopsHandled, LoopOf
<1>4. \A t \in Threads : exc[t] = g => g \in released
  BY <1>1, <1>2 DEF GuardInv, PendingHandled
<1>5. /\ \A t \in Threads : \A i \in Places(t) : Class[G(t, i)] # Class[g]
      /\ \A h \in Guards : Class[h] = Class[g] => handle[h] = None
  BY DEF GuardInv, FramesRegistered, HandlesRegistered, Sound
<1> QED
  BY <1>1, <1>3, <1>4, <1>5

(* Entering a context takes a class that is idle.                          *)
LEMMA EnterKeeps ==
  ASSUME GuardInv, NEW t \in Threads, NEW g \in Guards, Enter(t, g)
  PROVE  GuardInv'
PROOF
<1> DEFINE f == [guard |-> g, pc |-> "entering", thread |-> None]
<1>1. TypeOK
  BY DEF GuardInv
<1>2. f \in Frame
  BY DEF Frame
<1>3. stack' = [stack EXCEPT ![t] = <<f>> \o @]
  BY DEF Enter
<1>4. f.guard = g /\ f.pc = "entering"
  OBVIOUS
<1> HIDE DEF f
<1>5. /\ stack' \in [Threads -> Seq(Frame)]
      /\ 1 \in Places(t)' /\ stack'[t][1] = f
      /\ \A i \in Places(t)' : i # 1 => i - 1 \in Places(t) /\ stack'[t][i] = stack[t][i - 1]
      /\ \A i \in Places(t) : i + 1 \in Places(t)' /\ stack'[t][i + 1] = stack[t][i]
      /\ \A u \in Threads \ {t} : stack'[u] = stack[u]
  BY <1>1, <1>2, <1>3, Pushed
<1>6. \A u \in Threads \ {t} : Places(u)' = Places(u)
  BY <1>5 DEF Places
<1>7. /\ Class[g] \notin registry /\ registry' = registry \cup {Class[g]}
      /\ ended' = [ended EXCEPT ![g] = FALSE]
      /\ g \notin released
      /\ UNCHANGED <<handle, loop, exc, sig, released, platform, cut, spoilt>>
  BY DEF Enter, Setup
<1>8. \A h : Sound(h)' <=> Sound(h)
  BY <1>7 DEF Sound
<1>9. Sound(g) =>
        /\ handle[g] = None /\ LoopOf(g) = {}
        /\ \A u \in Threads : \A i \in Places(u) : Class[G(u, i)] # Class[g]
        /\ \A h \in Guards : Class[h] = Class[g] => handle[h] = None
        /\ \A u \in Threads : exc[u] = g => g \in released
  BY <1>7, UnregisteredIsIdle
<1>10. \A u \in Threads : \A i \in Places(u)' :
         \/ u = t /\ i = 1
         \/ \E j \in Places(u) : stack'[u][i] = stack[u][j] /\ G(u, i)' = G(u, j)
  BY <1>5, <1>6 DEF G
<1>11. G(t, 1)' = g /\ stack'[t][1].pc = "entering"
  BY <1>4, <1>5 DEF G
<1>12. TypeOK'
  <2>1. registry' \subseteq Classes
    <3>1. registry \subseteq Classes /\ Class[g] \in Classes
      BY <1>1, GuardAssumption DEF TypeOK
    <3> QED
      BY <1>7, <3>1
  <2>2. ended' \in [Guards -> BOOLEAN]
    BY <1>1, <1>7 DEF TypeOK
  <2> QED
    BY <1>1, <1>5, <1>7, <2>1, <2>2 DEF TypeOK
<1>13. FramesRegistered'
  BY <1>7, <1>8, <1>10, <1>11 DEF GuardInv, FramesRegistered
<1>14. FramesDiffer'
  <2> SUFFICES ASSUME NEW u \in Threads, NEW v \in Threads,
                      NEW i \in Places(u)', NEW j \in Places(v)',
                      Sound(G(u, i)'), Class[G(u, i)'] = Class[G(v, j)']
               PROVE  u = v /\ i = j
    BY <1>8 DEF FramesDiffer
  <2> DEFINE Old(w, k) == ~(w = t /\ k = 1)
             Was(w, k) == IF w = t THEN k - 1 ELSE k
  <2>1. \A w \in Threads : \A k \in Places(w)' :
          Old(w, k) => Was(w, k) \in Places(w) /\ G(w, k)' = G(w, Was(w, k))
    BY <1>5, <1>6 DEF G
  <2>2. CASE Old(u, i) /\ Old(v, j)
    <3>1. u = v /\ Was(u, i) = Was(v, j)
      BY <2>1, <2>2 DEF GuardInv, FramesDiffer
    <3> QED
      BY <3>1 DEF Places
  <2>3. CASE Old(u, i) # Old(v, j)
    <3>1. Sound(g)
      BY <2>3, <1>11 DEF Sound
    <3> QED
      BY <2>1, <2>3, <3>1, <1>9, <1>11
  <2>4. CASE ~Old(u, i) /\ ~Old(v, j)
    BY <2>4
  <2> QED
    BY <2>2, <2>3, <2>4
<1>15. HandlesRegistered'
  BY <1>7, <1>8 DEF GuardInv, HandlesRegistered
<1>16. HandlesDiffer'
  <2> SUFFICES ASSUME NEW h \in Guards, NEW k \in Guards,
                      Sound(h), handle[h] # None, Class[h] = Class[k], h # k
               PROVE  handle[k] = None /\ \A u \in Threads : \A i \in Places(u)' : G(u, i)' # k
    BY <1>7, <1>8 DEF HandlesDiffer
  <2>1. handle[k] = None /\ \A u \in Threads : \A i \in Places(u) : G(u, i) # k
    BY DEF GuardInv, HandlesDiffer
  <2>2. k # g
    <3>1. Class[h] \in registry
      BY DEF GuardInv, HandlesRegistered
    <3> QED
      BY <3>1, <1>7
  <2> QED
    BY <2>1, <2>2, <1>10, <1>11
<1>17. FramesHandled'
  <2> SUFFICES ASSUME NEW u \in Threads, NEW i \in Places(u)', Sound(G(u, i)')
               PROVE  /\ stack'[u][i].pc = "entering" => handle[G(u, i)'] = None
                      /\ stack'[u][i].pc \in {"starting", "leaving"} =>
                           stack'[u][i].thread = handle[G(u, i)']
    BY <1>7, <1>8 DEF FramesHandled, G
  <2>1. CASE u = t /\ i = 1
    BY <2>1, <1>9, <1>11
  <2>2. CASE \E j \in Places(u) : stack'[u][i] = stack[u][j] /\ G(u, i)' = G(u, j)
    BY <2>2 DEF GuardInv, FramesHandled
  <2> QED
    BY <1>10, <2>1, <2>2
<1>18. StartsOwn'
  BY <1>7, <1>10, <1>11 DEF GuardInv, StartsOwn
<1>19. LoopsHandled'
  <2> SUFFICES ASSUME NEW k \in Loops, Runs(k), Sound(loop[k].guard)
               PROVE  /\ handle[loop[k].guard] = k
                      /\ \A u \in Threads : \A i \in Places(u)' :
                           G(u, i)' = loop[k].guard => u = loop[k].target
    BY <1>7, <1>8 DEF LoopsHandled, G, Runs
  <2>1. loop[k].guard # g
    BY <1>9 DEF LoopOf
  <2> QED
    BY <2>1, <1>10, <1>11 DEF GuardInv, LoopsHandled
<1>20. PendingHandled'
  <2> SUFFICES ASSUME NEW u \in Threads, exc[u] # None, Sound(exc[u]), exc[u] \notin released
               PROVE  /\ handle[exc[u]] # None
                      /\ \A v \in Threads : \A i \in Places(v)' : G(v, i)' = exc[u] => v = u
    BY <1>7, <1>8 DEF PendingHandled, G
  <2>1. exc[u] # g
    BY <1>9
  <2>2. /\ handle[exc[u]] # None
        /\ \A v \in Threads : \A i \in Places(v) : G(v, i) = exc[u] => v = u
    BY DEF GuardInv, PendingHandled
  <2> QED
    BY <2>1, <2>2, <1>10, <1>11
<1>21. ReleasedIdle'
  BY <1>7, <1>10, <1>11 DEF GuardInv, ReleasedIdle
<1>22. Reasons'
  <2> SUFFICES ASSUME NEW c \in registry', c \notin cut
               PROVE  \E u \in Threads : \E i \in Places(u)' : Class[G(u, i)'] = c
    BY <1>7 DEF Reasons
  <2>1. CASE c = Class[g]
    BY <2>1, <1>5, <1>11
  <2>2. CASE c # Class[g]
    <3>1. PICK u \in Threads : \E i \in Places(u) : Class[G(u, i)] = c
      BY <2>2, <1>7 DEF GuardInv, Reasons
    <3>2. \A i \in Places(u) : \E j \in Places(u)' : G(u, j)' = G(u, i)
      BY <1>5, <1>6 DEF G
    <3> QED
      BY <3>1, <3>2
  <2> QED
    BY <2>1, <2>2
<1> QED
  BY <1>12, <1>13, <1>14, <1>15, <1>16, <1>17, <1>18, <1>19, <1>20, <1>21, <1>22 DEF GuardInv

(* What is left on the stack after the innermost frame of t is gone.       *)
LEMMA PoppedFrames ==
  ASSUME GuardInv, NEW t \in Threads, stack[t] # << >>, stack' = Pop(t)
  PROVE  /\ stack' \in [Threads -> Seq(Frame)]
         /\ \A u \in Threads : \A i \in Places(u)' :
              \E j \in Places(u) : stack'[u][i] = stack[u][j] /\ ~(u = t /\ j = 1)
         /\ \A u \in Threads : \A j \in Places(u) : ~(u = t /\ j = 1) =>
              \E i \in Places(u)' : stack'[u][i] = stack[u][j]
         /\ (spoilt' = spoilt) => FramesDiffer'
PROOF
<1>1. TypeOK
  BY DEF GuardInv
<1>2. /\ stack' \in [Threads -> Seq(Frame)]
      /\ \A i \in Places(t)' : i + 1 \in Places(t) /\ stack'[t][i] = stack[t][i + 1]
      /\ \A i \in Places(t) : i # 1 => i - 1 \in Places(t)' /\ stack'[t][i - 1] = stack[t][i]
      /\ \A u \in Threads \ {t} : stack'[u] = stack[u]
  BY <1>1, Popped
<1>3. \A u \in Threads \ {t} : Places(u)' = Places(u)
  BY <1>2 DEF Places
<1>4. \A i \in Places(t)' : i + 1 # 1
  BY DEF Places
<1>5. ASSUME spoilt' = spoilt PROVE FramesDiffer'
  <2> SUFFICES ASSUME NEW u \in Threads, NEW v \in Threads,
                      NEW i \in Places(u)', NEW j \in Places(v)',
                      Sound(G(u, i)'), Class[G(u, i)'] = Class[G(v, j)']
               PROVE  u = v /\ i = j
    BY <1>5 DEF FramesDiffer, Sound
  <2> DEFINE Was(w, k) == IF w = t THEN k + 1 ELSE k
  <2>1. \A w \in Threads : \A k \in Places(w)' :
          Was(w, k) \in Places(w) /\ G(w, k)' = G(w, Was(w, k))
    BY <1>2, <1>3 DEF G
  <2>2. u = v /\ Was(u, i) = Was(v, j)
    BY <2>1 DEF GuardInv, FramesDiffer
  <2> QED
    BY <2>2 DEF Places
<1>6. ASSUME NEW u \in Threads, NEW i \in Places(u)'
      PROVE  \E j \in Places(u) : stack'[u][i] = stack[u][j] /\ ~(u = t /\ j = 1)
  <2>1. CASE u = t
    <3>1. i + 1 \in Places(t) /\ stack'[t][i] = stack[t][i + 1] /\ i + 1 # 1
      BY <2>1, <1>2, <1>4
    <3> QED
      BY <2>1, <3>1
  <2>2. CASE u # t
    <3>1. i \in Places(u) /\ stack'[u][i] = stack[u][i]
      BY <2>2, <1>2, <1>3
    <3> QED
      BY <2>2, <3>1
  <2> QED
    BY <2>1, <2>2
<1>7. ASSUME NEW u \in Threads, NEW j \in Places(u), ~(u = t /\ j = 1)
      PROVE  \E i \in Places(u)' : stack'[u][i] = stack[u][j]
  <2>1. CASE u = t
    <3>1. j - 1 \in Places(t)' /\ stack'[t][j - 1] = stack[t][j]
      BY <2>1, <1>2, <1>7
    <3> QED
      BY <2>1, <3>1
  <2>2. CASE u # t
    <3>1. j \in Places(u)' /\ stack'[u][j] = stack[u][j]
      BY <2>2, <1>2, <1>3
    <3> QED
      BY <3>1
  <2> QED
    BY <2>1, <2>2
<1> QED
  BY <1>2, <1>5, <1>6, <1>7

(* A context that is cut short stays registered, for the reason that it    *)
(* was.                                                                    *)
LEMMA CutShortKeeps ==
  ASSUME GuardInv, NEW t \in Threads, stack[t] # << >>, CutShort(t),
         exc' \in [Threads -> Guards \cup {None}], sig' \subseteq Guards,
         \A u \in Threads : exc'[u] = exc[u] \/ exc'[u] = None,
         UNCHANGED <<registry, ended, handle, loop, released, platform, spoilt>>
  PROVE  GuardInv'
PROOF
<1>1. TypeOK
  BY DEF GuardInv
<1>2. stack' = Pop(t) /\ cut' = cut \cup {Class[Top(t)]}
  BY DEF CutShort
<1>3. 1 \in Places(t) /\ Top(t) = G(t, 1) /\ Top(t) \in Guards
  BY <1>1, TopIsFirst
<1>4. /\ stack' \in [Threads -> Seq(Frame)]
      /\ \A u \in Threads : \A i \in Places(u)' :
           \E j \in Places(u) : stack'[u][i] = stack[u][j] /\ ~(u = t /\ j = 1)
      /\ \A u \in Threads : \A j \in Places(u) : ~(u = t /\ j = 1) =>
           \E i \in Places(u)' : stack'[u][i] = stack[u][j]
      /\ (spoilt' = spoilt) => FramesDiffer'
  BY <1>2, PoppedFrames
<1>5. \A u \in Threads : \A i \in Places(u)' :
        \E j \in Places(u) : stack'[u][i] = stack[u][j] /\ G(u, i)' = G(u, j)
  BY <1>4 DEF G
<1>6. \A h : Sound(h)' <=> Sound(h)
  BY DEF Sound
<1>7. TypeOK'
  <2>1. cut' \subseteq Classes
    BY <1>1, <1>2, <1>3, GuardAssumption DEF TypeOK
  <2> QED
    BY <1>1, <1>4, <2>1 DEF TypeOK
<1>8. FramesRegistered' /\ HandlesRegistered'
  BY <1>5, <1>6 DEF GuardInv, FramesRegistered, HandlesRegistered
<1>9. HandlesDiffer'
  <2> SUFFICES ASSUME NEW h \in Guards, NEW k \in Guards,
                      Sound(h), handle[h] # None, Class[h] = Class[k], h # k
               PROVE  handle[k] = None /\ \A u \in Threads : \A i \in Places(u)' : G(u, i)' # k
    BY <1>6 DEF HandlesDiffer
  <2>1. handle[k] = None /\ \A u \in Threads : \A i \in Places(u) : G(u, i) # k
    BY DEF GuardInv, HandlesDiffer
  <2> QED
    BY <2>1, <1>5
<1>10. FramesHandled'
  <2> SUFFICES ASSUME NEW u \in Threads, NEW i \in Places(u)', Sound(G(u, i)')
               PROVE  /\ stack'[u][i].pc = "entering" => handle[G(u, i)'] = None
                      /\ stack'[u][i].pc \in {"starting", "leaving"} =>
                           stack'[u][i].thread = handle[G(u, i)']
    BY <1>6 DEF FramesHandled, G
  <2>1. PICK j \in Places(u) : stack'[u][i] = stack[u][j] /\ G(u, i)' = G(u, j)
    BY <1>5
  <2> QED
    BY <2>1 DEF GuardInv, FramesHandled
<1>11. StartsOwn'
  BY <1>5 DEF GuardInv, StartsOwn
<1>12. LoopsHandled'
  BY <1>5, <1>6 DEF GuardInv, LoopsHandled, Runs
<1>13. PendingHandled'
  <2> SUFFICES ASSUME NEW u \in Threads, exc'[u] # None, Sound(exc[u]), exc[u] \notin released
               PROVE  /\ handle[exc[u]] # None
                      /\ \A v \in Threads : \A i \in Places(v)' : G(v, i)' = exc[u] => v = u
    BY <1>6 DEF PendingHandled, G
  <2>1. /\ handle[exc[u]] # None
        /\ \A v \in Threads : \A i \in Places(v) : G(v, i) = exc[u] => v = u
    BY DEF GuardInv, PendingHandled
  <2> QED
    BY <2>1, <1>5
<1>14. ReleasedIdle'
  BY <1>5 DEF GuardInv, ReleasedIdle
<1>15. Reasons'
  <2> SUFFICES ASSUME NEW c \in registry, c \notin cut'
               PROVE  \E u \in Threads : \E i \in Places(u)' : Class[G(u, i)'] = c
    BY DEF Reasons
  <2>1. PICK u \in Threads : \E j \in Places(u) : Class[G(u, j)] = c
    BY <1>2 DEF GuardInv, Reasons
  <2>2. PICK j \in Places(u) : Class[G(u, j)] = c
    BY <2>1
  <2>3. ~(u = t /\ j = 1)
    BY <2>2, <1>2, <1>3
  <2>4. \E i \in Places(u)' : stack'[u][i] = stack[u][j]
    BY <2>3, <1>4
  <2> QED
    BY <2>2, <2>4 DEF G
<1> QED
  BY <1>4, <1>7, <1>8, <1>9, <1>10, <1>11, <1>12, <1>13, <1>14, <1>15 DEF GuardInv

(* The platform has no MemGuard.                                           *)
LEMMA UnsupportedKeeps ==
  ASSUME GuardInv, NEW t \in Threads, Unsupported(t)
  PROVE  GuardInv'
PROOF
<1>1. TypeOK /\ stack[t] # << >>
  BY DEF GuardInv, Unsupported, InContext
<1> QED
  BY <1>1, CutShortKeeps DEF Unsupported, TypeOK

(* join() refuses a thread that has not begun to run.                      *)
LEMMA JoinFailsKeeps ==
  ASSUME GuardInv, NEW t \in Threads, JoinFails(t)
  PROVE  GuardInv'
PROOF
<1>1. TypeOK /\ stack[t] # << >>
  BY DEF GuardInv, JoinFails, InContext
<1> QED
  BY <1>1, CutShortKeeps DEF JoinFails, TypeOK

(* An interrupt changes nothing in user code, and cuts a context short     *)
(* anywhere else.                                                          *)
LEMMA InterruptedKeeps ==
  ASSUME GuardInv, NEW t \in Threads, Interrupted(t)
  PROVE  GuardInv'
PROOF
<1>1. TypeOK
  BY DEF GuardInv
<1>2. /\ exc' \in [Threads -> Guards \cup {None}] /\ sig' \subseteq Guards
      /\ \A u \in Threads : exc'[u] = exc[u] \/ exc'[u] = None
      /\ UNCHANGED <<registry, ended, handle, loop, released, platform, spoilt>>
  BY <1>1 DEF Interrupted, Raised, TypeOK
<1>3. CASE ~RunsUserCode(t)
  <2>1. stack[t] # << >> /\ CutShort(t)
    BY <1>3 DEF RunsUserCode, Interrupted
  <2> QED
    BY <1>2, <2>1, CutShortKeeps
<1>4. CASE RunsUserCode(t)
  <2>1. UNCHANGED <<stack, cut>>
    BY <1>4 DEF Interrupted
  <2>2. TypeOK'
    BY <1>1, <1>2, <2>1 DEF TypeOK
  <2>3. FramesRegistered' /\ FramesDiffer' /\ HandlesRegistered' /\ HandlesDiffer'
    BY <1>2, <2>1 DEF GuardInv, FramesRegistered, FramesDiffer, HandlesRegistered,
                      HandlesDiffer, Places, G, Sound
  <2>4. FramesHandled' /\ StartsOwn' /\ LoopsHandled'
    BY <1>2, <2>1 DEF GuardInv, FramesHandled, StartsOwn, LoopsHandled, Places, G, Sound, Runs
  <2>5. PendingHandled' /\ ReleasedIdle' /\ Reasons'
    BY <1>2, <2>1 DEF GuardInv, PendingHandled, ReleasedIdle, Reasons, Places, G, Sound
  <2> QED
    BY <2>2, <2>3, <2>4, <2>5 DEF GuardInv
<1> QED
  BY <1>3, <1>4

(* A frame of a sound class is alone in it.                                *)
LEMMA FrameAlone ==
  ASSUME GuardInv, NEW t \in Threads, stack[t] # << >>, Sound(Top(t))
  PROVE  /\ \A u \in Threads : \A i \in Places(u) :
              Class[G(u, i)] = Class[Top(t)] => u = t /\ i = 1
         /\ \A h \in Guards : handle[h] # None /\ Class[h] = Class[Top(t)] => h = Top(t)
PROOF
<1>1. 1 \in Places(t) /\ Top(t) = G(t, 1) /\ Top(t) \in Guards
  BY TopIsFirst DEF GuardInv
<1>2. \A u \in Threads : \A i \in Places(u) : Class[G(u, i)] = Class[Top(t)] => u = t /\ i = 1
  BY <1>1 DEF GuardInv, FramesDiffer
<1>3. \A h \in Guards : handle[h] # None /\ Class[h] = Class[Top(t)] => h = Top(t)
  BY <1>1 DEF GuardInv, HandlesDiffer, Sound
<1> QED
  BY <1>2, <1>3

(* The thread object of a context is new.                                  *)
LEMMA ConstructedKeeps ==
  ASSUME GuardInv, NEW t \in Threads, Constructed(t)
  PROVE  GuardInv'
PROOF
<1> DEFINE g == Top(t)
           l == CHOOSE l \in Unused : TRUE
           f == [guard |-> Top(t), pc |-> "starting", thread |-> l]
<1>1. TypeOK /\ stack[t] # << >> /\ Head(stack[t]).pc = "entering"
  BY DEF GuardInv, Constructed, InContext
<1>2. 1 \in Places(t) /\ g = G(t, 1) /\ g \in Guards /\ stack[t][1].pc = "entering"
  BY <1>1, TopIsFirst
<1>3. l \in Unused
  BY DEF Constructed
<1>4. /\ l \in Loops /\ ~Runs(l)
      /\ \A u \in Threads : \A i \in Places(u) : stack[u][i].thread # l
  <2>1. \A u \in Threads : DOMAIN stack[u] = Places(u)
    BY <1>1, LenProperties DEF TypeOK, Places
  <2> QED
    BY <1>3, <2>1 DEF Unused, Referred, Frames
<1>5. /\ handle' = [handle EXCEPT ![g] = l]
      /\ loop' = [loop EXCEPT ![l] = [pc |-> "made", guard |-> g, target |-> t]]
      /\ stack' = Replace(t, f)
      /\ UNCHANGED <<registry, cut, spoilt, ended, exc, sig, released, platform>>
  BY DEF Constructed, registration
<1>6. f \in Frame /\ f.guard = g /\ f.pc = "starting" /\ f.thread = l
  BY <1>2, <1>4 DEF Frame
<1>7. Sound(g) =>
        /\ \A u \in Threads : \A i \in Places(u) : Class[G(u, i)] = Class[g] => u = t /\ i = 1
        /\ \A h \in Guards : handle[h] # None /\ Class[h] = Class[g] => h = g
  BY <1>1, FrameAlone
<1> HIDE DEF g, l, f
<1>8. /\ stack' \in [Threads -> Seq(Frame)]
      /\ \A u \in Threads : Places(u)' = Places(u)
      /\ stack'[t][1] = f
      /\ \A u \in Threads : \A i \in Places(u) :
           ~(u = t /\ i = 1) => stack'[u][i] = stack[u][i]
  BY <1>1, <1>5, <1>6, Replaced
<1>9. \A u \in Threads : \A i \in Places(u) : G(u, i)' = G(u, i)
  BY <1>2, <1>6, <1>8 DEF G
<1>10. handle'[g] = l /\ \A h \in Guards \ {g} : handle'[h] = handle[h]
  BY <1>1, <1>2, <1>5 DEF TypeOK
<1>11. /\ loop'[l] = [pc |-> "made", guard |-> g, target |-> t]
       /\ \A k \in Loops \ {l} : loop'[k] = loop[k]
  BY <1>1, <1>4, <1>5 DEF TypeOK
<1>12. l # None
  BY <1>4, GuardAssumption
<1>13. \A h : Sound(h)' <=> Sound(h)
  BY <1>5 DEF Sound
<1>14. TypeOK'
  <2>1. handle' \in [Guards -> Loops \cup {None}]
    BY <1>1, <1>4, <1>5 DEF TypeOK
  <2>2. loop' \in [Loops -> {Idle} \cup
          [pc : {"made", "started", "wait", "send"}, guard : Guards, target : Threads]]
    BY <1>1, <1>2, <1>5 DEF TypeOK
  <2> QED
    BY <1>1, <1>5, <1>8, <2>1, <2>2 DEF TypeOK
<1>15. FramesRegistered' /\ FramesDiffer'
  BY <1>5, <1>8, <1>9, <1>13 DEF GuardInv, FramesRegistered, FramesDiffer
<1>16. HandlesRegistered'
  <2> SUFFICES ASSUME NEW h \in Guards, Sound(h), handle'[h] # None
               PROVE  Class[h] \in registry
    BY <1>5, <1>13 DEF HandlesRegistered
  <2>1. Sound(g) => Class[g] \in registry
    BY <1>2 DEF GuardInv, FramesRegistered
  <2> QED
    BY <2>1, <1>10 DEF GuardInv, HandlesRegistered
<1>17. HandlesDiffer'
  <2> SUFFICES ASSUME NEW h \in Guards, NEW k \in Guards,
                      Sound(h), handle'[h] # None, Class[h] = Class[k], h # k
               PROVE  handle'[k] = None /\ \A u \in Threads : \A i \in Places(u) : G(u, i) # k
    BY <1>8, <1>9, <1>13 DEF HandlesDiffer
  <2>1. CASE h = g
    BY <2>1, <1>2, <1>7, <1>10
  <2>2. CASE h # g
    <3>1. handle[k] = None /\ \A u \in Threads : \A i \in Places(u) : G(u, i) # k
      BY <2>2, <1>10 DEF GuardInv, HandlesDiffer
    <3>2. k # g
      BY <3>1, <1>2
    <3> QED
      BY <3>1, <3>2, <1>10
  <2> QED
    BY <2>1, <2>2
<1>18. FramesHandled'
  <2> SUFFICES ASSUME NEW u \in Threads, NEW i \in Places(u), Sound(G(u, i))
               PROVE  /\ stack'[u][i].pc = "entering" => handle'[G(u, i)] = None
                      /\ stack'[u][i].pc \in {"starting", "leaving"} =>
                           stack'[u][i].thread = handle'[G(u, i)]
    BY <1>8, <1>9, <1>13 DEF FramesHandled
  <2>1. CASE u = t /\ i = 1
    BY <2>1, <1>2, <1>6, <1>8, <1>10
  <2>2. CASE ~(u = t /\ i = 1)
    <3>1. G(u, i) # g
      BY <2>2, <1>7
    <3>2. G(u, i) \in Guards
      BY <1>1, PlacesHoldGuards
    <3> QED
      BY <2>2, <3>1, <3>2, <1>8, <1>10 DEF GuardInv, FramesHandled
  <2> QED
    BY <2>1, <2>2
<1>19. StartsOwn'
  <2> SUFFICES ASSUME NEW u \in Threads, NEW i \in Places(u), stack'[u][i].pc = "starting"
               PROVE  /\ stack'[u][i].thread \in Loops
                      /\ loop'[stack'[u][i].thread].pc # "over" =>
                           /\ loop'[stack'[u][i].thread].guard = G(u, i)
                           /\ loop'[stack'[u][i].thread].target = u
    BY <1>8, <1>9 DEF StartsOwn
  <2>1. CASE u = t /\ i = 1
    BY <2>1, <1>2, <1>4, <1>6, <1>8, <1>11
  <2>2. CASE ~(u = t /\ i = 1)
    <3>1. stack'[u][i] = stack[u][i] /\ stack[u][i].thread # l
      BY <2>2, <1>4, <1>8
    <3>2. stack[u][i].thread \in Loops
      BY <3>1 DEF GuardInv, StartsOwn
    <3>3. loop'[stack[u][i].thread] = loop[stack[u][i].thread]
      BY <3>1, <3>2, <1>11
    <3> QED
      BY <3>1, <3>3 DEF GuardInv, StartsOwn
  <2> QED
    BY <2>1, <2>2
<1>20. LoopsHandled'
  <2> SUFFICES ASSUME NEW k \in Loops, Runs(k)', Sound(loop'[k].guard)
               PROVE  /\ handle'[loop'[k].guard] = k
                      /\ \A u \in Threads : \A i \in Places(u) :
                           G(u, i) = loop'[k].guard => u = loop'[k].target
    BY <1>8, <1>9, <1>13 DEF LoopsHandled
  <2>1. k # l
    BY <1>11 DEF Runs
  <2>2. Runs(k) /\ loop'[k] = loop[k]
    BY <2>1, <1>11 DEF Runs
  <2>3. /\ handle[loop[k].guard] = k
        /\ \A u \in Threads : \A i \in Places(u) : G(u, i) = loop[k].guard => u = loop[k].target
    BY <2>2 DEF GuardInv, LoopsHandled
  <2>4. loop[k].guard \in Guards
    BY <1>1, <2>2, RunningLoop DEF Runs
  <2>5. loop[k].guard # g
    <3>1. Sound(g) => handle[g] = None
      BY <1>2 DEF GuardInv, FramesHandled
    <3>2. k # None
      BY GuardAssumption
    <3> QED
      BY <2>2, <2>3, <3>1, <3>2
  <2> QED
    BY <2>2, <2>3, <2>4, <2>5, <1>10
<1>21. PendingHandled'
  <2> SUFFICES ASSUME NEW u \in Threads, exc[u] # None, Sound(exc[u]), exc[u] \notin released
               PROVE  /\ handle'[exc[u]] # None
                      /\ \A v \in Threads : \A i \in Places(v) : G(v, i) = exc[u] => v = u
    BY <1>5, <1>8, <1>9, <1>13 DEF PendingHandled
  <2>1. /\ handle[exc[u]] # None
        /\ \A v \in Threads : \A i \in Places(v) : G(v, i) = exc[u] => v = u
    BY DEF GuardInv, PendingHandled
  <2>2. exc[u] \in Guards
    BY <1>1 DEF TypeOK
  <2> QED
    BY <2>1, <2>2, <1>10, <1>12
<1>22. ReleasedIdle' /\ Reasons'
  BY <1>5, <1>8, <1>9 DEF GuardInv, ReleasedIdle, Reasons
<1> QED
  BY <1>14, <1>15, <1>16, <1>17, <1>18, <1>19, <1>20, <1>21, <1>22 DEF GuardInv

(* The thread that starts is its context's.                                *)
LEMMA StartsKeeps ==
  ASSUME GuardInv, NEW t \in Threads, Starts(t)
  PROVE  GuardInv'
PROOF
<1> DEFINE g == Top(t)
           l == Thread(t)
<1>1. TypeOK /\ stack[t] # << >> /\ Head(stack[t]).pc = "starting"
  BY DEF GuardInv, Starts, InContext
<1>2. /\ 1 \in Places(t) /\ g = G(t, 1) /\ g \in Guards
      /\ stack[t][1].pc = "starting" /\ stack[t][1].thread = l
  BY <1>1, TopIsFirst
<1>3. /\ loop[l].pc = "made" /\ loop' = [loop EXCEPT ![l].pc = "started"]
      /\ UNCHANGED <<registry, cut, spoilt, ended, handle, stack, exc, sig, released, platform>>
  BY DEF Starts, registration, user
<1>4. l \in Loops /\ loop[l].guard = g /\ loop[l].target = t
  BY <1>2, <1>3 DEF GuardInv, StartsOwn
<1>5. Sound(g) =>
        /\ \A u \in Threads : \A i \in Places(u) : Class[G(u, i)] = Class[g] => u = t /\ i = 1
        /\ \A h \in Guards : handle[h] # None /\ Class[h] = Class[g] => h = g
  BY <1>1, FrameAlone
<1> HIDE DEF g, l
<1>6. loop[l] \in [pc : {"made", "started", "wait", "send"}, guard : Guards, target : Threads]
  BY <1>1, <1>3, <1>4, RunningLoop
<1>7. /\ loop'[l] = [loop[l] EXCEPT !.pc = "started"]
      /\ \A k \in Loops \ {l} : loop'[k] = loop[k]
  BY <1>1, <1>3, <1>4 DEF TypeOK
<1>8. /\ loop'[l].pc = "started" /\ loop'[l].guard = g /\ loop'[l].target = t
      /\ \A k \in Loops \ {l} : loop'[k] = loop[k]
  BY <1>4, <1>6, <1>7
<1>9. TypeOK'
  <2>1. [loop[l] EXCEPT !.pc = "started"] \in
          [pc : {"made", "started", "wait", "send"}, guard : Guards, target : Threads]
    BY <1>6
  <2>2. loop' = [loop EXCEPT ![l] = [loop[l] EXCEPT !.pc = "started"]]
    BY <1>1, <1>3 DEF TypeOK
  <2>3. loop' \in [Loops -> {Idle} \cup
          [pc : {"made", "started", "wait", "send"}, guard : Guards, target : Threads]]
    BY <1>1, <2>1, <2>2 DEF TypeOK
  <2> QED
    BY <1>1, <1>3, <2>3 DEF TypeOK
<1>10. FramesRegistered' /\ FramesDiffer' /\ HandlesRegistered' /\ HandlesDiffer'
  BY <1>3 DEF GuardInv, FramesRegistered, FramesDiffer, HandlesRegistered, HandlesDiffer,
              Places, G, Sound
<1>11. FramesHandled' /\ PendingHandled' /\ ReleasedIdle' /\ Reasons'
  BY <1>3 DEF GuardInv, FramesHandled, PendingHandled, ReleasedIdle, Reasons, Places, G, Sound
<1>12. StartsOwn'
  <2> SUFFICES ASSUME NEW u \in Threads, NEW i \in Places(u), stack[u][i].pc = "starting"
               PROVE  /\ stack[u][i].thread \in Loops
                      /\ loop'[stack[u][i].thread].pc # "over" =>
                           /\ loop'[stack[u][i].thread].guard = G(u, i)
                           /\ loop'[stack[u][i].thread].target = u
    BY <1>3 DEF StartsOwn, Places, G
  <2>1. /\ stack[u][i].thread \in Loops
        /\ loop[stack[u][i].thread].pc # "over" =>
             /\ loop[stack[u][i].thread].guard = G(u, i)
             /\ loop[stack[u][i].thread].target = u
    BY DEF GuardInv, StartsOwn
  <2>2. CASE stack[u][i].thread = l
    BY <2>1, <2>2, <1>3, <1>4, <1>8
  <2>3. CASE stack[u][i].thread # l
    BY <2>1, <2>3, <1>8
  <2> QED
    BY <2>2, <2>3
<1>13. LoopsHandled'
  <2> SUFFICES ASSUME NEW k \in Loops, Runs(k)', Sound(loop'[k].guard)
               PROVE  /\ handle[loop'[k].guard] = k
                      /\ \A u \in Threads : \A i \in Places(u) :
                           G(u, i) = loop'[k].guard => u = loop'[k].target
    BY <1>3 DEF LoopsHandled, Places, G, Sound
  <2>1. CASE k = l
    <3>1. Sound(g) /\ loop'[k].guard = g /\ loop'[k].target = t
      BY <2>1, <1>8
    <3>2. handle[g] = l
      BY <3>1, <1>2 DEF GuardInv, FramesHandled
    <3> QED
      BY <2>1, <3>1, <3>2, <1>5
  <2>2. CASE k # l
    <3>1. Runs(k) /\ loop'[k] = loop[k]
      BY <2>2, <1>8 DEF Runs
    <3> QED
      BY <3>1 DEF GuardInv, LoopsHandled
  <2> QED
    BY <2>1, <2>2
<1> QED
  BY <1>9, <1>10, <1>11, <1>12, <1>13 DEF GuardInv

(* The innermost frame changes what it does, not its guard.                *)
LEMMA ReplaceKeeps ==
  ASSUME GuardInv, NEW t \in Threads, stack[t] # << >>, NEW f \in Frame,
         stack' = Replace(t, f), f.guard = Top(t), f.pc \in {"body", "leaving"},
         f.pc = "leaving" => f.thread = handle[Top(t)],
         ended' \in [Guards -> BOOLEAN],
         UNCHANGED <<registry, cut, spoilt, handle, loop, exc, sig, released, platform>>
  PROVE  GuardInv'
PROOF
<1>1. TypeOK
  BY DEF GuardInv
<1>2. /\ stack' \in [Threads -> Seq(Frame)]
      /\ \A u \in Threads : Places(u)' = Places(u)
      /\ stack'[t][1] = f
      /\ \A u \in Threads : \A i \in Places(u) :
           ~(u = t /\ i = 1) => stack'[u][i] = stack[u][i]
  BY <1>1, Replaced
<1>3. \A u \in Threads : \A i \in Places(u) : G(u, i)' = G(u, i)
  BY <1>1, <1>2, TopIsFirst DEF G
<1>4. TypeOK'
  BY <1>1, <1>2 DEF TypeOK
<1>5. \A h : Sound(h)' <=> Sound(h)
  BY DEF Sound
<1>6. FramesRegistered' /\ FramesDiffer' /\ HandlesRegistered' /\ HandlesDiffer'
  BY <1>2, <1>3, <1>5 DEF GuardInv, FramesRegistered, FramesDiffer, HandlesRegistered,
                          HandlesDiffer
<1>7. FramesHandled'
  <2> SUFFICES ASSUME NEW u \in Threads, NEW i \in Places(u), Sound(G(u, i))
               PROVE  /\ stack'[u][i].pc = "entering" => handle[G(u, i)] = None
                      /\ stack'[u][i].pc \in {"starting", "leaving"} =>
                           stack'[u][i].thread = handle[G(u, i)]
    BY <1>2, <1>3, <1>5 DEF FramesHandled
  <2>1. CASE u = t /\ i = 1
    BY <2>1, <1>1, <1>2, TopIsFirst
  <2>2. CASE ~(u = t /\ i = 1)
    BY <2>2, <1>2 DEF GuardInv, FramesHandled
  <2> QED
    BY <2>1, <2>2
<1>8. StartsOwn'
  <2> SUFFICES ASSUME NEW u \in Threads, NEW i \in Places(u), stack'[u][i].pc = "starting"
               PROVE  /\ stack'[u][i].thread \in Loops
                      /\ loop[stack'[u][i].thread].pc # "over" =>
                           /\ loop[stack'[u][i].thread].guard = G(u, i)
                           /\ loop[stack'[u][i].thread].target = u
    BY <1>2, <1>3 DEF StartsOwn
  <2>1. stack'[u][i] = stack[u][i]
    BY <1>2
  <2> QED
    BY <2>1 DEF GuardInv, StartsOwn
<1>9. LoopsHandled' /\ PendingHandled' /\ ReleasedIdle' /\ Reasons'
  BY <1>2, <1>3, <1>5 DEF GuardInv, LoopsHandled, PendingHandled, ReleasedIdle, Reasons, Runs
<1> QED
  BY <1>4, <1>6, <1>7, <1>8, <1>9 DEF GuardInv

(* Thread.start() returns.                                                 *)
LEMMA StartedKeeps ==
  ASSUME GuardInv, NEW t \in Threads, Started(t)
  PROVE  GuardInv'
PROOF
<1> DEFINE f == [guard |-> Top(t), pc |-> "body", thread |-> None]
<1>1. TypeOK /\ stack[t] # << >>
  BY DEF GuardInv, Started, InContext
<1>2. f \in Frame /\ f.guard = Top(t) /\ f.pc = "body"
  BY <1>1, TopIsFirst DEF Frame
<1>3. stack' = Replace(t, f)
  BY DEF Started
<1> HIDE DEF f
<1> QED
  BY <1>1, <1>2, <1>3, ReplaceKeeps DEF Started, registration, TypeOK

(* finish() begins: the frame joins the guard's thread.                    *)
LEMMA LeaveKeeps ==
  ASSUME GuardInv, NEW t \in Threads, Leave(t)
  PROVE  GuardInv'
PROOF
<1> DEFINE f == [guard |-> Top(t), pc |-> "leaving", thread |-> handle[Top(t)]]
<1>1. TypeOK /\ stack[t] # << >>
  BY DEF GuardInv, Leave, InContext
<1>2. Top(t) \in Guards
  BY <1>1, TopIsFirst
<1>3. handle[Top(t)] \in Loops \cup {None}
  BY <1>1, <1>2 DEF TypeOK
<1>4. f \in Frame /\ f.guard = Top(t) /\ f.pc = "leaving" /\ f.thread = handle[Top(t)]
  BY <1>2, <1>3 DEF Frame
<1>5. stack' = Replace(t, f)
  BY DEF Leave
<1> HIDE DEF f
<1>6. ended' \in [Guards -> BOOLEAN]
  BY <1>1, <1>2 DEF Leave, TypeOK
<1> QED
  BY <1>1, <1>4, <1>5, <1>6, ReplaceKeeps DEF Leave, registration

(* Leaving a context undoes what entering it did, and nothing else.        *)
LEMMA JoinedKeeps ==
  ASSUME GuardInv, NEW t \in Threads, Joined(t)
  PROVE  GuardInv'
PROOF
<1> DEFINE g == Top(t)
<1>1. TypeOK /\ stack[t] # << >> /\ Head(stack[t]).pc = "leaving"
  BY DEF GuardInv, Joined, InContext
<1>2. /\ 1 \in Places(t) /\ g = G(t, 1) /\ g \in Guards
      /\ Sound(g) => Thread(t) = handle[g]
  BY <1>1, TopIsFirst DEF GuardInv, FramesHandled
<1>3. /\ handle' = [handle EXCEPT ![g] = None] /\ registry' = registry \ {Class[g]}
      /\ cut' = cut \ {Class[g]} /\ stack' = Pop(t)
      /\ UNCHANGED <<spoilt, ended, loop, exc, sig, released, platform>>
      /\ Thread(t) # None => ~Runs(Thread(t)) /\ exc[t] = None
  BY DEF Joined, FinishJoined, Runs, Pending
<1>4. Sound(g) =>
        /\ \A u \in Threads : \A i \in Places(u) : Class[G(u, i)] = Class[g] => u = t /\ i = 1
        /\ \A h \in Guards : handle[h] # None /\ Class[h] = Class[g] => h = g
  BY <1>1, FrameAlone
<1> HIDE DEF g
<1>5. /\ stack' \in [Threads -> Seq(Frame)]
      /\ \A u \in Threads : \A i \in Places(u)' :
           \E j \in Places(u) : stack'[u][i] = stack[u][j] /\ ~(u = t /\ j = 1)
      /\ \A u \in Threads : \A j \in Places(u) : ~(u = t /\ j = 1) =>
           \E i \in Places(u)' : stack'[u][i] = stack[u][j]
      /\ (spoilt' = spoilt) => FramesDiffer'
  BY <1>1, <1>3, PoppedFrames
<1>6. handle'[g] = None /\ \A h \in Guards \ {g} : handle'[h] = handle[h]
  BY <1>1, <1>2, <1>3 DEF TypeOK
<1>7. \A u \in Threads : \A i \in Places(u)' :
        \E j \in Places(u) : /\ stack'[u][i] = stack[u][j] /\ G(u, i)' = G(u, j)
                             /\ G(u, j) \in Guards
                             /\ Sound(G(u, j)) => Class[G(u, j)] # Class[g]
  <2> SUFFICES ASSUME NEW u \in Threads, NEW i \in Places(u)'
               PROVE  \E j \in Places(u) : /\ stack'[u][i] = stack[u][j] /\ G(u, i)' = G(u, j)
                                           /\ G(u, j) \in Guards
                                           /\ Sound(G(u, j)) => Class[G(u, j)] # Class[g]
    OBVIOUS
  <2>1. PICK j \in Places(u) : stack'[u][i] = stack[u][j] /\ ~(u = t /\ j = 1)
    BY <1>5
  <2>2. G(u, i)' = G(u, j) /\ G(u, j) \in Guards
    BY <1>1, <2>1, PlacesHoldGuards DEF G
  <2>3. Sound(G(u, j)) => Class[G(u, j)] # Class[g]
    BY <1>4, <2>1 DEF Sound
  <2> QED
    BY <2>1, <2>2, <2>3
<1>8. \A h : Sound(h)' <=> Sound(h)
  BY <1>3 DEF Sound
<1>9. TypeOK'
  BY <1>1, <1>3, <1>5 DEF TypeOK
<1>10. FramesRegistered'
  BY <1>3, <1>7, <1>8 DEF GuardInv, FramesRegistered
<1>11. HandlesRegistered'
  <2> SUFFICES ASSUME NEW h \in Guards, Sound(h), handle'[h] # None
               PROVE  Class[h] \in registry /\ Class[h] # Class[g]
    BY <1>3, <1>8 DEF HandlesRegistered
  <2>1. h # g /\ handle[h] # None
    BY <1>6
  <2> QED
    BY <2>1, <1>4 DEF GuardInv, HandlesRegistered, Sound
<1>12. HandlesDiffer'
  <2> SUFFICES ASSUME NEW h \in Guards, NEW k \in Guards,
                      Sound(h), handle'[h] # None, Class[h] = Class[k], h # k
               PROVE  handle'[k] = None /\ \A u \in Threads : \A i \in Places(u)' : G(u, i)' # k
    BY <1>8 DEF HandlesDiffer
  <2>1. handle[h] # None
    BY <1>6
  <2>2. handle[k] = None /\ \A u \in Threads : \A i \in Places(u) : G(u, i) # k
    BY <2>1 DEF GuardInv, HandlesDiffer
  <2> QED
    BY <2>2, <1>6, <1>7
<1>13. FramesHandled'
  <2> SUFFICES ASSUME NEW u \in Threads, NEW i \in Places(u)', Sound(G(u, i)')
               PROVE  /\ stack'[u][i].pc = "entering" => handle'[G(u, i)'] = None
                      /\ stack'[u][i].pc \in {"starting", "leaving"} =>
                           stack'[u][i].thread = handle'[G(u, i)']
    BY <1>8 DEF FramesHandled, G
  <2>1. PICK j \in Places(u) : /\ stack'[u][i] = stack[u][j] /\ G(u, i)' = G(u, j)
                               /\ G(u, j) \in Guards
                               /\ Sound(G(u, j)) => Class[G(u, j)] # Class[g]
    BY <1>7
  <2>2. handle'[G(u, j)] = handle[G(u, j)]
    BY <1>6, <2>1
  <2> QED
    BY <2>1, <2>2 DEF GuardInv, FramesHandled
<1>14. StartsOwn'
  BY <1>3, <1>7 DEF GuardInv, StartsOwn
<1>15. LoopsHandled'
  <2> SUFFICES ASSUME NEW k \in Loops, Runs(k), Sound(loop[k].guard)
               PROVE  /\ handle'[loop[k].guard] = k
                      /\ \A u \in Threads : \A i \in Places(u)' :
                           G(u, i)' = loop[k].guard => u = loop[k].target
    BY <1>3, <1>8 DEF LoopsHandled, G, Runs
  <2>1. /\ handle[loop[k].guard] = k
        /\ \A u \in Threads : \A i \in Places(u) : G(u, i) = loop[k].guard => u = loop[k].target
    BY DEF GuardInv, LoopsHandled
  <2>2. k # None
    BY GuardAssumption
  <2>3. loop[k].guard \in Guards
    BY <1>1, RunningLoop DEF Runs
  <2>4. loop[k].guard # g
    BY <1>2, <1>3, <2>1, <2>2
  <2> QED
    BY <1>6, <1>7, <2>1, <2>3, <2>4
<1>16. PendingHandled'
  <2> SUFFICES ASSUME NEW u \in Threads, exc[u] # None, Sound(exc[u]), exc[u] \notin released
               PROVE  /\ handle'[exc[u]] # None
                      /\ \A v \in Threads : \A i \in Places(v)' : G(v, i)' = exc[u] => v = u
    BY <1>3, <1>8 DEF PendingHandled, G
  <2>1. /\ handle[exc[u]] # None
        /\ \A v \in Threads : \A i \in Places(v) : G(v, i) = exc[u] => v = u
    BY DEF GuardInv, PendingHandled
  <2>2. exc[u] # g
    BY <1>2, <1>3, <2>1
  <2>3. exc[u] \in Guards
    BY <1>1 DEF TypeOK
  <2> QED
    BY <1>6, <1>7, <2>1, <2>2, <2>3
<1>17. ReleasedIdle'
  BY <1>3, <1>7 DEF GuardInv, ReleasedIdle
<1>18. Reasons'
  <2> SUFFICES ASSUME NEW c \in registry, c # Class[g], c \notin cut
               PROVE  \E u \in Threads : \E i \in Places(u)' : Class[G(u, i)'] = c
    BY <1>3 DEF Reasons
  <2>1. PICK u \in Threads : \E j \in Places(u) : Class[G(u, j)] = c
    BY DEF GuardInv, Reasons
  <2>2. PICK j \in Places(u) : Class[G(u, j)] = c
    BY <2>1
  <2>3. ~(u = t /\ j = 1)
    BY <2>2, <1>2
  <2>4. \E i \in Places(u)' : stack'[u][i] = stack[u][j]
    BY <2>3, <1>5
  <2> QED
    BY <2>2, <2>4 DEF G
<1> QED
  BY <1>3, <1>5, <1>9, <1>10, <1>11, <1>12, <1>13, <1>14, <1>15, <1>16, <1>17, <1>18 DEF GuardInv

(* A guard thread goes on or ends, and may interrupt its own context.      *)
LEMMA LoopMovesKeeps ==
  ASSUME GuardInv, NEW l \in Loops, Runs(l),
         loop' \in [Loops -> {Idle} \cup
            [pc : {"made", "started", "wait", "send"}, guard : Guards, target : Threads]],
         \A k \in Loops \ {l} : loop'[k] = loop[k],
         \/ loop'[l].pc = "over"
         \/ loop'[l].guard = loop[l].guard /\ loop'[l].target = loop[l].target,
         exc' \in [Threads -> Guards \cup {None}], sig' \subseteq Guards,
         \A u \in Threads :
            exc'[u] = exc[u] \/ (u = loop[l].target /\ exc'[u] = loop[l].guard),
         UNCHANGED <<registry, cut, spoilt, ended, handle, stack, released, platform>>
  PROVE  GuardInv'
PROOF
<1>1. TypeOK'
  BY DEF GuardInv, TypeOK
<1>2. FramesRegistered' /\ FramesDiffer' /\ HandlesRegistered' /\ HandlesDiffer'
  BY DEF GuardInv, FramesRegistered, FramesDiffer, HandlesRegistered, HandlesDiffer, Places, G,
         Sound
<1>3. FramesHandled' /\ ReleasedIdle' /\ Reasons'
  BY DEF GuardInv, FramesHandled, ReleasedIdle, Reasons, Places, G, Sound
<1>4. \A k \in Loops : loop'[k].pc # "over" =>
        /\ loop[k].pc # "over" /\ Runs(k)' => Runs(k)
        /\ loop'[k].guard = loop[k].guard /\ loop'[k].target = loop[k].target
  BY DEF Runs
<1>5. StartsOwn'
  <2> SUFFICES ASSUME NEW u \in Threads, NEW i \in Places(u), stack[u][i].pc = "starting"
               PROVE  /\ stack[u][i].thread \in Loops
                      /\ loop'[stack[u][i].thread].pc # "over" =>
                           /\ loop'[stack[u][i].thread].guard = G(u, i)
                           /\ loop'[stack[u][i].thread].target = u
    BY DEF StartsOwn, Places, G
  <2>1. /\ stack[u][i].thread \in Loops
        /\ loop[stack[u][i].thread].pc # "over" =>
             /\ loop[stack[u][i].thread].guard = G(u, i)
             /\ loop[stack[u][i].thread].target = u
    BY DEF GuardInv, StartsOwn
  <2>2. Runs(l) => loop[l].pc # "over"
    BY DEF Runs
  <2>3. CASE stack[u][i].thread = l
    BY <2>1, <2>2, <2>3
  <2>4. CASE stack[u][i].thread # l
    BY <2>1, <2>4
  <2> QED
    BY <2>3, <2>4
<1>6. LoopsHandled'
  <2> SUFFICES ASSUME NEW k \in Loops, Runs(k)', Sound(loop'[k].guard)
               PROVE  /\ handle[loop'[k].guard] = k
                      /\ \A t \in Threads : \A i \in Places(t) :
                           G(t, i) = loop'[k].guard => t = loop'[k].target
    BY DEF LoopsHandled, Places, G, Sound
  <2>1. Runs(k) /\ loop'[k].guard = loop[k].guard /\ loop'[k].target = loop[k].target
    BY DEF Runs
  <2> QED
    BY <2>1 DEF GuardInv, LoopsHandled
<1>7. PendingHandled'
  <2> SUFFICES ASSUME NEW u \in Threads, exc'[u] # None, Sound(exc'[u]), exc'[u] \notin released
               PROVE  /\ handle[exc'[u]] # None
                      /\ \A v \in Threads : \A i \in Places(v) : G(v, i) = exc'[u] => v = u
    BY DEF PendingHandled, Places, G, Sound
  <2>1. CASE exc'[u] = exc[u]
    BY <2>1 DEF GuardInv, PendingHandled
  <2>2. CASE u = loop[l].target /\ exc'[u] = loop[l].guard
    <3>1. /\ handle[loop[l].guard] = l
          /\ \A v \in Threads : \A i \in Places(v) : G(v, i) = loop[l].guard => v = loop[l].target
      BY <2>2 DEF GuardInv, LoopsHandled
    <3>2. l # None
      BY GuardAssumption
    <3> QED
      BY <2>2, <3>1, <3>2
  <2> QED
    BY <2>1, <2>2
<1> QED
  BY <1>1, <1>2, <1>3, <1>5, <1>6, <1>7 DEF GuardInv

(* Destroying a guard that is in no context takes the name of its class    *)
(* only if nobody else of the class is in use, or spoils the class.        *)
LEMMA DestroyedKeeps ==
  ASSUME GuardInv, NEW g \in Guards, NEW l \in Loops \cup {None}, Destroyed(g, l),
         \A t \in Threads : \A i \in Places(t) : G(t, i) # g,
         \A k \in Loops \ {l} : loop'[k] = loop[k] /\ (Runs(k) => loop[k].guard # g),
         l \in Loops => loop'[l] = Idle,
         loop' \in [Loops -> {Idle} \cup
            [pc : {"made", "started", "wait", "send"}, guard : Guards, target : Threads]],
         exc' \in [Threads -> Guards \cup {None}], sig' \subseteq Guards,
         \A u \in Threads : exc'[u] = exc[u] \/ exc'[u] = g,
         released' = released \cup {g}, UNCHANGED <<stack, platform>>
  PROVE  GuardInv'
PROOF
<1>1. TypeOK
  BY DEF GuardInv
<1>2. /\ ended' = [ended EXCEPT ![g] = TRUE] /\ handle' = [handle EXCEPT ![g] = None]
      /\ \/ UNCHANGED <<registry, cut, spoilt>>
         \/ /\ registry' = registry \ {Class[g]} /\ cut' = cut \ {Class[g]}
            /\ spoilt' = IF Harmless(g) THEN spoilt ELSE spoilt \cup {Class[g]}
  BY DEF Destroyed, registration
<1>3. handle'[g] = None /\ \A h \in Guards \ {g} : handle'[h] = handle[h]
  BY <1>1, <1>2 DEF TypeOK
<1>4. \A h : Sound(h)' => Sound(h)
  BY <1>2 DEF Sound
<1>5. \A t \in Threads : Places(t)' = Places(t) /\ \A i \in Places(t) : G(t, i)' = G(t, i)
  BY DEF Places, G
<1>6. ASSUME NEW h \in Guards, Sound(h)', Class[h] = Class[g], h # g, ~UNCHANGED registry
      PROVE  handle[h] = None /\ ~In(h)
  <2>1. Class[g] \notin spoilt' /\ Sound(g)
    BY <1>2, <1>6 DEF Sound
  <2>2. Class[g] \in registry /\ Harmless(g)
    BY <1>2, <1>6, <2>1
  <2> QED
    BY <1>6, <2>2 DEF Harmless
<1>7. \A t \in Threads : \A i \in Places(t) : In(G(t, i)) /\ G(t, i) \in Guards \ {g}
  BY <1>1, InIsPlace, PlacesHoldGuards
<1>8. TypeOK'
  <2>1. registry' \subseteq Classes /\ cut' \subseteq Classes /\ spoilt' \subseteq Classes
    <3>1. registry \subseteq Classes /\ cut \subseteq Classes /\ spoilt \subseteq Classes
      BY <1>1 DEF TypeOK
    <3>2. Class[g] \in Classes
      BY GuardAssumption
    <3>3. CASE UNCHANGED <<registry, cut, spoilt>>
      BY <3>1, <3>3
    <3>4. CASE ~UNCHANGED <<registry, cut, spoilt>>
      BY <3>1, <3>2, <3>4, <1>2
    <3> QED
      BY <3>3, <3>4
  <2>2. ended' \in [Guards -> BOOLEAN] /\ handle' \in [Guards -> Loops \cup {None}]
    BY <1>1, <1>2 DEF TypeOK
  <2> QED
    BY <1>1, <2>1, <2>2 DEF TypeOK
<1>9. FramesRegistered'
  <2> SUFFICES ASSUME NEW t \in Threads, NEW i \in Places(t), Sound(G(t, i))'
               PROVE  Class[G(t, i)] \in registry'
    BY <1>5 DEF FramesRegistered, Sound
  <2>1. Sound(G(t, i)) /\ Sound(G(t, i))' /\ G(t, i) \in Guards \ {g} /\ In(G(t, i))
    BY <1>2, <1>5, <1>7 DEF Sound
  <2>2. Class[G(t, i)] \in registry
    BY <2>1 DEF GuardInv, FramesRegistered
  <2>3. UNCHANGED registry \/ Class[G(t, i)] # Class[g]
    BY <1>2, <1>6, <2>1, <1>5 DEF Sound
  <2> QED
    BY <1>2, <2>2, <2>3
<1>10. FramesDiffer'
  BY <1>4, <1>5 DEF GuardInv, FramesDiffer, Sound
<1>11. HandlesRegistered'
  <2> SUFFICES ASSUME NEW h \in Guards, Sound(h)', handle'[h] # None
               PROVE  Class[h] \in registry'
    BY DEF HandlesRegistered, Sound
  <2>1. h # g /\ handle[h] # None
    BY <1>3
  <2>2. Class[h] \in registry
    BY <1>4, <2>1 DEF GuardInv, HandlesRegistered
  <2> QED
    BY <1>2, <1>6, <2>1, <2>2
<1>12. HandlesDiffer'
  <2> SUFFICES ASSUME NEW h \in Guards, NEW k \in Guards,
                      Sound(h), handle'[h] # None, Class[h] = Class[k], h # k
               PROVE  handle'[k] = None /\ \A t \in Threads : \A i \in Places(t) : G(t, i) # k
    BY <1>4, <1>5 DEF HandlesDiffer, Sound
  <2>1. handle[h] # None
    BY <1>3
  <2>2. handle[k] = None /\ \A t \in Threads : \A i \in Places(t) : G(t, i) # k
    BY <2>1 DEF GuardInv, HandlesDiffer
  <2> QED
    BY <1>3, <2>2
<1>13. FramesHandled'
  <2> SUFFICES ASSUME NEW t \in Threads, NEW i \in Places(t), Sound(G(t, i))
               PROVE  /\ stack[t][i].pc = "entering" => handle'[G(t, i)] = None
                      /\ stack[t][i].pc \in {"starting", "leaving"} =>
                           stack[t][i].thread = handle'[G(t, i)]
    BY <1>4, <1>5 DEF FramesHandled, Sound
  <2>1. handle'[G(t, i)] = handle[G(t, i)]
    BY <1>3, <1>7
  <2> QED
    BY <2>1 DEF GuardInv, FramesHandled
<1>14. \A k \in Loops : loop'[k].pc # "over" => k # l /\ loop'[k] = loop[k]
  BY DEF Idle
<1>15. StartsOwn'
  <2> SUFFICES ASSUME NEW t \in Threads, NEW i \in Places(t), stack[t][i].pc = "starting"
               PROVE  /\ stack[t][i].thread \in Loops
                      /\ loop'[stack[t][i].thread].pc # "over" =>
                           /\ loop'[stack[t][i].thread].guard = G(t, i)
                           /\ loop'[stack[t][i].thread].target = t
    BY <1>5 DEF StartsOwn
  <2>1. /\ stack[t][i].thread \in Loops
        /\ loop[stack[t][i].thread].pc # "over" =>
             /\ loop[stack[t][i].thread].guard = G(t, i)
             /\ loop[stack[t][i].thread].target = t
    BY DEF GuardInv, StartsOwn
  <2> QED
    BY <2>1, <1>14
<1>16. LoopsHandled'
  <2> SUFFICES ASSUME NEW k \in Loops, Runs(k)', Sound(loop'[k].guard)
               PROVE  /\ handle'[loop'[k].guard] = k
                      /\ \A t \in Threads : \A i \in Places(t) :
                           G(t, i) = loop'[k].guard => t = loop'[k].target
    BY <1>4, <1>5 DEF LoopsHandled, Sound
  <2>1. Runs(k) /\ loop'[k] = loop[k] /\ k # l
    BY <1>14 DEF Runs
  <2>2. loop[k].guard \in Guards \ {g}
    BY <1>1, <2>1, RunningLoop DEF Runs
  <2>3. /\ handle[loop[k].guard] = k
        /\ \A t \in Threads : \A i \in Places(t) : G(t, i) = loop[k].guard => t = loop[k].target
    BY <2>1 DEF GuardInv, LoopsHandled
  <2> QED
    BY <1>3, <2>1, <2>2, <2>3
<1>17. PendingHandled'
  <2> SUFFICES ASSUME NEW u \in Threads, exc'[u] # None, Sound(exc'[u]), exc'[u] \notin released'
               PROVE  /\ handle'[exc'[u]] # None
                      /\ \A v \in Threads : \A i \in Places(v) : G(v, i) = exc'[u] => v = u
    BY <1>4, <1>5 DEF PendingHandled, Sound
  <2>1. exc'[u] = exc[u] /\ exc[u] # g /\ exc[u] \in Guards /\ exc[u] \notin released
    BY <1>1 DEF TypeOK
  <2>2. /\ handle[exc[u]] # None
        /\ \A v \in Threads : \A i \in Places(v) : G(v, i) = exc[u] => v = u
    BY <2>1 DEF GuardInv, PendingHandled
  <2> QED
    BY <1>3, <2>1, <2>2
<1>18. ReleasedIdle'
  BY <1>5, <1>7 DEF GuardInv, ReleasedIdle
<1>19. Reasons'
  <2> SUFFICES ASSUME NEW c \in registry', c \notin cut'
               PROVE  \E t \in Threads : \E i \in Places(t) : Class[G(t, i)] = c
    BY <1>5 DEF Reasons
  <2>1. c \in registry /\ c \notin cut
    BY <1>2
  <2> QED
    BY <2>1 DEF GuardInv, Reasons
<1> QED
  BY <1>8, <1>9, <1>10, <1>11, <1>12, <1>13, <1>15, <1>16, <1>17, <1>18, <1>19 DEF GuardInv

(* A loop's program counter changes, its guard and its target do not.      *)
LEMMA LoopSteps ==
  ASSUME TypeOK, NEW l \in Loops, Runs(l), NEW pc \in {"wait", "send"},
         loop' = [loop EXCEPT ![l].pc = pc]
  PROVE  /\ loop' \in [Loops -> {Idle} \cup
            [pc : {"made", "started", "wait", "send"}, guard : Guards, target : Threads]]
         /\ \A k \in Loops \ {l} : loop'[k] = loop[k]
         /\ loop'[l].guard = loop[l].guard /\ loop'[l].target = loop[l].target
PROOF
<1>1. loop[l] \in [pc : {"made", "started", "wait", "send"}, guard : Guards, target : Threads]
  BY RunningLoop DEF Runs
<1>2. [loop[l] EXCEPT !.pc = pc] \in
        [pc : {"made", "started", "wait", "send"}, guard : Guards, target : Threads]
  BY <1>1
<1>3. loop' = [loop EXCEPT ![l] = [loop[l] EXCEPT !.pc = pc]]
  BY DEF TypeOK
<1>4. loop'[l] = [loop[l] EXCEPT !.pc = pc] /\ \A k \in Loops \ {l} : loop'[k] = loop[k]
  BY <1>3 DEF TypeOK
<1> QED
  BY <1>1, <1>2, <1>3, <1>4 DEF TypeOK

(* A guard thread ends, and may take its guard with it.                    *)
LEMMA OverKeeps ==
  ASSUME GuardInv, NEW l \in Loops, Runs(l), Over(l),
         exc' \in [Threads -> Guards \cup {None}], sig' \subseteq Guards,
         \A u \in Threads :
            exc'[u] = exc[u] \/ (u = loop[l].target /\ exc'[u] = loop[l].guard),
         UNCHANGED <<stack, released, platform>>
  PROVE  GuardInv'
PROOF
<1> DEFINE g == loop[l].guard
<1>1. TypeOK
  BY DEF GuardInv
<1>2. g \in Guards
  BY <1>1, RunningLoop DEF Runs
<1>3. /\ loop' \in [Loops -> {Idle} \cup
            [pc : {"made", "started", "wait", "send"}, guard : Guards, target : Threads]]
      /\ loop'[l] = Idle /\ \A k \in Loops \ {l} : loop'[k] = loop[k]
  BY <1>1 DEF Over, TypeOK
<1>4. CASE g \in released /\ LoopOf(g) = {l}
  <2>1. Destroyed(g, l)
    BY <1>4 DEF Over
  <2>2. \A t \in Threads : \A i \in Places(t) : G(t, i) # g
    BY <1>4 DEF GuardInv, ReleasedIdle
  <2>3. \A k \in Loops \ {l} : loop'[k] = loop[k] /\ (Runs(k) => loop[k].guard # g)
    BY <1>3, <1>4 DEF LoopOf
  <2>4. released' = released \cup {g}
    BY <1>4
  <2> QED
    BY <1>2, <1>3, <2>1, <2>2, <2>3, <2>4, DestroyedKeeps
<1>5. CASE ~(g \in released /\ LoopOf(g) = {l})
  <2>1. UNCHANGED <<registry, cut, spoilt, ended, handle>>
    BY <1>5 DEF Over, registration
  <2>2. loop'[l].pc = "over"
    BY <1>3 DEF Idle
  <2> QED
    BY <1>3, <2>1, <2>2, LoopMovesKeeps
<1> QED
  BY <1>4, <1>5

(* The thread begins to run.                                               *)
LEMMA LoopBeginsKeeps ==
  ASSUME GuardInv, NEW l \in Loops, LoopBegins(l)
  PROVE  GuardInv'
PROOF
<1>1. TypeOK /\ Runs(l)
  BY DEF GuardInv, LoopBegins, Runs
<1>2. loop' = [loop EXCEPT ![l].pc = "wait"]
  BY DEF LoopBegins
<1>3. /\ loop' \in [Loops -> {Idle} \cup
            [pc : {"made", "started", "wait", "send"}, guard : Guards, target : Threads]]
      /\ \A k \in Loops \ {l} : loop'[k] = loop[k]
      /\ loop'[l].guard = loop[l].guard /\ loop'[l].target = loop[l].target
  BY <1>1, <1>2, LoopSteps
<1> QED
  BY <1>1, <1>3, LoopMovesKeeps DEF LoopBegins, registration, user, TypeOK

(* usleep() is over and ended is set.                                      *)
LEMMA LoopEndsKeeps ==
  ASSUME GuardInv, NEW l \in Loops, LoopEnds(l)
  PROVE  GuardInv'
PROOF
<1>1. TypeOK /\ Runs(l)
  BY DEF GuardInv, LoopEnds, Runs
<1> QED
  BY <1>1, OverKeeps DEF LoopEnds, user, TypeOK

(* send_interrupt() has seen ended unset.                                  *)
LEMMA LoopDecidesKeeps ==
  ASSUME GuardInv, NEW l \in Loops, LoopDecides(l)
  PROVE  GuardInv'
PROOF
<1>1. TypeOK /\ Runs(l)
  BY DEF GuardInv, LoopDecides, Runs
<1>2. loop' = [loop EXCEPT ![l].pc = "send"]
  BY DEF LoopDecides
<1>3. /\ loop' \in [Loops -> {Idle} \cup
            [pc : {"made", "started", "wait", "send"}, guard : Guards, target : Threads]]
      /\ \A k \in Loops \ {l} : loop'[k] = loop[k]
      /\ loop'[l].guard = loop[l].guard /\ loop'[l].target = loop[l].target
  BY <1>1, <1>2, LoopSteps
<1> QED
  BY <1>1, <1>3, LoopMovesKeeps DEF LoopDecides, registration, user, TypeOK

(* The interrupt is sent, and the loop goes on or has reached its last     *)
(* level.                                                                  *)
LEMMA LoopSendsKeeps ==
  ASSUME GuardInv, NEW l \in Loops, LoopSends(l)
  PROVE  GuardInv'
PROOF
<1>1. TypeOK /\ Runs(l)
  BY DEF GuardInv, LoopSends, Runs
<1>2. loop[l].guard \in Guards /\ loop[l].target \in Threads
  BY <1>1, RunningLoop DEF Runs
<1>3. /\ exc' \in [Threads -> Guards \cup {None}] /\ sig' \subseteq Guards
      /\ \A u \in Threads :
            exc'[u] = exc[u] \/ (u = loop[l].target /\ exc'[u] = loop[l].guard)
      /\ UNCHANGED <<stack, released, platform>>
  BY <1>1, <1>2 DEF LoopSends, TypeOK
<1>4. CASE Over(l)
  BY <1>1, <1>3, <1>4, OverKeeps
<1>5. CASE ~Over(l)
  <2>1. loop' = [loop EXCEPT ![l].pc = "wait"] /\ UNCHANGED <<registry, cut, spoilt, ended, handle>>
    BY <1>5 DEF LoopSends, registration
  <2>2. /\ loop' \in [Loops -> {Idle} \cup
              [pc : {"made", "started", "wait", "send"}, guard : Guards, target : Threads]]
        /\ \A k \in Loops \ {l} : loop'[k] = loop[k]
        /\ loop'[l].guard = loop[l].guard /\ loop'[l].target = loop[l].target
    BY <1>1, <2>1, LoopSteps
  <2> QED
    BY <1>1, <1>3, <2>1, <2>2, LoopMovesKeeps
<1> QED
  BY <1>4, <1>5

(* User code lets go of a guard that is in no context.                     *)
LEMMA ReleaseKeeps ==
  ASSUME GuardInv, NEW g \in Guards, Release(g)
  PROVE  GuardInv'
PROOF
<1>1. TypeOK /\ None \notin Loops
  BY GuardAssumption DEF GuardInv
<1>2. released' = released \cup {g} /\ UNCHANGED <<loop, stack, exc, sig, platform>>
  BY DEF Release, user
<1>3. \A t \in Threads : \A i \in Places(t) : G(t, i) # g
  BY <1>1, InIsPlace DEF Release
<1>4. CASE LoopOf(g) = {}
  <2>1. Destroyed(g, None)
    BY <1>4 DEF Release
  <2>2. \A k \in Loops \ {None} : loop'[k] = loop[k] /\ (Runs(k) => loop[k].guard # g)
    BY <1>2, <1>4 DEF LoopOf
  <2> QED
    BY <1>1, <1>2, <1>3, <2>1, <2>2, DestroyedKeeps DEF TypeOK
<1>5. CASE LoopOf(g) # {}
  <2>1. UNCHANGED <<registry, cut, spoilt, ended, handle>>
    BY <1>5 DEF Release, registration
  <2>2. TypeOK'
    BY <1>1, <1>2, <2>1 DEF TypeOK
  <2>3. FramesRegistered' /\ FramesDiffer' /\ HandlesRegistered' /\ HandlesDiffer'
    BY <1>2, <2>1 DEF GuardInv, FramesRegistered, FramesDiffer, HandlesRegistered,
                      HandlesDiffer, Places, G, Sound
  <2>4. FramesHandled' /\ StartsOwn' /\ LoopsHandled'
    BY <1>2, <2>1 DEF GuardInv, FramesHandled, StartsOwn, LoopsHandled, Places, G, Sound, Runs
  <2>5. PendingHandled' /\ Reasons'
    BY <1>2, <2>1 DEF GuardInv, PendingHandled, Reasons, Places, G, Sound
  <2>6. ReleasedIdle'
    BY <1>2, <1>3 DEF GuardInv, ReleasedIdle, Places, G
  <2> QED
    BY <2>2, <2>3, <2>4, <2>5, <2>6 DEF GuardInv
<1> QED
  BY <1>4, <1>5
-----------------------------------------------------------------------------
(***************************************************************************)
(* The invariant holds, and what follows from it.                          *)
(***************************************************************************)

(* Nothing is registered, no thread is in a context, no loop runs.         *)
LEMMA InitKeeps == ASSUME Init PROVE GuardInv
PROOF
<1>1. \A t \in Threads : Places(t) = {}
  BY DEF Init, Places
<1>2. \A l \in Loops : ~Runs(l)
  BY DEF Init, Runs, Idle
<1>3. TypeOK
  BY DEF Init, TypeOK
<1> QED
  BY <1>1, <1>2, <1>3
  DEF Init, GuardInv, FramesRegistered, FramesDiffer, HandlesRegistered, HandlesDiffer,
      FramesHandled, StartsOwn, LoopsHandled, PendingHandled, ReleasedIdle, Reasons

(* Every step preserves the invariant.                                     *)
LEMMA NextKeeps ==
  ASSUME GuardInv, [Next]_vars
  PROVE  GuardInv'
PROOF
<1>1. ASSUME NEW t \in Threads, NEW g \in Guards, Enter(t, g)
      PROVE  GuardInv'
  BY <1>1, EnterKeeps
<1>2. ASSUME NEW t \in Threads, Unsupported(t) \/ Constructed(t) \/ Starts(t) \/ Started(t)
      PROVE  GuardInv'
  BY <1>2, UnsupportedKeeps, ConstructedKeeps, StartsKeeps, StartedKeeps
<1>3. ASSUME NEW t \in Threads, Leave(t) \/ Joined(t) \/ JoinFails(t) \/ Interrupted(t)
      PROVE  GuardInv'
  BY <1>3, LeaveKeeps, JoinedKeeps, JoinFailsKeeps, InterruptedKeeps
<1>4. ASSUME NEW g \in Guards, Release(g)
      PROVE  GuardInv'
  BY <1>4, ReleaseKeeps
<1>5. ASSUME NEW l \in Loops, LoopBegins(l) \/ LoopEnds(l) \/ LoopDecides(l) \/ LoopSends(l)
      PROVE  GuardInv'
  BY <1>5, LoopBeginsKeeps, LoopEndsKeeps, LoopDecidesKeeps, LoopSendsKeeps
<1>6. CASE UNCHANGED vars
  BY <1>6, StutterKeeps
<1> QED
  BY <1>1, <1>2, <1>3, <1>4, <1>5, <1>6 DEF Next

(* The registry, the handles, the loops and what is pending agree.         *)
THEOREM RegistryAgrees == Spec => []GuardInv
PROOF
<1>1. Init => GuardInv
  BY InitKeeps
<1>2. GuardInv /\ [Next]_vars => GuardInv'
  BY NextKeeps
<1> QED
  BY <1>1, <1>2, PTL DEF Spec

(* The state keeps its types.                                              *)
THEOREM GuardTypes == Spec => []TypeOK
PROOF
<1>1. GuardInv => TypeOK
  BY DEF GuardInv
<1> QED
  BY <1>1, RegistryAgrees, PTL

(* Contexts of one type are never nested, in one thread or across threads: *)
(* setup() refuses a second context whatever the first one is doing, until *)
(* a guard of the type is destroyed while another one is in use.           *)
THEOREM NeverNested == Spec => []NotNested
PROOF
<1>1. GuardInv => NotNested
  <2> SUFFICES ASSUME GuardInv, NEW c \in Classes \ spoilt,
                      NEW p \in FramesOf(c), NEW q \in FramesOf(c)
               PROVE  p = q
    BY DEF NotNested
  <2>1. \A t \in Threads : DOMAIN stack[t] = Places(t)
    BY LenProperties DEF GuardInv, TypeOK, Places
  <2>2. \E t \in Threads : \E i \in Places(t) : p = <<t, i>> /\ Class[G(t, i)] = c
    BY <2>1 DEF FramesOf, G
  <2>3. \E u \in Threads : \E j \in Places(u) : q = <<u, j>> /\ Class[G(u, j)] = c
    BY <2>1 DEF FramesOf, G
  <2>4. ASSUME NEW t \in Threads, NEW i \in Places(t), p = <<t, i>>, Class[G(t, i)] = c,
               NEW u \in Threads, NEW j \in Places(u), q = <<u, j>>, Class[G(u, j)] = c
        PROVE  p = q
    <3>1. t = u /\ i = j
      BY <2>4 DEF GuardInv, FramesDiffer, Sound
    <3> QED
      BY <2>4, <3>1
  <2> QED
    BY <2>2, <2>3, <2>4
<1> QED
  BY <1>1, RegistryAgrees, PTL

(* The registry is not stale: a registered type has a context, or one that *)
(* was cut short.                                                          *)
THEOREM RegistryHasReasons == Spec => []RegisteredForAReason
PROOF
<1>1. GuardInv => RegisteredForAReason
  <2> SUFFICES ASSUME GuardInv, NEW c \in registry, c \notin cut
               PROVE  \E g \in Guards : Class[g] = c /\ In(g)
    BY DEF RegisteredForAReason
  <2>1. PICK t \in Threads : \E i \in Places(t) : Class[G(t, i)] = c
    BY DEF GuardInv, Reasons
  <2>2. PICK i \in Places(t) : Class[G(t, i)] = c
    BY <2>1
  <2>3. G(t, i) \in Guards /\ In(G(t, i))
    BY PlacesHoldGuards, InIsPlace DEF GuardInv
  <2> QED
    BY <2>2, <2>3
<1> QED
  BY <1>1, RegistryAgrees, PTL

(* A pending exception is its own context's, or one's that was cut short.  *)
THEOREM InterruptsStayInside == Spec => []NoLateInterrupt
PROOF
<1>1. GuardInv => NoLateInterrupt
  BY DEF GuardInv, PendingHandled, NoLateInterrupt, Sound
<1> QED
  BY <1>1, RegistryAgrees, PTL

(* A guard gets a new thread only when no thread of it is left, so that    *)
(* resetting ended never keeps an old loop going.                          *)
THEOREM NoThreadRevived == Spec => NoRevival
PROOF
<1> DEFINE Revives == \A g \in Guards : handle'[g] \notin {None, handle[g]} =>
                        LoopOf(g) = {} \/ Class[g] \in spoilt
<1>1. GuardInv /\ [Next]_vars => Revives
  <2> SUFFICES ASSUME GuardInv, [Next]_vars, NEW g \in Guards,
                      handle'[g] \notin {None, handle[g]}, Sound(g)
               PROVE  LoopOf(g) = {}
    BY DEF Sound
  <2>1. TypeOK /\ handle \in [Guards -> Loops \cup {None}]
    BY DEF GuardInv, TypeOK
  <2>2. PICK t \in Threads : Constructed(t) /\ Top(t) = g
    <3>1. ASSUME NEW h \in Guards, handle' = [handle EXCEPT ![h] = None]
          PROVE  FALSE
      BY <2>1, <3>1
    <3>2. ~UNCHANGED handle
      OBVIOUS
    <3>3. ASSUME NEW t \in Threads, Constructed(t)
          PROVE  Top(t) = g
      BY <2>1, <3>3 DEF Constructed
    <3>4. \A t \in Threads, h \in Guards : ~Enter(t, h)
      BY <3>2 DEF Enter
    <3>5. \A t \in Threads : ~Unsupported(t) /\ ~Starts(t) /\ ~Started(t) /\ ~Leave(t)
      BY <3>2 DEF Unsupported, Starts, Started, Leave
    <3>6. \A t \in Threads : ~Joined(t) /\ ~JoinFails(t) /\ ~Interrupted(t)
      <4>1. \A t \in Threads : Joined(t) => Top(t) \in Guards
        BY <2>1, TopIsFirst DEF Joined, InContext
      <4> QED
        BY <4>1, <3>1, <3>2 DEF Joined, JoinFails, Interrupted, FinishJoined
    <3>7. \A h \in Guards : ~Release(h)
      BY <3>1, <3>2 DEF Release, Destroyed
    <3>8. \A l \in Loops : ~(Runs(l) /\ Over(l))
      <4>1. \A l \in Loops : Runs(l) => loop[l].guard \in Guards
        BY <2>1, RunningLoop DEF Runs
      <4> QED
        BY <4>1, <3>1, <3>2 DEF Over, Destroyed
    <3>9. \A l \in Loops : ~LoopBegins(l) /\ ~LoopEnds(l) /\ ~LoopDecides(l) /\ ~LoopSends(l)
      BY <3>2, <3>8 DEF LoopBegins, LoopEnds, LoopDecides, LoopSends, Runs
    <3> QED
      BY <3>2, <3>3, <3>4, <3>5, <3>6, <3>7, <3>9 DEF Next, vars
  <2>3. handle[g] = None
    <3>1. stack[t] # << >> /\ Head(stack[t]).pc = "entering"
      BY <2>2 DEF Constructed, InContext
    <3>2. 1 \in Places(t) /\ g = G(t, 1) /\ stack[t][1].pc = "entering"
      BY <2>1, <2>2, <3>1, TopIsFirst
    <3> QED
      BY <3>2 DEF GuardInv, FramesHandled
  <2> QED
    BY <2>3, GuardAssumption DEF GuardInv, LoopsHandled, LoopOf
<1> QED
  BY <1>1, RegistryAgrees, PTL DEF Spec, NoRevival
=============================================================================
