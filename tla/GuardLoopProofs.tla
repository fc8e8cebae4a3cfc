---------------------------- MODULE GuardLoopProofs ----------------------------
(***************************************************************************)
(* How late, and how early, the guard thread interrupts, for every         *)
(* setting, check_interval, delay and bound on ages.                       *)
(***************************************************************************)
EXTENDS GuardLoop, TLAPS

Locations == {"sleep", "look", "restart", "sample", "measure", "decide", "gil", "over"}
Ages == 0 .. MaxAge

Typed ==
  /\ setting \in Settings
  /\ pc \in Locations
  /\ sent \in 0 .. 3
  /\ left \in Nat
  /\ sinceWake \in 0 .. Iteration
  /\ sinceNow \in Ages /\ sinceStart \in Ages /\ quiet \in Ages /\ sinceDip \in Ages
  /\ timing \in BOOLEAN /\ unseen \in BOOLEAN
  /\ epochIsNow \in BOOLEAN /\ lastIsNow \in BOOLEAN
  /\ rss \in {"below", "at", "above"}
  /\ ended \in BOOLEAN /\ holdsGil \in BOOLEAN /\ heldGil \in BOOLEAN
  /\ belowFor \in Nat

(* Where the loop is, and for how long it has been awake.                  *)
Placed ==
  /\ TimeGuard => pc \notin {"sample", "measure"}
  /\ MemGuard => pc \notin {"look", "restart"}
  /\ pc # "sleep" => sinceWake <= Slack
  /\ sent = 3 => pc \in {"gil", "over"}
  /\ pc = "gil" => sent > 0 /\ setting.type # "signal"
  /\ pc = "over" => ended \/ sent = 3
  /\ pc = "restart" => unseen
  /\ holdsGil => heldGil
  /\ TimeGuard /\ pc \in {"look", "restart", "decide"} => sinceNow = sinceWake
  /\ MemGuard /\ pc = "decide" => timing /\ sinceNow <= sinceWake

(* The timer of a TimeGuard starts from the last progress() that it has    *)
(* seen, and one that it has not seen is as young as the iteration.        *)
Heard ==
  TimeGuard =>
    /\ lastIsNow => sinceStart <= Slack
    /\ ~ unseen => sinceStart <= quiet + Slack
    /\ unseen /\ pc = "decide" => quiet <= sinceWake

(* The timer of a MemGuard is no older than the last dip below the limit   *)
(* that it cannot have missed: it takes less than that to be sampled.      *)
Sampled ==
  MemGuard =>
    /\ timing => sinceStart <= sinceDip
    /\ rss = "below" /\ (pc = "measure" \/ (timing /\ pc \notin {"sample", "over"}))
         => belowFor <= sinceWake
    /\ rss = "below" /\ timing /\ pc = "sample" => belowFor <= Iteration + sinceWake
    /\ rss # "above" => quiet = 0

(* How long the loop can have left a level unsent.                         *)
Prompt == ~ ended /\ (heldGil => setting.type = "signal")
Late(level) == setting.first + level * Greater(Gap(setting), Iteration) + Noticed

Started ==
  \/ TimeGuard /\ ~ unseen
  \/ MemGuard /\ timing
InTime ==
  Prompt =>
    /\ Started /\ (TimeGuard \/ rss = "above") => quiet <= sinceStart + Noticed
    /\ ~ Started => quiet <= sinceWake + IF pc \in {"look", "restart", "sample", "measure"}
                                        THEN Iteration ELSE 0
    /\ \A l \in 0 .. 2 :
         /\ sent = l => quiet <= Late(l) + sinceWake + IF pc \in {"sleep", "gil"} THEN 0
                                                                         ELSE Iteration
         /\ sent = l + 1 /\ pc = "gil" => quiet <= Late(l) + sinceWake + Iteration

LoopInv == Typed /\ Placed /\ Heard /\ Sampled /\ InTime

-----------------------------------------------------------------------------
(***************************************************************************)
(* Constants and deadlines.                                                *)
(***************************************************************************)
LEMMA ConstantsAre ==
  ASSUME setting \in Settings
  PROVE  /\ Check \in Nat /\ Slack \in Nat /\ MaxAge \in Nat /\ MinGrace \in Nat
         /\ Iteration \in Nat /\ Slack <= Iteration /\ Iteration < MaxAge
         /\ Noticed \in Nat /\ Iteration <= Noticed
         /\ setting.first \in Nat /\ Gap(setting) \in Nat
         /\ Greater(Gap(setting), Iteration) \in Nat
         /\ Gap(setting) <= Greater(Gap(setting), Iteration)
         /\ Iteration <= Greater(Gap(setting), Iteration)
         /\ TimeGuard <=> ~ MemGuard
         /\ setting.type \in {"exception", "signal", "exception_then_signal"}
<1>1. /\ setting.class \in {"TimeGuard", "MemGuard"}
      /\ setting.first \in Nat /\ setting.grace \in Nat
      /\ setting.type \in {"exception", "signal", "exception_then_signal"}
      /\ MinGrace \in Nat /\ Check \in Nat /\ Slack \in Nat /\ MaxAge \in Nat
      /\ setting.first + 2 * Greater(Gap(setting), Check + Slack) + 2 * Check + 4 * Slack < MaxAge
  BY LoopAssumption
<1>2. Gap(setting) \in Nat  BY <1>1 DEF Gap, Greater
<1>3. Iteration \in Nat /\ Slack <= Iteration /\ Iteration = Check + Slack  BY <1>1 DEF Iteration
<1>4. /\ Greater(Gap(setting), Iteration) \in Nat
      /\ Gap(setting) <= Greater(Gap(setting), Iteration)
      /\ Iteration <= Greater(Gap(setting), Iteration)
  BY <1>2, <1>3 DEF Greater
<1>5. Iteration < MaxAge  BY <1>1, <1>3, <1>4
<1>6. Noticed \in Nat /\ Iteration <= Noticed  BY <1>1, <1>3 DEF Noticed
<1> QED  BY <1>1, <1>2, <1>3, <1>4, <1>5, <1>6 DEF TimeGuard, MemGuard

LEMMA LateIs ==
  ASSUME setting \in Settings
  PROVE  /\ \A l \in 0 .. 2 : /\ Late(l) \in Nat /\ Noticed <= Late(l)
                            /\ Due(l) \in Nat /\ Due(l) + Noticed <= Late(l)
                            /\ Deadline(l) = Late(l) + Iteration + Slack
         /\ \A l \in 0 .. 1 : Late(l) + Iteration <= Late(l + 1)
         /\ \A l, m \in 0 .. 2 : l <= m => Late(l) <= Late(m)
<1> DEFINE g == Gap(setting)
           m == Greater(Gap(setting), Iteration)
<1>1. /\ g \in Nat /\ m \in Nat /\ g <= m /\ Iteration <= m /\ Iteration \in Nat
      /\ Noticed \in Nat /\ setting.first \in Nat /\ Slack \in Nat
  BY ConstantsAre
<1>2. \A l : /\ Late(l) = setting.first + l * m + Noticed
             /\ Due(l) = setting.first + l * g
             /\ Deadline(l) = setting.first + l * m + Noticed + Iteration + Slack
  BY DEF Late, Due, Deadline
<1> HIDE DEF g, m
<1>3. /\ 0 * m = 0 /\ 1 * m = m /\ 2 * m = m + m
      /\ 0 * g = 0 /\ 1 * g = g /\ 2 * g = g + g
  BY <1>1
<1>4. /\ Late(0) = setting.first + Noticed
      /\ Late(1) = setting.first + m + Noticed
      /\ Late(2) = setting.first + m + m + Noticed
      /\ Due(0) = setting.first /\ Due(1) = setting.first + g /\ Due(2) = setting.first + g + g
  BY <1>1, <1>2, <1>3
<1>5. \A l \in 0 .. 2 : Deadline(l) = Late(l) + Iteration + Slack
  <2>1. \A l \in 0 .. 2 : l * m \in Nat  BY <1>1, <1>3
  <2> QED  BY <1>1, <1>2, <2>1
<1>6. 0 .. 2 = {0, 1, 2} /\ 0 .. 1 = {0, 1}  OBVIOUS
<1>7. \A l \in {0, 1, 2} : Late(l) \in Nat /\ Noticed <= Late(l) /\ Due(l) \in Nat
                         /\ Due(l) + Noticed <= Late(l)
  BY <1>1, <1>4
<1>8. \A l \in {0, 1} : Late(l) + Iteration <= Late(l + 1)  BY <1>1, <1>4
<1>9. \A l, k \in {0, 1, 2} : l <= k => Late(l) <= Late(k)  BY <1>1, <1>4
<1> QED  BY <1>5, <1>6, <1>7, <1>8, <1>9

LEMMA LateStays ==
  ASSUME setting' = setting
  PROVE  /\ (TimeGuard' <=> TimeGuard) /\ (MemGuard' <=> MemGuard)
         /\ \A l : Late(l)' = Late(l)
         /\ Noticed' = Noticed
  BY DEF TimeGuard, MemGuard, Late, Noticed

LEMMA Ageing ==
  ASSUME MaxAge \in Nat, NEW age \in Ages, NEW other \in Ages, NEW n \in Nat
  PROVE  /\ age <= other + n => Older(age) <= Older(other) + n
         /\ age <= other => Older(age) <= Older(other)
BY DEF Ages, Older

-----------------------------------------------------------------------------
(***************************************************************************)
(* Every step keeps the invariant.                                         *)
(***************************************************************************)
LEMMA Bounds ==
  ASSUME Typed
  PROVE  /\ MaxAge \in Nat /\ Check \in Nat /\ Slack \in Nat /\ Iteration \in Nat
         /\ Slack <= Iteration /\ Iteration < MaxAge
         /\ Noticed \in Nat /\ Iteration <= Noticed /\ (MemGuard => Noticed = Iteration + Slack)
         /\ TimeGuard <=> ~ MemGuard
BY ConstantsAre DEF Typed, Noticed

LEMMA WakeKeeps ==
  ASSUME LoopInv, Wake
  PROVE  LoopInv'
<1> USE Bounds, LateStays DEF LoopInv, Ages, Wake, body, epoch, history
<1>1. Typed'  BY DEF Typed, Locations
<1>2. Placed'  BY DEF Typed, Placed
<1>3. Heard'  BY DEF Typed, Placed, Heard
<1>4. Sampled'  BY DEF Typed, Placed, Sampled
<1>5. InTime'  BY LateIs DEF Typed, Placed, Sampled, InTime, Started, Prompt
<1> QED  BY <1>1, <1>2, <1>3, <1>4, <1>5

LEMMA LookAtEpochKeeps ==
  ASSUME LoopInv, LookAtEpoch
  PROVE  LoopInv'
<1> USE Bounds, LateStays DEF LoopInv, Ages, LookAtEpoch, timers, body, epoch, history
<1>1. Typed'  BY DEF Typed, Locations
<1>2. Placed'  BY DEF Typed, Placed
<1>3. Heard'  BY DEF Typed, Placed, Heard
<1>4. Sampled'  BY DEF Typed, Placed, Sampled
<1>5. InTime'  BY LateIs DEF Typed, Placed, Sampled, InTime, Started, Prompt
<1> QED  BY <1>1, <1>2, <1>3, <1>4, <1>5

LEMMA RestartKeeps ==
  ASSUME LoopInv, Restart
  PROVE  LoopInv'
<1> USE Bounds, LateStays DEF LoopInv, Ages, Restart, body, history
<1>1. Typed'
  <2>1. lastIsNow' \in BOOLEAN /\ unseen' \in BOOLEAN  BY DEF Typed
  <2> QED  BY <2>1 DEF Typed, Locations
<1>2. Placed'  BY DEF Typed, Placed
<1>3. Heard'  BY DEF Typed, Placed, Heard
<1>4. Sampled'  BY DEF Typed, Placed, Sampled
<1>5. InTime'  BY LateIs DEF Typed, Placed, Sampled, InTime, Started, Prompt
<1> QED  BY <1>1, <1>2, <1>3, <1>4, <1>5

LEMMA DecideKeeps ==
  ASSUME LoopInv, Decide
  PROVE  LoopInv'
<1> USE Bounds, LateStays DEF LoopInv, Ages, Decide, Rest, Sleep, body, epoch, history
<1>1. Typed'  BY DEF Typed, Placed, Locations
<1>2. Placed'  BY DEF Typed, Placed, NeedsGil, TimeGuard, MemGuard
<1>3. Heard'  BY DEF Typed, Placed, Heard
<1>4. Sampled'  BY DEF Typed, Placed, Sampled
<1>5. InTime'  BY LateIs DEF Typed, Placed, Sampled, InTime, Started, Prompt
<1> QED  BY <1>1, <1>2, <1>3, <1>4, <1>5

LEMMA RaiseKeeps ==
  ASSUME LoopInv, Raise
  PROVE  LoopInv'
<1> USE Bounds, LateStays DEF LoopInv, Ages, Raise, Rest, Sleep, body, epoch, history
<1>1. Typed'  BY DEF Typed, Locations
<1>2. Placed'  BY DEF Typed, Placed
<1>3. Heard'  BY DEF Typed, Placed, Heard
<1>4. Sampled'  BY DEF Typed, Placed, Sampled
<1>5. InTime'  BY LateIs DEF Typed, Placed, Sampled, InTime, Started, Prompt
<1> QED  BY <1>1, <1>2, <1>3, <1>4, <1>5

LEMMA SampleKeeps ==
  ASSUME LoopInv, Sample
  PROVE  LoopInv'
<1> USE Bounds, LateStays DEF LoopInv, Ages, Sample, Sleep, body, epoch, history
<1>1. Typed'
  <2>1. timing' \in BOOLEAN  BY DEF Typed
  <2> QED  BY <2>1 DEF Typed, Locations
<1>2. Placed'  BY DEF Typed, Placed
<1>3. Heard'  BY DEF Typed, Placed, Heard
<1>4. Sampled'  BY DEF Typed, Placed, Sampled
<1>5. InTime'  BY LateIs DEF Typed, Placed, Sampled, InTime, Started, Prompt
<1> QED  BY <1>1, <1>2, <1>3, <1>4, <1>5

LEMMA MeasureKeeps ==
  ASSUME LoopInv, Measure
  PROVE  LoopInv'
<1> USE Bounds, LateStays DEF LoopInv, Ages, Measure, body, epoch, history
<1>1. Typed'
  <2>1. timing' \in BOOLEAN  BY DEF Typed
  <2> QED  BY <2>1 DEF Typed, Locations
<1>2. Placed'  BY DEF Typed, Placed
<1>3. Heard'  BY DEF Typed, Placed, Heard
<1>4. Sampled'  BY DEF Typed, Placed, Sampled
<1>5. InTime'  BY LateIs DEF Typed, Placed, Sampled, InTime, Started, Prompt
<1> QED  BY <1>1, <1>2, <1>3, <1>4, <1>5

LEMMA ProgressKeeps ==
  ASSUME LoopInv, Progress
  PROVE  LoopInv'
<1> USE Bounds, LateStays DEF LoopInv, Ages, Progress, timers, body
<1>1. Typed'  BY DEF Typed, Locations
<1>2. Placed'  BY DEF Typed, Placed
<1>3. Heard'
  <2>1. ~ unseen' => lastIsNow  OBVIOUS
  <2> QED  BY <2>1 DEF Typed, Placed, Heard
<1>4. Sampled'  BY DEF Typed, Placed, Sampled
<1>5. InTime'  BY LateIs DEF Typed, Placed, Sampled, InTime, Started, Prompt
<1> QED  BY <1>1, <1>2, <1>3, <1>4, <1>5

LEMMA LeaveKeeps ==
  ASSUME LoopInv, Leave
  PROVE  LoopInv'
<1> USE Bounds, LateStays DEF LoopInv, Ages, Leave, timers, epoch, history
<1>1. Typed'  BY DEF Typed, Locations
<1>2. Placed'  BY DEF Typed, Placed
<1>3. Heard'  BY DEF Typed, Placed, Heard
<1>4. Sampled'  BY DEF Typed, Placed, Sampled
<1>5. InTime'  BY LateIs DEF Typed, Placed, Sampled, InTime, Started, Prompt
<1> QED  BY <1>1, <1>2, <1>3, <1>4, <1>5

LEMMA KeepGilKeeps ==
  ASSUME LoopInv, KeepGil
  PROVE  LoopInv'
<1> USE Bounds, LateStays DEF LoopInv, Ages, KeepGil, timers, epoch
<1>1. Typed'  BY DEF Typed, Locations
<1>2. Placed'  BY DEF Typed, Placed
<1>3. Heard'  BY DEF Typed, Placed, Heard
<1>4. Sampled'  BY DEF Typed, Placed, Sampled
<1>5. InTime'  BY LateIs DEF Typed, Placed, Sampled, InTime, Started, Prompt
<1> QED  BY <1>1, <1>2, <1>3, <1>4, <1>5

LEMMA ReleaseGilKeeps ==
  ASSUME LoopInv, ReleaseGil
  PROVE  LoopInv'
<1> USE Bounds, LateStays DEF LoopInv, Ages, ReleaseGil, timers, epoch, history
<1>1. Typed'  BY DEF Typed, Locations
<1>2. Placed'  BY DEF Typed, Placed
<1>3. Heard'  BY DEF Typed, Placed, Heard
<1>4. Sampled'  BY DEF Typed, Placed, Sampled
<1>5. InTime'  BY LateIs DEF Typed, Placed, Sampled, InTime, Started, Prompt
<1> QED  BY <1>1, <1>2, <1>3, <1>4, <1>5

LEMMA TickKeeps ==
  ASSUME LoopInv, Tick
  PROVE  LoopInv'
<1> USE Bounds, LateStays DEF LoopInv, Ages, Tick, body
<1>t. /\ quiet \in 0 .. MaxAge /\ sinceNow \in 0 .. MaxAge /\ sinceStart \in 0 .. MaxAge
      /\ sinceDip \in 0 .. MaxAge
  BY DEF Typed
<1>a. /\ Older(quiet) \in 0 .. MaxAge /\ Older(quiet) <= quiet + 1
      /\ Older(sinceNow) \in 0 .. MaxAge /\ Older(sinceNow) <= sinceNow + 1
      /\ sinceNow < MaxAge => Older(sinceNow) = sinceNow + 1
      /\ Older(sinceStart) \in 0 .. MaxAge
      /\ Older(sinceDip) \in 0 .. MaxAge
  BY <1>t DEF Older, Typed
<1>b. /\ \A n \in Nat : quiet <= sinceStart + n => Older(quiet) <= Older(sinceStart) + n
      /\ \A n \in Nat : sinceStart <= quiet + n => Older(sinceStart) <= Older(quiet) + n
      /\ sinceStart <= sinceDip => Older(sinceStart) <= Older(sinceDip)
  BY <1>t, Ageing
<1>w. /\ Waits => UNCHANGED sinceWake /\ pc = "gil"
      /\ ~ Waits => sinceWake' = sinceWake + 1
                  /\ sinceWake < IF pc = "sleep" THEN Iteration ELSE Slack
  BY DEF Waits
<1>1. Typed'
  <2>1. epochIsNow' \in BOOLEAN /\ lastIsNow' \in BOOLEAN  OBVIOUS
  <2>2. left' \in Nat /\ belowFor' \in Nat  BY DEF Typed
  <2>3. sinceWake' \in 0 .. Iteration  BY <1>w DEF Typed
  <2>4. /\ sinceNow' \in Ages /\ sinceStart' \in Ages /\ quiet' \in Ages /\ sinceDip' \in Ages
    BY <1>a DEF Typed
  <2> QED  BY <2>1, <2>2, <2>3, <2>4 DEF Typed, Locations
<1>2. Placed'  BY <1>a, <1>b, <1>w DEF Typed, Placed
<1>3. Heard'  BY <1>a, <1>b, <1>w DEF Typed, Placed, Heard
<1>4. Sampled'
  <2>1. MemGuard /\ timing /\ rss = "below" => belowFor <= Iteration + Slack
    BY DEF Typed, Placed, Sampled
  <2> QED  BY <2>1, <1>a, <1>b, <1>w DEF Typed, Placed, Sampled
<1>5. InTime'
  <2>1. Prompt => ~ Waits  BY DEF Placed, Prompt, Waits
  <2>2. quiet' <= quiet + 1  BY <1>a DEF Typed
  <2> QED
    BY <2>1, <2>2, LateIs, <1>a, <1>b, <1>w DEF Typed, Placed, Sampled, InTime, Started, Prompt
<1> QED  BY <1>1, <1>2, <1>3, <1>4, <1>5

LEMMA MemoryKeeps ==
  ASSUME NEW level \in {"below", "at", "above"}, LoopInv, Memory(level)
  PROVE  LoopInv'
<1> USE Bounds, LateStays DEF LoopInv, Ages, Memory, timers, epoch
<1>1. Typed'  BY DEF Typed, Locations
<1>2. Placed'  BY DEF Typed, Placed
<1>3. Heard'  BY DEF Typed, Placed, Heard
<1>4. Sampled'  BY DEF Typed, Placed, Sampled
<1>5. InTime'  BY LateIs DEF Typed, Placed, Sampled, InTime, Started, Prompt
<1> QED  BY <1>1, <1>2, <1>3, <1>4, <1>5

LEMMA StutterKeeps ==
  ASSUME LoopInv, UNCHANGED vars
  PROVE  LoopInv'
BY DEF LoopInv, Typed, Placed, Heard, Sampled, InTime, Started, Prompt, TimeGuard, MemGuard, Ages,
       Locations, Late, Noticed, vars, body, timers, epoch, history

LEMMA InitHolds == Init => LoopInv
<1> SUFFICES ASSUME Init  PROVE LoopInv  OBVIOUS
<1>1. Typed
  <2>1. setting \in Settings  BY DEF Init
  <2>2. /\ timing \in BOOLEAN /\ unseen \in BOOLEAN
        /\ epochIsNow \in BOOLEAN /\ lastIsNow \in BOOLEAN
        /\ ended \in BOOLEAN /\ holdsGil \in BOOLEAN /\ heldGil \in BOOLEAN
    BY DEF Init
  <2>3. rss \in {"below", "at", "above"} /\ pc \in Locations  BY DEF Init, Locations
  <2> QED  BY <2>1, <2>2, <2>3, ConstantsAre DEF Init, Typed, Ages
<1>2. Placed /\ Heard /\ Sampled  BY <1>1, Bounds DEF Init, Placed, Heard, Sampled
<1>3. InTime  BY <1>1, Bounds, LateIs DEF Init, InTime, Started, Prompt
<1> QED  BY <1>1, <1>2, <1>3 DEF LoopInv

LEMMA StepKeeps == LoopInv /\ [Next]_vars => LoopInv'
BY WakeKeeps, LookAtEpochKeeps, RestartKeeps, DecideKeeps, RaiseKeeps, SampleKeeps, MeasureKeeps,
   ProgressKeeps, LeaveKeeps, KeepGilKeeps, ReleaseGilKeeps, TickKeeps, MemoryKeeps, StutterKeeps
   DEF Next

LEMMA LoopInvariant == Spec => []LoopInv
BY InitHolds, StepKeeps, PTL DEF Spec

-----------------------------------------------------------------------------
(***************************************************************************)
(* Only Decide sends, and it sends what is due.                            *)
(***************************************************************************)
LEMMA SendsWhatIsDue ==
  ASSUME LoopInv, [Next]_vars, NEW level \in 0 .. 2, Decides(level)
  PROVE  sinceStart >= Due(level) + sinceNow
<1>1. sent' # sent /\ pc = "decide" /\ sent = level  BY DEF Decides
<1>2. Decide
  BY <1>1 DEF Next, vars, Wake, LookAtEpoch, Restart, Raise, Sample, Measure, Progress, Leave,
              KeepGil, ReleaseGil, Tick, Memory
<1>3. sinceStart - sinceNow >= Due(level)  BY <1>1, <1>2 DEF Decide
<1> QED  BY <1>3, Bounds, LateIs DEF LoopInv, Typed, Ages

(* A guard that reports progress is not interrupted too early, whatever    *)
(* its timeout, its grace period and the delays of its loop: the timer of  *)
(* TimeGuard starts from the last progress() the loop has seen.            *)
THEOREM ProgressCounts == Spec => ProgressIsHeard
<1>1. ASSUME LoopInv, [Next]_vars, NEW level \in 0 .. 2, TimeGuard, Decides(level)
      PROVE  quiet <= Slack \/ quiet + Slack >= Due(level)
  <2>1. sinceStart >= Due(level) + sinceNow  BY <1>1, SendsWhatIsDue
  <2>2. pc = "decide" /\ sinceWake <= Slack  BY <1>1 DEF Decides, LoopInv, Placed
  <2>3. CASE unseen  BY <1>1, <2>2, <2>3, Bounds, LateIs DEF LoopInv, Typed, Heard, Ages
  <2>4. CASE ~ unseen  BY <1>1, <2>1, <2>4, Bounds, LateIs DEF LoopInv, Typed, Heard, Ages
  <2> QED  BY <2>3, <2>4
<1>2. LoopInv /\ [Next]_vars =>
        [\A level \in 0 .. 2 :
           TimeGuard /\ Decides(level) => quiet <= Slack \/ quiet + Slack >= Due(level)]_vars
  BY <1>1
<1> QED  BY <1>2, LoopInvariant, PTL DEF Spec, ProgressIsHeard

(* Memory is tolerated above the limit for the grace period, and for the   *)
(* secondary one per level: MemGuard's timer is off after a dip below the  *)
(* limit that lasts for an iteration of the loop.                          *)
THEOREM SpikesPass == Spec => SpikesAreTolerated
<1>1. ASSUME LoopInv, [Next]_vars, NEW level \in 0 .. 2, MemGuard, Decides(level)
      PROVE  sinceDip >= Due(level)
  <2>1. sinceStart >= Due(level) + sinceNow  BY <1>1, SendsWhatIsDue
  <2>2. sinceStart <= sinceDip  BY <1>1 DEF Decides, LoopInv, Placed, Sampled
  <2>3. Due(level) \in Nat  BY <1>1, LateIs DEF LoopInv, Typed
  <2>4. /\ sinceStart \in Nat /\ sinceNow \in Nat /\ sinceDip \in Nat
    BY <1>1, Bounds DEF LoopInv, Typed, Ages
  <2> QED  BY <2>1, <2>2, <2>3, <2>4
<1>2. LoopInv /\ [Next]_vars =>
        [\A level \in 0 .. 2 : MemGuard /\ Decides(level) => sinceDip >= Due(level)]_vars
  BY <1>1
<1> QED  BY <1>2, LoopInvariant, PTL DEF Spec, SpikesAreTolerated

(* The loops of TimeGuard and MemGuard send every level by its deadline,   *)
(* unless progress(), freed memory, the end of the context or a GIL that   *)
(* is not released comes in between.                                       *)
THEOREM LevelsComeInTime == Spec => []InterruptsInTime
<1>1. LoopInv => InterruptsInTime
  <2> SUFFICES ASSUME LoopInv, Prompt, NEW l \in 0 .. 2, quiet > Deadline(l), ~ Sent(l)
               PROVE  FALSE
    BY DEF InterruptsInTime, Prompt
  <2>1. quiet > Late(l) + Iteration + Slack  BY LateIs DEF LoopInv, Typed
  <2>2. PICK s \in 0 .. 3 : s = sent  BY DEF LoopInv, Typed
  <2>3. s <= l \/ (s = l + 1 /\ pc = "gil")  BY <2>2 DEF Sent
  <2>4. CASE s <= l
    <3>1. s \in 0 .. 2 /\ Late(s) <= Late(l)  BY <2>4, LateIs DEF LoopInv, Typed
    <3> QED
      BY <2>1, <2>2, <3>1, Bounds, LateIs DEF LoopInv, Typed, Placed, InTime, Ages
  <2>5. CASE s = l + 1 /\ pc = "gil"
    BY <2>1, <2>2, <2>5, Bounds, LateIs DEF LoopInv, Typed, Placed, InTime, Ages
  <2> QED  BY <2>3, <2>4, <2>5
<1> QED  BY <1>1, LoopInvariant, PTL
=============================================================================
