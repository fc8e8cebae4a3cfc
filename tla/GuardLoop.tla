------------------------------- MODULE GuardLoop -------------------------------
(***************************************************************************)
(* The guard thread of one context in time: TimeGuard's loop with          *)
(* progress(), and MemGuard's over the process's memory.  Time advances in *)
(* ticks, between any two steps of the loop.  Points in time are kept as   *)
(* ages, the time that has passed since.  The loop runs without the GIL    *)
(* and takes it to raise an exception; the guarded body may keep it, in a  *)
(* native function that does not release it.                               *)
(***************************************************************************)
EXTENDS Naturals

CONSTANTS
  Settings,   \* [class, type, first, grace]: type is interrupt_type, first is timeout
              \* (TimeGuard) or grace_period (MemGuard), grace is grace_period or
              \* secondary_grace_period
  MinGrace,   \* the 10 ms of max(10u, ...)
  Check,      \* check_interval
  Slack,      \* bound: how much longer an iteration takes than check_interval
  MaxAge      \* bound: an age that is not told from higher ones

Greater(a, b) == IF a > b THEN a ELSE b
Gap(setting) == Greater(MinGrace, setting.grace)

ASSUME LoopAssumption ==
  /\ Settings \subseteq
       [class : {"TimeGuard", "MemGuard"}, first : Nat, grace : Nat,
        type : {"exception", "signal", "exception_then_signal"}]
  /\ MinGrace \in Nat /\ Check \in Nat /\ Slack \in Nat /\ MaxAge \in Nat
  /\ \A s \in Settings :
       s.first + 2 * Greater(Gap(s), Check + Slack) + 2 * Check + 4 * Slack < MaxAge

VARIABLES
  setting,    \* the guard's parameters
  pc,         \* where its loop is
  sent,       \* signals_sent
  left,       \* what is left of usleep()
  sinceWake,  \* age of the iteration
  sinceNow,   \* age of now
  timing,     \* MemGuard: grace_start # 0
  sinceStart, \* age of start, or of grace_start
  unseen,     \* TimeGuard: epoch_counter > last_epoch
  epochIsNow, \* epoch_counter is the current time
  lastIsNow,  \* last_epoch is the current time
  rss,        \* the process's memory, compared to the limit
  ended,      \* gctx.ended
  holdsGil,   \* the body keeps the GIL
  quiet,      \* history: time without progress(), or with memory above the limit
  heldGil,    \* history: the body has kept it
  belowFor,   \* history: how long memory is below the limit
  sinceDip    \* history: time since memory was below it for long enough to be sampled

timers == <<left, sinceWake, sinceNow, sinceStart>>
epoch == <<unseen, epochIsNow, lastIsNow>>
history == <<quiet, heldGil, belowFor, sinceDip>>
body == <<rss, ended, holdsGil>>
vars == <<setting, pc, sent, timing, body, timers, epoch, history>>

TimeGuard == setting.class = "TimeGuard"
MemGuard == setting.class = "MemGuard"
Older(age) == IF age = MaxAge THEN age ELSE age + 1
Iteration == Check + Slack
Due(level) == setting.first + level * Gap(setting)
-----------------------------------------------------------------------------
(***************************************************************************)
(* The loop.                                                               *)
(***************************************************************************)

Sleep == left' = Check /\ pc' = "sleep"

NeedsGil(level) ==
  setting.type = "exception" \/ (setting.type = "exception_then_signal" /\ level = 0)

(* The loop ends after the last level.                                     *)
Rest(level) == IF level = 2 THEN pc' = "over" /\ UNCHANGED left ELSE Sleep

(* usleep() returns, ended is checked, and TimeGuard reads the clock.      *)
Wake ==
  /\ pc = "sleep"
  /\ left = 0
  /\ pc' = IF ended THEN "over" ELSE IF TimeGuard THEN "look" ELSE "sample"
  /\ sinceWake' = 0
  /\ sinceNow' = IF TimeGuard THEN 0 ELSE sinceNow
  /\ UNCHANGED <<setting, sent, left, timing, sinceStart, body, epoch, history>>

(* Mutant: any epoch is taken for a new one.                               *)
LookAtAnyEpoch ==
  /\ pc = "look"
  /\ pc' = "restart"
  /\ UNCHANGED <<setting, sent, timing, timers, body, epoch, history>>

(* The first load of epoch_counter.                                        *)
LookAtEpoch ==
  /\ pc = "look"
  /\ pc' = IF unseen THEN "restart" ELSE "decide"
  /\ UNCHANGED <<setting, sent, timing, timers, body, epoch, history>>

(* Mutant: the timer goes on.                                              *)
RestartNothing ==
  /\ pc = "restart"
  /\ unseen' = FALSE
  /\ lastIsNow' = epochIsNow
  /\ sent' = 0
  /\ pc' = "decide"
  /\ UNCHANGED <<setting, timing, timers, epochIsNow, body, history>>

(* The timer starts at now, which is older than the second load of         *)
(* epoch_counter: a progress() that came in between is taken as seen.      *)
Restart ==
  /\ pc = "restart"
  /\ sinceStart' = sinceNow
  /\ unseen' = FALSE
  /\ lastIsNow' = epochIsNow
  /\ sent' = 0
  /\ pc' = "decide"
  /\ UNCHANGED <<setting, timing, left, sinceWake, sinceNow, epochIsNow, body, history>>

(* The branches of the loop: the next level is sent if it is due, by       *)
(* pthread_kill(), or with the GIL as an exception.  A context that is     *)
(* left is sent nothing.                                                   *)
Decide ==
  /\ pc = "decide"
  /\ IF sinceStart - sinceNow >= Due(sent)
       THEN /\ sent' = sent + 1
            /\ IF NeedsGil(sent) /\ ~ended THEN pc' = "gil" /\ UNCHANGED left ELSE Rest(sent)
       ELSE Sleep /\ UNCHANGED sent
  /\ UNCHANGED <<setting, timing, sinceWake, sinceNow, sinceStart, body, epoch, history>>

Raise ==
  /\ pc = "gil"
  /\ ~holdsGil
  /\ Rest(sent - 1)
  /\ UNCHANGED <<setting, sent, timing, sinceWake, sinceNow, sinceStart, body, epoch, history>>

(* Mutant: the timer goes on when memory drops.                            *)
SampleWithoutReset ==
  /\ pc = "sample"
  /\ IF rss = "above" THEN pc' = "measure" /\ UNCHANGED left ELSE Sleep
  /\ UNCHANGED <<setting, sent, timing, sinceWake, sinceNow, sinceStart, body, epoch, history>>

(* MemGuard reads the process's memory; below the limit the timer is off.  *)
Sample ==
  /\ pc = "sample"
  /\ IF rss = "above" THEN pc' = "measure" /\ UNCHANGED left ELSE Sleep
  /\ IF rss = "below" /\ timing
       THEN timing' = FALSE /\ sent' = 0
       ELSE UNCHANGED <<timing, sent>>
  /\ UNCHANGED <<setting, sinceWake, sinceNow, sinceStart, body, epoch, history>>

(* Memory was above: the clock is read, the timer is started if it is off. *)
Measure ==
  /\ pc = "measure"
  /\ sinceNow' = 0
  /\ IF timing
       THEN UNCHANGED <<timing, sinceStart, sent>>
       ELSE timing' = TRUE /\ sinceStart' = 0 /\ sent' = 0
  /\ pc' = "decide"
  /\ UNCHANGED <<setting, left, sinceWake, body, epoch, history>>

Loop == Wake \/ LookAtEpoch \/ Restart \/ Decide \/ Raise \/ Sample \/ Measure
-----------------------------------------------------------------------------
(***************************************************************************)
(* The guarded body, and time.                                             *)
(***************************************************************************)

(* progress() stores the time, which need not differ from last_epoch.      *)
Progress ==
  /\ TimeGuard
  /\ ~ended
  /\ unseen' = (unseen \/ ~lastIsNow)
  /\ epochIsNow' = TRUE
  /\ quiet' = 0
  /\ UNCHANGED <<setting, pc, sent, timing, timers, lastIsNow, body, heldGil, belowFor,
                 sinceDip>>

(* The process takes or frees memory.                                      *)
Memory(level) ==
  /\ MemGuard
  /\ level # rss
  /\ rss' = level
  /\ quiet' = 0
  /\ belowFor' = 0
  /\ UNCHANGED <<setting, pc, sent, timing, timers, epoch, ended, holdsGil, heldGil, sinceDip>>

(* finish(): the context is left.                                          *)
Leave ==
  /\ ~ended /\ ~holdsGil
  /\ ended' = TRUE
  /\ UNCHANGED <<setting, pc, sent, timing, timers, epoch, rss, holdsGil, history>>

KeepGil ==
  /\ ~ended /\ ~holdsGil
  /\ holdsGil' = TRUE /\ heldGil' = TRUE
  /\ UNCHANGED <<setting, pc, sent, timing, timers, epoch, rss, ended, quiet, belowFor, sinceDip>>

ReleaseGil ==
  /\ holdsGil
  /\ holdsGil' = FALSE
  /\ UNCHANGED <<setting, pc, sent, timing, timers, epoch, rss, ended, history>>

Waits == pc = "gil" /\ holdsGil

(* The loop is not kept from running for more than Slack per iteration,    *)
(* not counting the time that it waits for the GIL.                        *)
Tick ==
  /\ pc # "over"
  /\ \/ sinceWake < IF pc = "sleep" THEN Iteration ELSE Slack
     \/ Waits
  /\ left' = IF pc = "sleep" /\ left > 0 THEN left - 1 ELSE left
  /\ sinceWake' = IF Waits THEN sinceWake ELSE sinceWake + 1
  /\ sinceNow' = Older(sinceNow)
  /\ sinceStart' = Older(sinceStart)
  /\ epochIsNow' = FALSE /\ lastIsNow' = FALSE
  /\ quiet' = IF TimeGuard \/ rss = "above" THEN Older(quiet) ELSE 0
  /\ IF rss = "below" /\ belowFor > Iteration + Slack
       THEN belowFor' = belowFor /\ sinceDip' = 0
       ELSE /\ belowFor' = IF rss = "below" /\ ~Waits THEN belowFor + 1 ELSE 0
            /\ sinceDip' = IF MemGuard THEN Older(sinceDip) ELSE 0
  /\ UNCHANGED <<setting, pc, sent, timing, unseen, body, heldGil>>

(* TimeGuard starts its timer and sleeps, MemGuard samples at once.        *)
(* epoch_counter and last_epoch are 0.                                     *)
Init ==
  /\ setting \in Settings
  /\ pc = IF TimeGuard THEN "sleep" ELSE "sample"
  /\ sent = 0
  /\ left = IF TimeGuard THEN Check ELSE 0
  /\ sinceWake = 0 /\ sinceNow = 0 /\ sinceStart = 0
  /\ unseen = FALSE /\ epochIsNow = FALSE /\ lastIsNow = FALSE
  /\ timing = FALSE
  /\ rss \in IF TimeGuard THEN {"at"} ELSE {"below", "at", "above"}
  /\ ended = FALSE /\ holdsGil = FALSE /\ heldGil = FALSE
  /\ quiet = 0 /\ belowFor = 0 /\ sinceDip = 0

Next ==
  \/ Wake \/ LookAtEpoch \/ Restart \/ Decide \/ Raise \/ Sample \/ Measure
  \/ Progress \/ Leave \/ KeepGil \/ ReleaseGil \/ Tick
  \/ \E level \in {"below", "at", "above"} : Memory(level)

Spec == Init /\ [][Next]_vars
-----------------------------------------------------------------------------
Decides(level) == pc = "decide" /\ sent = level /\ sent' = level + 1

(* A context that reports progress is not interrupted before its timeout,  *)
(* nor by a higher level before the grace periods are over, but for the    *)
(* delay between reading the clock and loading the epoch; and a progress() *)
(* that races the decision may come too late.                              *)
ProgressIsHeard ==
  [][\A level \in 0 .. 2 :
       TimeGuard /\ Decides(level) => quiet <= Slack \/ quiet + Slack >= Due(level)]_vars

(* Memory that was below the limit long enough to be sampled (by a loop    *)
(* that does not wait for the GIL) may exceed it for the grace period, and *)
(* for another secondary grace period per level, before an interrupt is    *)
(* sent.                                                                   *)
SpikesAreTolerated ==
  [][\A level \in 0 .. 2 : MemGuard /\ Decides(level) => sinceDip >= Due(level)]_vars

(* A context without progress, or with too much memory, is interrupted by  *)
(* each level in time: one iteration may pass until the loop notices (of a *)
(* MemGuard, that reads the clock after the memory, a bit more), one until *)
(* it looks again, and a level takes at least an iteration.  A body that   *)
(* keeps the GIL delays exceptions, and all levels that come after one,    *)
(* but no signal of a guard that only sends signals.                       *)
Noticed == IF MemGuard THEN Iteration + Slack ELSE Iteration
Deadline(level) ==
  setting.first + level * Greater(Gap(setting), Iteration) + Noticed + Iteration + Slack

Sent(level) == sent > level + 1 \/ (sent = level + 1 /\ pc # "gil")

InterruptsInTime ==
  ~ended /\ (heldGil => setting.type = "signal") =>
    \A level \in 0 .. 2 : quiet > Deadline(level) => Sent(level)
=============================================================================
