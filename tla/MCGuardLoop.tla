------------------------------- MODULE MCGuardLoop -------------------------------
(***************************************************************************)
(* Guards that interrupt at once and after a while, with grace periods     *)
(* shorter and longer than an iteration of the loop.                       *)
(***************************************************************************)
EXTENDS GuardLoop

Guard(class, type, first, grace) ==
  [class |-> class, type |-> type, first |-> first, grace |-> grace]

SomeSettings ==
  { Guard("TimeGuard", "exception", 6, 0),
    Guard("TimeGuard", "exception_then_signal", 0, 5),
    Guard("TimeGuard", "signal", 4, 5),
    Guard("MemGuard", "exception_then_signal", 5, 0),
    Guard("MemGuard", "signal", 3, 5) }
==================================================================================
