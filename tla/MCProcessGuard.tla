------------------------------ MODULE MCProcessGuard ------------------------------
(***************************************************************************)
(* Two TimeGuards, one of which sends signals, and a MemGuard.             *)
(***************************************************************************)
EXTENDS ProcessGuard

CONSTANTS t1, t2, m1

ClassOf == [g \in Guards |-> IF g = m1 THEN "MemGuard" ELSE "TimeGuard"]
SignalsOf == {t2}
===================================================================================
