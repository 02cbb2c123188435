----------------------------- MODULE WallClock ------------------------------
(***************************************************************************)
(* The time that one process reads from time.time() and time.monotonic(),  *)
(* in ticks, shared by the modules of that process.                        *)
(***************************************************************************)
EXTENDS Integers

CONSTANT MaxTime    \* bound on the ticks

ASSUME ClockAssumption == MaxTime \in Nat

VARIABLE now

Tick == now < MaxTime /\ now' = now + 1
=============================================================================
