------------------------------ MODULE Monotonic -------------------------------
(* time.monotonic(), in whole seconds from the start of the process.        *)
EXTENDS Integers

CONSTANT MaxNow   \* bound on the clock

VARIABLE now

Tick == now < MaxNow /\ now' = now + 1
=============================================================================
