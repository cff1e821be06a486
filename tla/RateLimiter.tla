------------------------------ MODULE RateLimiter ------------------------------
(***************************************************************************)
(* What a rate limiter promises, without saying how it is kept: no two     *)
(* grants fall inside one window of IntervalMs, a request is refused only  *)
(* when a grant is still inside the window, and a refusal costs nothing.   *)
(* The promise is stated over the set of all grants given since the clock  *)
(* was last set back; the code of cooldown.rs keeps one optional timestamp *)
(* instead (module Cooldown).                                              *)
(***************************************************************************)
EXTENDS Integers

CONSTANT IntervalMs       \* the window, in milliseconds

VARIABLES now,            \* the caller's clock
          granted         \* the times of every grant on this clock

vars == <<now, granted>>

\* The grants that still weigh on a request made at time t.
InWindow(t) == {g \in granted : t - g < IntervalMs}

Init == /\ now = 0
        /\ granted = {}

\* Time passes.
Advance == /\ now' \in Nat
           /\ now' > now
           /\ UNCHANGED granted

\* The clock is set back: grants timed on the clock before no longer count.
StepBack == /\ now' \in 0 .. now - 1
            /\ granted' = {}

\* A request is granted exactly when the window is clear. A refused request
\* is a stuttering step: it leaves no trace.
Grant == /\ InWindow(now) = {}
         /\ granted' = granted \union {now}
         /\ UNCHANGED now

Next == Advance \/ StepBack \/ Grant

Spec == Init /\ [][Next]_vars
================================================================================
