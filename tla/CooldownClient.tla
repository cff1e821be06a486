----------------------------- MODULE CooldownClient ----------------------------
(***************************************************************************)
(* A caller of Cooldown that asks whenever it likes, on a clock of its     *)
(* own: it advances, and it may be set back. `answer` is what the last     *)
(* check or gate returned: 0 for Ready and Ok(()), the remaining           *)
(* milliseconds for Wait and Err.                                          *)
(***************************************************************************)
EXTENDS Cooldown

CONSTANT MaxNow           \* bound: the caller's clock stops here

ASSUME MaxNowAssumption == MaxNow \in Nat

VARIABLES now,            \* the clock value the caller would pass
          granted,        \* history: when gate answered Ok(()), since the clock
                          \* was last set back
          before,         \* history: and before that, on the clock of that time
          answer,         \* what the last call returned
          askedAt         \* history: the clock value that call was given

vars == <<now, last_ms, granted, before, answer, askedAt>>

--------------------------------------------------------------------------------
Init == /\ now = 0
        /\ last_ms = Never
        /\ granted = {}
        /\ before = {}
        /\ answer = 0
        /\ askedAt = 0

\* cooldown.check(now): answers and records nothing.
Check == /\ answer' = Result(now)
         /\ askedAt' = now
         /\ UNCHANGED <<now, last_ms, granted, before>>

\* cooldown.gate(now) answering Ok(()): checked and recorded in one call.
Attest == /\ GateOpens(now)
          /\ granted' = granted \union {now}
          /\ answer' = 0
          /\ askedAt' = now
          /\ UNCHANGED <<now, before>>

\* cooldown.gate(now) answering Err(remaining_ms).
Refused == /\ GateRefuses(now)
           /\ answer' = Remaining(now)
           /\ askedAt' = now
           /\ UNCHANGED <<now, granted, before>>

\* The caller's clock moves on.
Advance == /\ now' \in now + 1 .. MaxNow
           /\ UNCHANGED <<last_ms, granted, before, answer, askedAt>>

\* The caller's clock is set back: the case checked_sub is for.
StepBack == /\ now' \in 0 .. now - 1
            /\ before' = before \union granted
            /\ granted' = {}
            /\ UNCHANGED <<last_ms, answer, askedAt>>

Next == Check \/ Attest \/ Refused \/ Advance \/ StepBack

Spec == Init /\ [][Next]_vars

--------------------------------------------------------------------------------
TypeOK == /\ now \in 0..MaxNow
          /\ last_ms \in 0..MaxNow \union {Never}
          /\ granted \subseteq 0..MaxNow
          /\ before \subseteq 0..MaxNow
          /\ answer \in 0..IntervalMs
          /\ askedAt \in 0..MaxNow

\* The grants a request made at time t would still have to wait for.
InWindow(t) == {g \in granted : t - g < IntervalMs}

\* One optional timestamp is enough to keep all grants of a running clock apart,
\* even when it still holds one of a clock that was set back: gate never opens
\* twice within the interval, so unused time cannot be banked for a burst
\* (cooldown.rs module docs).
GrantsSpaced == \A g, h \in granted : g < h => h - g >= IntervalMs

\* The number of milliseconds the caller is told to wait is exact over all
\* grants and not merely over the recorded one: gate would open at that instant
\* and not one millisecond before (remaining_ms of check and gate).
WaitIsExact ==
    answer > 0 /\ before = {} => /\ InWindow(askedAt + answer) = {}
                                 /\ InWindow(askedAt + answer - 1) # {}

\* Whatever the clock does, a refusal is owed to a grant the clock had already
\* reached, and ends one interval after it: a clock that reads backwards can
\* never latch the device shut or hand out a wait longer than the interval
\* (the checked_sub of check).
NeverLatched ==
    answer > 0 => \E g \in granted \union before : /\ g <= askedAt
                                                   /\ askedAt + answer = g + IntervalMs

\* The promise this timestamp keeps.
Limiter == INSTANCE RateLimiter

\* The code implements the promise over all grants: every opening of gate finds
\* the whole window clear, and a check or a refusal changes nothing of it.
ImplementsRateLimiter == Limiter!Spec
================================================================================
