-------------------------------- MODULE Cooldown -------------------------------
(***************************************************************************)
(* crates/icesickle-core/src/cooldown.rs: the minimum interval between     *)
(* attestations. The code owns one Option<u64> and is handed the clock on  *)
(* every call. gate(t) answers Ok(()) when Ready(t) and records t in the   *)
(* same call; otherwise it answers Err(Remaining(t)) and records nothing.  *)
(***************************************************************************)
EXTENDS Integers

CONSTANTS IntervalMs,     \* Cooldown.interval_ms, a u32
          Never           \* the None of Cooldown.last_ms

ASSUME IntervalAssumption == IntervalMs \in Nat
ASSUME NeverAssumption == Never \notin Int

VARIABLE last_ms          \* Cooldown.last_ms

\* Mutant: saturating_sub where the code has checked_sub.
ReadySaturating(t) == last_ms # Never => /\ t >= last_ms
                                         /\ t - last_ms >= IntervalMs

\* The three ways check finds nothing to wait for: no attestation yet, a clock
\* that reads before the recorded one (checked_sub is None), interval elapsed.
Ready(t) == last_ms # Never => \/ t < last_ms
                               \/ t - last_ms >= IntervalMs

\* Mutant: rounds the wait up by one.
RemainingRoundedUp(t) == IntervalMs + 1 - (t - last_ms)

Remaining(t) == IntervalMs - (t - last_ms)

\* check: CooldownResult, Ready being a wait of 0.
Result(t) == IF Ready(t) THEN 0 ELSE Remaining(t)

\* Mutant: only the first attestation is recorded.
RecordFirst(t) == last_ms' = IF last_ms = Never THEN t ELSE last_ms

Record(t) == last_ms' = t

\* Mutant: gate checks and leaves the recording to its caller.
GateOpensUnrecorded(t) == Ready(t) /\ UNCHANGED last_ms

\* gate answering Ok(()) and gate answering Err(remaining_ms).
GateOpens(t) == Ready(t) /\ Record(t)
GateRefuses(t) == ~ Ready(t) /\ UNCHANGED last_ms
================================================================================
