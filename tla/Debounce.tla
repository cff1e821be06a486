-------------------------------- MODULE Debounce -------------------------------
(***************************************************************************)
(* crates/icesickle-core/src/button.rs: the debounced button. Lockout, not *)
(* integration: an accepted change is reported at once and starts a window *)
(* in which further changes are ignored. An accepted edge is visible as a  *)
(* change of `pressed`; update answers None exactly when it stays.         *)
(***************************************************************************)
EXTENDS Integers

CONSTANT DebounceMs            \* Button.debounce_ms

ASSUME DebounceAssumption == DebounceMs \in Nat

VARIABLES pressed,             \* Button.pressed, the debounced level
          last_change_ms       \* Button.last_change_ms

button == <<pressed, last_change_ms>>

\* Mutant: the prototype's seed, which always assumed a released button.
SeedReleased(level, t) == /\ pressed' = FALSE
                          /\ last_change_ms' = t

\* Button::new: seeded from the pin's own level.
Seed(level, t) == /\ pressed' = level
                  /\ last_change_ms' = t

\* saturating_sub: a clock that reads backwards has elapsed nothing.
Elapsed(t) == IF t < last_change_ms THEN 0 ELSE t - last_change_ms

\* Mutant: no lockout.
NeverLocked(t) == FALSE

Locked(t) == Elapsed(t) < DebounceMs

Accepts(raw, t) == raw # pressed /\ ~ Locked(t)

\* Mutant: an ignored change restarts the lockout.
UpdateRestarting(raw, t) == \/ /\ Accepts(raw, t)
                               /\ pressed' = raw
                               /\ last_change_ms' = t
                            \/ /\ ~ Accepts(raw, t)
                               /\ pressed' = pressed
                               /\ last_change_ms' = IF raw = pressed
                                                   THEN last_change_ms ELSE t

\* Mutant: the end of the lockout is stored where its start belongs.
UpdateDeadline(raw, t) == \/ /\ Accepts(raw, t)
                             /\ pressed' = raw
                             /\ last_change_ms' = t + DebounceMs
                          \/ /\ ~ Accepts(raw, t)
                             /\ UNCHANGED button

\* Button::update on one sample.
Update(raw, t) == \/ /\ Accepts(raw, t)
                     /\ pressed' = raw
                     /\ last_change_ms' = t
                  \/ /\ ~ Accepts(raw, t)
                     /\ UNCHANGED button
================================================================================
