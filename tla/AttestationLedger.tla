--------------------------- MODULE AttestationLedger ---------------------------
(***************************************************************************)
(* What a device promises about the attestations it has ever printed, all  *)
(* its power cycles together, without saying how: the module Firmware      *)
(* implements it. An entry is                                              *)
(*   session   the power cycle it was made in                              *)
(*   counter   AttestationPayload.counter                                  *)
(*   stamp     AttestationPayload.timestamp_ms, a whole second             *)
(*   polled    when the press was sampled      (true time, not printed)    *)
(*   made      when the signature was finished (true time, not printed)    *)
(***************************************************************************)
EXTENDS Integers

CONSTANTS IntervalMs,     \* the cooldown
          HandlingMs,     \* longest from the sample of a press to the signature
          SecondMs        \* one second, the resolution of the clock chip

VARIABLES session,        \* power cycles so far
          log             \* the entries, a set: every entry is distinct

vars == <<session, log>>

\* The entries of the power cycle under way: the only ones the device knows of.
ThisSession == {x \in log : x.session = session}

\* t rounded down to the second the clock chip shows.
Second(t) == (t \div SecondMs) * SecondMs

Init == /\ session = 0
        /\ log = {}

\* A power cycle: the counter and the cooldown start over, the log stands.
Restart == /\ session' = session + 1
           /\ UNCHANGED log

\* One more attestation: the next number of its session, made after all others,
\* pressed one interval after the others of its session, stamped with a second
\* of its own handling.
Issue(e) == /\ e.session = session
            /\ {x.counter : x \in ThisSession} = 0 .. e.counter - 1
            /\ \A x \in log : x.made <= e.polled
            /\ \A x \in ThisSession : e.polled - x.polled >= IntervalMs
            /\ e.made - e.polled \in 0..HandlingMs
            /\ \E t \in e.polled..e.made : e.stamp = Second(t)
            /\ log' = log \union {e}
            /\ UNCHANGED session

Next == Restart \/ \E e \in log' \ log : Issue(e)

Spec == Init /\ [][Next]_vars
================================================================================
