---------------------------- MODULE CooldownProofs -----------------------------
(***************************************************************************)
(* Cooldown proved for every interval and every length of clock, which may *)
(* be set back: its type, the spacing of all grants, the exactness of the  *)
(* wait, that no refusal latches, and that one timestamp implements the    *)
(* limiter over all grants.                                                *)
(***************************************************************************)
EXTENDS CooldownClient, TLAPS

Ever == granted \union before

\* The recorded timestamp is the latest grant of this clock, which has passed it,
\* or a grant of a clock that was set back since.
LastIsLatest == /\ (last_ms = Never) <=> (Ever = {})
                /\ last_ms # Never => last_ms \in Ever
                /\ granted # {} => /\ last_ms \in granted
                                   /\ \A g \in granted : g <= last_ms
                /\ \A g \in granted : g <= now

\* A refusal was owed to a grant no later than the question.
WaitOwed == answer > 0 => \E g \in Ever : /\ g <= askedAt
                                          /\ askedAt + answer = g + IntervalMs
                                          /\ before = {} => \A h \in granted : h <= g

IInv == TypeOK /\ LastIsLatest /\ GrantsSpaced /\ WaitOwed

USE IntervalAssumption, NeverAssumption, MaxNowAssumption

LEMMA InitIInv == Init => IInv
  BY DEF Init, IInv, TypeOK, LastIsLatest, GrantsSpaced, WaitOwed, Ever

LEMMA CheckKeeps == IInv /\ Check => IInv'
<1> SUFFICES ASSUME IInv, Check PROVE IInv'
  OBVIOUS
<1> USE DEF IInv, Check, Result, Ready, Remaining, Ever
<1>1. TypeOK'
  BY DEF TypeOK, LastIsLatest
<1>2. LastIsLatest' /\ GrantsSpaced'
  BY DEF LastIsLatest, GrantsSpaced
<1>3. WaitOwed'
  BY DEF WaitOwed, LastIsLatest, TypeOK
<1> QED BY <1>1, <1>2, <1>3

LEMMA RefusalKeeps == IInv /\ Refused => IInv'
<1> SUFFICES ASSUME IInv, Refused PROVE IInv'
  OBVIOUS
<1> USE DEF IInv, Refused, GateRefuses, Ready, Remaining, Ever
<1>1. TypeOK'
  BY DEF TypeOK, LastIsLatest
<1>2. LastIsLatest' /\ GrantsSpaced'
  BY DEF LastIsLatest, GrantsSpaced
<1>3. WaitOwed'
  BY DEF WaitOwed, LastIsLatest, TypeOK
<1> QED BY <1>1, <1>2, <1>3

LEMMA OpeningKeeps == IInv /\ Attest => IInv'
<1> SUFFICES ASSUME IInv, Attest PROVE IInv'
  OBVIOUS
<1> USE DEF IInv, Attest, GateOpens, Ready, Record, Ever
<1>1. TypeOK'
  BY DEF TypeOK
<1>2. LastIsLatest'
  BY DEF LastIsLatest, TypeOK
\* The new grant is at least one interval after the recorded one, which is at
\* least as late as every other.
<1>3. GrantsSpaced'
  <2> SUFFICES ASSUME NEW g \in granted', NEW h \in granted', g < h
               PROVE  h - g >= IntervalMs
    BY DEF GrantsSpaced
  <2>1. CASE h \in granted
    BY <2>1 DEF GrantsSpaced, LastIsLatest, TypeOK
  <2>2. CASE h = now /\ g \in granted
    BY <2>2 DEF LastIsLatest, TypeOK
  <2>3. h \in granted \/ (h = now /\ g \in granted)
    BY DEF TypeOK
  <2> QED BY <2>1, <2>2, <2>3
<1>4. WaitOwed'
  BY DEF WaitOwed
<1> QED BY <1>1, <1>2, <1>3, <1>4

LEMMA ClockKeeps == IInv /\ Advance => IInv'
<1> SUFFICES ASSUME IInv, Advance PROVE IInv'
  OBVIOUS
<1> USE DEF IInv, Advance
<1>1. TypeOK' /\ LastIsLatest'
  BY DEF TypeOK, LastIsLatest, Ever
<1>2. GrantsSpaced' /\ WaitOwed'
  BY DEF GrantsSpaced, WaitOwed, Ever
<1> QED BY <1>1, <1>2

\* Every grant is kept, in `before`; a wait already answered is still owed to one.
LEMMA SettingBackKeeps == IInv /\ StepBack => IInv'
<1> SUFFICES ASSUME IInv, StepBack PROVE IInv'
  OBVIOUS
<1> USE DEF IInv, StepBack, Ever
<1>1. TypeOK' /\ GrantsSpaced'
  BY DEF TypeOK, GrantsSpaced
<1>2. Ever' = Ever /\ granted' = {}
  OBVIOUS
<1>3. LastIsLatest' /\ WaitOwed'
  BY <1>2 DEF LastIsLatest, WaitOwed
<1> QED BY <1>1, <1>3

LEMMA NextKeeps == IInv /\ [Next]_vars => IInv'
<1>1. IInv /\ UNCHANGED vars => IInv'
  BY DEF IInv, TypeOK, LastIsLatest, GrantsSpaced, WaitOwed, Ever, vars
<1> QED BY <1>1, CheckKeeps, RefusalKeeps, OpeningKeeps, ClockKeeps, SettingBackKeeps
     DEF Next

LEMMA Inductive == Spec => []IInv
  BY InitIInv, NextKeeps, PTL DEF Spec

LEMMA WindowMembers == \A t : \A x : x \in InWindow(t) <=> x \in granted /\ t - x < IntervalMs
  BY DEF InWindow

\* The cooldown keeps its types whatever the interval: in particular the wait
\* it answers fits the u32 the code returns it in (check, gate).
THEOREM TypeCorrect == Spec => []TypeOK
<1>1. IInv => TypeOK
  BY DEF IInv
<1> QED BY <1>1, Inductive, PTL

\* No two grants of one clock are closer than the interval (gate).
THEOREM Spaced == Spec => []GrantsSpaced
<1>1. IInv => GrantsSpaced
  BY DEF IInv
<1> QED BY <1>1, Inductive, PTL

\* The wait a refused caller is told ends exactly when the window over all
\* grants clears (remaining_ms of check and gate).
THEOREM ExactWait == Spec => []WaitIsExact
<1>1. IInv => WaitIsExact
  <2> SUFFICES ASSUME IInv, answer > 0, before = {}
               PROVE  /\ InWindow(askedAt + answer) = {}
                      /\ InWindow(askedAt + answer - 1) # {}
    BY DEF WaitIsExact
  <2>1. PICK g \in granted : /\ g <= askedAt
                            /\ askedAt + answer = g + IntervalMs
                            /\ \A h \in granted : h <= g
    BY DEF IInv, WaitOwed, Ever
  <2>2. \A h \in granted : ~ (askedAt + answer - h < IntervalMs)
    BY <2>1 DEF IInv, TypeOK
  <2>3. askedAt + answer - 1 - g < IntervalMs
    BY <2>1 DEF IInv, TypeOK
  <2>4. InWindow(askedAt + answer) = {}
    <3> SUFFICES ASSUME NEW x \in InWindow(askedAt + answer) PROVE FALSE
      OBVIOUS
    <3>1. x \in granted /\ askedAt + answer - x < IntervalMs
      BY DEF InWindow, IInv, TypeOK
    <3> QED BY <3>1, <2>2 DEF IInv, TypeOK
  <2>5. g \in InWindow(askedAt + answer - 1)
    BY <2>3, WindowMembers DEF IInv, TypeOK
  <2> QED BY <2>4, <2>5
<1> QED BY <1>1, Inductive, PTL

\* No clock, however it is set, latches the device shut: a refusal ends one
\* interval after a grant the clock had reached (checked_sub in check).
THEOREM NotLatched == Spec => []NeverLatched
<1>1. IInv => NeverLatched
  BY DEF IInv, WaitOwed, NeverLatched, Ever
<1> QED BY <1>1, Inductive, PTL

\* One optional timestamp implements the limiter over all grants: gate opens
\* only on a clear window, and nothing else touches the grants (cooldown.rs).
THEOREM Implements == Spec => ImplementsRateLimiter
<1>1. Init => Limiter!Init
  BY DEF Init, Limiter!Init
<1>2. IInv /\ [Next]_vars => [Limiter!Next]_(Limiter!vars)
  <2> SUFFICES ASSUME IInv, [Next]_vars PROVE [Limiter!Next]_(Limiter!vars)
    OBVIOUS
  <2> USE DEF Limiter!vars
  <2>1. CASE Check \/ Refused \/ UNCHANGED vars
    BY <2>1 DEF Check, Refused, GateRefuses, vars
  <2>2. CASE Attest
    <3>1. \A g \in granted : ~ (now - g < IntervalMs)
      BY <2>2 DEF Attest, GateOpens, Ready, IInv, LastIsLatest, TypeOK, Ever
    <3>2. Limiter!InWindow(now) = {}
      BY <3>1, Zenon DEF Limiter!InWindow
    <3> QED BY <2>2, <3>2 DEF Attest, Limiter!Grant, Limiter!Next
  <2>3. CASE Advance
    BY <2>3 DEF Advance, IInv, TypeOK, Limiter!Advance, Limiter!Next
  <2>4. CASE StepBack
    BY <2>4 DEF StepBack, Limiter!StepBack, Limiter!Next
  <2> QED BY <2>1, <2>2, <2>3, <2>4 DEF Next
<1> QED BY <1>1, <1>2, Inductive, PTL DEF Spec, ImplementsRateLimiter, Limiter!Spec
================================================================================
