------------------------------ MODULE TriggerProofs -----------------------------
(***************************************************************************)
(* The trigger proved for every lockout, bounce, polling interval and      *)
(* absence of the loop: its type, that a held level is seen, and, for a    *)
(* contact whose bounce the lockout outlasts, that no press is invented    *)
(* and every deliberate one is reported once.                              *)
(***************************************************************************)
EXTENDS Trigger, TLAPS

\* button.rs: what its lockout absorbs is a bounce no longer than the window.
BounceAbsorbed == BounceMs <= DebounceMs

TimesTyped == /\ now \in 0..MaxNow
              /\ {polledAt, movedAt, last_change_ms} \subseteq 0..now
LevelsTyped == {pressed, away, finger, hurried} \subseteq BOOLEAN
CountsTyped == /\ moves \in 0..MaxMoves
               /\ presses \in 0..moves
               /\ reports \in Nat
Typed == TimesTyped /\ LevelsTyped /\ CountsTyped

\* The loop is never away from the pin for longer than its gap.
LoopIsBack == now - polledAt <= Gap

\* A debounced level that is not the finger's is one the finger has since left:
\* the change to it came no later than the bounce of the last move, and the loop
\* has either not looked since that bounce or found the button locked.
Unseen == pressed # finger => /\ moves > 0
                              /\ last_change_ms <= movedAt + BounceMs
                              /\ \/ polledAt <= movedAt + BounceMs
                                 \/ polledAt < last_change_ms + DebounceMs

\* A bounce can still be taken for a change to the other level.
Open == moves > 0 /\ last_change_ms < movedAt

\* A press is in hand whenever a report can come that the finger, as it stands,
\* would not account for.
PressInHand == /\ reports <= presses
               /\ ~ pressed /\ finger => reports < presses
               /\ Open /\ (pressed <=> finger) => reports < presses

\* A finger that never hurried has had all but its last press reported, and once
\* its last move is seen no bounce of it can be.
Balanced == ~ hurried => /\ ~ pressed /\ finger => reports + 1 = presses
                         /\ pressed \/ ~ finger => reports = presses
                         /\ ~ (Open /\ (pressed <=> finger))

IInv == Typed /\ LoopIsBack /\ Unseen
Absorbed == PressInHand /\ Balanced

--------------------------------------------------------------------------------
LEMMA InitIInv == Init => IInv
<1> SUFFICES ASSUME Init PROVE IInv
  OBVIOUS
<1> USE TriggerAssumption DEF Init
<1>1. TimesTyped /\ CountsTyped
  BY DEF TimesTyped, CountsTyped
<1>2. LevelsTyped
  BY Zenon DEF LevelsTyped
<1>3. LoopIsBack /\ Unseen
  BY DEF LoopIsBack, Gap, Unseen
<1> QED
  BY <1>1, <1>2, <1>3 DEF IInv, Typed

\* What one sample does to the button.
LEMMA UpdateDoes ==
    ASSUME Typed, NEW raw \in BOOLEAN, Update(raw, now)
    PROVE  \/ /\ pressed' = raw /\ raw # pressed
              /\ last_change_ms' = now
              /\ now - last_change_ms >= DebounceMs
           \/ /\ pressed' = pressed /\ last_change_ms' = last_change_ms
              /\ raw = pressed \/ now - last_change_ms < DebounceMs
BY DebounceAssumption
   DEF Typed, TimesTyped, Update, Accepts, Locked, Elapsed, button

LEMMA LevelIsBoolean == Typed => Level \subseteq BOOLEAN
BY DEF Typed, LevelsTyped, Level

LEMMA MoveKeeps == IInv /\ Move => IInv'
<1> SUFFICES ASSUME IInv, Move PROVE IInv'
  OBVIOUS
<1> USE TriggerAssumption, DebounceAssumption DEF IInv, Move
<1>1. Typed'
  BY DEF Typed, TimesTyped, LevelsTyped, CountsTyped
<1>2. LoopIsBack'
  BY DEF LoopIsBack, Gap
<1>3. Unseen'
  BY DEF Unseen, Typed, TimesTyped, CountsTyped
<1> QED
  BY <1>1, <1>2, <1>3

LEMMA PollKeeps == ASSUME IInv, NEW raw \in Level, Poll(raw) PROVE IInv'
<1> USE TriggerAssumption, DebounceAssumption DEF IInv, Poll
<1>1. raw \in BOOLEAN
  BY LevelIsBoolean
<1>2. \/ /\ pressed' = raw /\ raw # pressed
         /\ last_change_ms' = now
         /\ now - last_change_ms >= DebounceMs
      \/ /\ pressed' = pressed /\ last_change_ms' = last_change_ms
         /\ raw = pressed \/ now - last_change_ms < DebounceMs
  BY <1>1, UpdateDoes
<1>3. Typed'
  <2>1. TimesTyped'
    BY <1>2 DEF Typed, TimesTyped
  <2>2. LevelsTyped'
    BY <1>1, <1>2 DEF Typed, LevelsTyped
  <2>3. CountsTyped'
    BY DEF Typed, CountsTyped
  <2> QED
    BY <2>1, <2>2, <2>3 DEF Typed
<1>4. LoopIsBack'
  BY DEF LoopIsBack, Gap, Typed, TimesTyped
<1>5. Unseen'
  <2>1. now \in Nat /\ movedAt \in Nat /\ movedAt <= now
    BY DEF Typed, TimesTyped
  <2>2. CASE moves > 0 /\ now - movedAt < BounceMs
    BY <1>2, <2>1, <2>2 DEF Unseen, Typed, TimesTyped
  <2>3. CASE ~ (moves > 0 /\ now - movedAt < BounceMs)
    <3>1. raw = finger
      BY <2>3 DEF Level
    <3> QED
      BY <1>2, <2>1, <3>1 DEF Unseen, Typed, TimesTyped
  <2> QED
    BY <2>2, <2>3
<1> QED
  BY <1>3, <1>4, <1>5

LEMMA TickKeeps == IInv /\ Tick => IInv'
<1> SUFFICES ASSUME IInv, Tick PROVE IInv'
  OBVIOUS
<1> USE TriggerAssumption DEF IInv, Tick
<1>1. Typed'
  BY DEF Typed, TimesTyped, LevelsTyped, CountsTyped
<1>2. LoopIsBack' /\ Unseen'
  BY DEF LoopIsBack, Gap, Unseen, Typed, TimesTyped
<1> QED
  BY <1>1, <1>2

LEMMA NextIInv == IInv /\ [Next]_vars => IInv'
<1> SUFFICES ASSUME IInv, [Next]_vars PROVE IInv'
  OBVIOUS
<1>1. CASE UNCHANGED vars
  BY <1>1 DEF vars, IInv, Typed, TimesTyped, LevelsTyped, CountsTyped, LoopIsBack, Gap, Unseen
<1> QED
  BY <1>1, MoveKeeps, PollKeeps, TickKeeps DEF Next

LEMMA Inductive == Spec => []IInv
BY InitIInv, NextIInv, PTL DEF Spec

\* The state has its type, for every setting of the constants: no time is ahead
\* of the clock and no press is counted without a move of the finger.
THEOREM TypeCorrect == Spec => []TypeOK
<1>1. IInv => TypeOK
  <2> SUFFICES ASSUME Typed PROVE TypeOK
    BY DEF IInv
  <2>1. {now, polledAt, movedAt, last_change_ms} \subseteq 0..MaxNow
    BY TriggerAssumption DEF Typed, TimesTyped
  <2>2. moves \in 0..MaxMoves /\ presses \in 0..MaxMoves /\ reports \in Nat
    BY TriggerAssumption DEF Typed, CountsTyped
  <2> QED
    BY <2>1, <2>2 DEF Typed, LevelsTyped, TypeOK
<1> QED
  BY <1>1, Inductive, PTL

LEMMA IInvSeen == IInv => HeldIsSeen
BY TriggerAssumption, DebounceAssumption
   DEF IInv, Typed, TimesTyped, LoopIsBack, Gap, Unseen, HeldIsSeen, Hold

\* Whatever the contact does and for however long, a level held for the bounce,
\* one lockout and the longest absence of the loop is the debounced level: also a
\* bounce longer than the lockout never latches the button.
THEOREM HeldSeen == Spec => []HeldIsSeen
BY IInvSeen, Inductive, PTL

--------------------------------------------------------------------------------
LEMMA InitAbsorbed == Init => Absorbed
BY DEF Init, Absorbed, PressInHand, Balanced, Open

LEMMA MoveAbsorbs == IInv /\ Absorbed /\ Move => Absorbed'
<1> SUFFICES ASSUME IInv, Absorbed, Move PROVE Absorbed'
  OBVIOUS
<1> USE DEF Move
<1>1. presses \in Nat /\ reports \in Nat /\ finger \in BOOLEAN /\ pressed \in BOOLEAN
      /\ hurried \in BOOLEAN
  BY DEF IInv, Typed, LevelsTyped, CountsTyped
<1>2. PressInHand'
  <2>1. CASE finger
    BY <1>1, <2>1 DEF Absorbed, PressInHand, Open
  <2>2. CASE ~ finger
    BY <1>1, <2>2 DEF Absorbed, PressInHand, Open
  <2> QED
    BY <2>1, <2>2
<1>3. Balanced'
  <2> SUFFICES ASSUME ~ hurried' PROVE Balanced'
    BY DEF Balanced
  <2>1. ~ hurried /\ now - movedAt > Hold
    <3>1. Hold \in Nat /\ now \in Nat /\ movedAt \in Nat
      BY TriggerAssumption, DebounceAssumption DEF IInv, Typed, TimesTyped, Hold
    <3>2. ~ (hurried \/ now - movedAt <= Hold)
      OBVIOUS
    <3> QED
      BY <3>1, <3>2
  <2>2. pressed = finger
    BY <2>1, IInvSeen DEF HeldIsSeen
  <2>3. reports = presses
    BY <1>1, <2>1, <2>2 DEF Absorbed, Balanced
  <2> QED
    BY <1>1, <2>2, <2>3 DEF Balanced, Open
<1> QED
  BY <1>2, <1>3 DEF Absorbed

LEMMA PollAbsorbs ==
    ASSUME BounceAbsorbed, IInv, Absorbed, NEW raw \in Level, Poll(raw)
    PROVE  Absorbed'
<1> USE DEF Poll
<1>1. /\ presses \in Nat /\ reports \in Nat /\ finger \in BOOLEAN /\ pressed \in BOOLEAN
      /\ hurried \in BOOLEAN /\ raw \in BOOLEAN
      /\ {now, movedAt, last_change_ms} \subseteq Nat
      /\ movedAt <= now
  BY LevelIsBoolean DEF IInv, Typed, TimesTyped, LevelsTyped, CountsTyped
<1>2. CASE pressed' = pressed /\ last_change_ms' = last_change_ms
  <2>1. reports' = reports
    BY <1>1, <1>2
  <2> QED
    BY <1>1, <1>2, <2>1 DEF Absorbed, PressInHand, Balanced, Open
<1>3. CASE /\ pressed' = raw /\ raw # pressed
           /\ last_change_ms' = now
           /\ now - last_change_ms >= DebounceMs
  <2>1. ~ Open'
    BY <1>1, <1>3 DEF Open
  <2>2. raw = finger \/ Open
    <3>1. CASE moves > 0 /\ now - movedAt < BounceMs
      BY <1>1, <1>3, <3>1, TriggerAssumption, DebounceAssumption DEF Open, BounceAbsorbed
    <3>2. CASE ~ (moves > 0 /\ now - movedAt < BounceMs)
      BY <3>2 DEF Level
    <3> QED
      BY <3>1, <3>2
  <2>3. reports' = IF raw THEN reports + 1 ELSE reports
    BY <1>1, <1>3
  <2>4. PressInHand'
    BY <1>1, <1>3, <2>1, <2>2, <2>3 DEF Absorbed, PressInHand
  <2>5. Balanced'
    BY <1>1, <1>3, <2>1, <2>2, <2>3 DEF Absorbed, Balanced
  <2> QED
    BY <2>4, <2>5 DEF Absorbed
<1> QED
  BY <1>1, <1>2, <1>3, UpdateDoes DEF IInv

LEMMA NextAbsorbed ==
    ASSUME BounceAbsorbed
    PROVE  IInv /\ Absorbed /\ [Next]_vars => Absorbed'
<1> SUFFICES ASSUME IInv, Absorbed, [Next]_vars PROVE Absorbed'
  OBVIOUS
<1>1. CASE UNCHANGED vars \/ Tick
  BY <1>1 DEF vars, Tick, Absorbed, PressInHand, Balanced, Open
<1> QED
  BY <1>1, MoveAbsorbs, PollAbsorbs DEF Next

LEMMA InductiveAbsorbed == ASSUME BounceAbsorbed PROVE Spec => []Absorbed
BY InitAbsorbed, NextAbsorbed, Inductive, PTL DEF Spec

\* Given a lockout that outlasts the bounce, the presses reported never outnumber
\* those the finger made, however fast it moves, whatever the contact shows
\* meanwhile, and also when it was down at boot.
THEOREM NothingInvented == ASSUME BounceAbsorbed PROVE Spec => []NoInventedPress
<1>1. Absorbed => NoInventedPress
  BY DEF Absorbed, PressInHand, NoInventedPress
<1> QED
  BY <1>1, InductiveAbsorbed, PTL

\* Given a lockout that outlasts the bounce, a finger that holds every level
\* until it must have been seen has each of its presses reported, and once.
THEOREM EachReportedOnce == ASSUME BounceAbsorbed PROVE Spec => []EveryPressReported
<1>1. IInv /\ Absorbed => EveryPressReported
  <2> SUFFICES ASSUME IInv, Absorbed, ~ hurried, now - movedAt > Hold
               PROVE  reports = presses
    BY DEF EveryPressReported
  <2>1. pressed = finger /\ pressed \in BOOLEAN
    BY IInvSeen DEF HeldIsSeen, IInv, Typed, LevelsTyped
  <2> QED
    BY <2>1 DEF Absorbed, Balanced
<1> QED
  BY <1>1, Inductive, InductiveAbsorbed, PTL
================================================================================
