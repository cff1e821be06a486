--------------------------- MODULE PowerBudgetProofs ---------------------------
(***************************************************************************)
(* The closed forms of power.rs proved against the battery, for every      *)
(* capacity, current, cost, rate and number of days.                       *)
(***************************************************************************)
EXTENDS PowerBudget, TLAPS

Typed == /\ budget \in [capacity_mah : Nat, standby_ua : Nat, per_attestation_uah : Nat]
         /\ budget.capacity_mah <= LargestCapacity
         /\ {rate, charge, day, events} \subseteq Nat
         /\ hours \in 0..HOURS_PER_DAY
         /\ events <= rate

\* What has left the battery is what the days, the hours and the attestations
\* of the day have cost.
Accounted == capacity_uah(budget) =
    charge + day * daily_uah(budget, rate)
           + hours * budget.standby_ua + events * budget.per_attestation_uah

IInv == Typed /\ Accounted

--------------------------------------------------------------------------------
USE BudgetAssumption

LEMMA ProductNat == ASSUME NEW m \in Nat, NEW n \in Nat PROVE m * n \in Nat
OBVIOUS

LEMMA ZeroTimes == ASSUME NEW n \in Nat PROVE 0 * n = 0 /\ n * 0 = 0
OBVIOUS

LEMMA OneMore == ASSUME NEW m \in Nat, NEW n \in Nat PROVE (m + 1) * n = m * n + n
OBVIOUS

LEMMA Monotonic ==
    ASSUME NEW k \in Nat, NEW m \in Nat, NEW n \in Nat, k <= m
    PROVE  k * n <= m * n
<1>1. m - k \in Nat /\ m = k + (m - k)
  OBVIOUS
<1>2. PICK d \in Nat : m = k + d
  BY <1>1
<1>3. m * n = k * n + d * n
  BY <1>2
<1>4. d * n \in Nat /\ k * n \in Nat
  BY ProductNat
<1> QED
  BY <1>3, <1>4

\* A product is nothing only if a factor is, and is no less than either otherwise.
LEMMA Factor ==
    ASSUME NEW m \in Nat, NEW n \in Nat, m >= 1
    PROVE  m * n >= n
<1>1. 1 * n <= m * n
  BY Monotonic
<1> QED
  BY <1>1

LEMMA Daily ==
    ASSUME Typed
    PROVE  /\ daily_uah(budget, rate) \in Nat /\ capacity_uah(budget) \in Nat
           /\ daily_uah(budget, rate)
                 = 24 * budget.standby_ua + rate * budget.per_attestation_uah
<1>1. /\ budget.standby_ua \in Nat /\ budget.per_attestation_uah \in Nat
      /\ budget.capacity_mah \in Nat /\ rate \in Nat
  BY DEF Typed
<1>2. rate * budget.per_attestation_uah \in Nat
  BY <1>1, ProductNat
<1>3. rate * budget.per_attestation_uah = budget.per_attestation_uah * rate
  BY <1>1
<1>4. daily_uah(budget, rate) = budget.standby_ua * 24 + budget.per_attestation_uah * rate
  BY DEF daily_uah, HOURS_PER_DAY
<1>5. capacity_uah(budget) = budget.capacity_mah * 1000
  BY DEF capacity_uah, UAH_PER_MAH
<1> QED
  BY <1>1, <1>2, <1>3, <1>4, <1>5

\* No battery is beyond 2^24 microamp-hours, and a whole number below that falls
\* short of another by more than rounding lifts.
LEMMA Limits == LargestCapacity \in Nat /\ TwoTo24 \in Nat
BY SMT DEF LargestCapacity, TwoTo24

LEMMA Capacity ==
    ASSUME Typed
    PROVE  capacity_uah(budget) \in Nat /\ capacity_uah(budget) < TwoTo24
<1> DEFINE m == budget.capacity_mah
<1>1. m \in Nat /\ m <= LargestCapacity
  BY DEF Typed
<1>2. capacity_uah(budget) = m * 1000
  BY DEF capacity_uah, UAH_PER_MAH
<1> HIDE DEF m
<1>3. m * 1000 \in Nat /\ m * 1000 < TwoTo24
  BY <1>1, SMT DEF LargestCapacity, TwoTo24
<1> QED
  BY <1>2, <1>3

LEMMA NotLifted ==
    ASSUME NEW n \in Nat, NEW x \in Nat, n < TwoTo24, n < x
    PROVE  ~ (x - n <= (x - 1) \div TwoTo24)
<1> DEFINE q == (x - 1) \div TwoTo24
<1>1. x - 1 \in Nat /\ TwoTo24 \in Nat /\ TwoTo24 >= 1
  BY SMT DEF TwoTo24
<1>2. q \in Nat /\ q * TwoTo24 <= x - 1
  BY <1>1, SMT DEF TwoTo24
<1> HIDE DEF q
<1>3. CASE q = 0
  <2>1. ~ (x - n <= q)
    BY <1>3, SMT
  <2> QED
    BY <2>1, SMT DEF q
<1>4. CASE q >= 1
  <2>1. PICK k \in Nat : q = k + 1
    <3>1. q - 1 \in Nat /\ q = (q - 1) + 1
      BY <1>2, <1>4, SMT
    <3> QED
      BY <3>1, SMT
  <2>2. q * TwoTo24 = k * TwoTo24 + TwoTo24 /\ k <= k * TwoTo24
    BY <1>1, <2>1, SMT DEF TwoTo24
  <2>3. ~ (x - n <= q)
    BY <1>1, <1>2, <2>1, <2>2, SMT DEF TwoTo24
  <2> QED
    BY <2>3, SMT DEF q
<1> QED
  BY <1>2, <1>3, <1>4, SMT

\* So the answer is the one of whole numbers, and the only one.
LEMMA OneAnswer ==
    ASSUME NEW n \in Nat, NEW d \in Nat, NEW t \in Nat, n < TwoTo24
    PROVE  /\ n >= t * d => AtLeast(n, d, t) = {TRUE}
           /\ ~ (n >= t * d) => AtLeast(n, d, t) = {FALSE}
<1>1. t * d \in Nat
  BY ProductNat
<1>2. ~ (n >= t * d) => ~ (t * d - n <= (t * d - 1) \div TwoTo24)
  <2> DEFINE x == t * d
  <2>1. x \in Nat
    BY <1>1
  <2> HIDE DEF x
  <2>2. ~ (n >= x) => n < x
    BY <2>1
  <2>3. ~ (n >= x) => ~ (x - n <= (x - 1) \div TwoTo24)
    BY <2>1, <2>2, NotLifted
  <2> QED
    BY <2>3 DEF x
<1> DEFINE enough == n >= t * d
           lifted == t * d - n <= (t * d - 1) \div TwoTo24
<1>3. AtLeast(n, d, t) = {enough, enough \/ lifted}
  BY DEF AtLeast
<1>4. ~ enough => ~ lifted
  BY <1>2
<1> HIDE DEF lifted
<1>5. (enough => AtLeast(n, d, t) = {TRUE}) /\ (~ enough => AtLeast(n, d, t) = {FALSE})
  <2> HIDE DEF enough
  <2>1. CASE enough
    <3>1. (enough <=> TRUE) /\ (enough \/ lifted <=> TRUE)
      BY <2>1
    <3>2. enough = TRUE /\ (enough \/ lifted) = TRUE
      BY <3>1
    <3> QED
      BY <1>3, <2>1, <3>2
  <2>2. CASE ~ enough
    <3>1. (enough <=> FALSE) /\ (enough \/ lifted <=> FALSE)
      BY <1>4, <2>2
    <3>2. enough = FALSE /\ (enough \/ lifted) = FALSE
      BY <3>1
    <3> QED
      BY <1>3, <2>2, <3>2
  <2> QED
    BY <2>1, <2>2
<1> QED
  BY <1>5

LEMMA InitIInv == Init => IInv
<1> SUFFICES ASSUME Init PROVE IInv
  OBVIOUS
<1>1. /\ budget \in [capacity_mah : Nat, standby_ua : Nat, per_attestation_uah : Nat]
      /\ budget.capacity_mah <= LargestCapacity
      /\ rate \in Nat /\ charge = capacity_uah(budget) /\ day = 0 /\ hours = 0 /\ events = 0
  <2>1. budget.capacity_mah \in 0..LargestCapacity
    BY DEF Init
  <2>2. budget.capacity_mah \in Nat /\ budget.capacity_mah <= LargestCapacity
    BY <2>1, Limits
  <2>3. /\ budget.standby_ua \in Nat /\ budget.per_attestation_uah \in Nat /\ rate \in Nat
        /\ budget = [capacity_mah |-> budget.capacity_mah, standby_ua |-> budget.standby_ua,
                     per_attestation_uah |-> budget.per_attestation_uah]
    BY DEF Init
  <2> QED
    BY <2>2, <2>3 DEF Init
<1>2. charge \in Nat
  BY <1>1 DEF capacity_uah, UAH_PER_MAH
<1>3. Typed
  BY <1>1, <1>2 DEF Typed, HOURS_PER_DAY
<1>4. Accounted
  <2>1. /\ 0 * daily_uah(budget, rate) = 0
        /\ 0 * budget.standby_ua = 0 /\ 0 * budget.per_attestation_uah = 0
    BY <1>1, <1>3, Daily
  <2> QED
    BY <1>1, <1>2, <2>1 DEF Accounted
<1> QED
  BY <1>3, <1>4 DEF IInv

LEMMA NextIInv == IInv /\ [Next]_vars => IInv'
<1> SUFFICES ASSUME IInv, [Next]_vars PROVE IInv'
  OBVIOUS
<1> DEFINE s == budget.standby_ua
           p == budget.per_attestation_uah
           D == daily_uah(budget, rate)
<1>1. Typed /\ Accounted
  BY DEF IInv
<1>2. /\ s \in Nat /\ p \in Nat /\ rate \in Nat /\ charge \in Nat
      /\ day \in Nat /\ hours \in 0..24 /\ events \in Nat /\ events <= rate
  BY <1>1 DEF Typed, HOURS_PER_DAY
<1>3. D \in Nat /\ D = 24 * s + rate * p
  BY <1>1, Daily
<1>4. capacity_uah(budget) = charge + day * D + hours * s + events * p
  BY <1>1 DEF Accounted
<1>5. day * D \in Nat /\ hours * s \in Nat /\ events * p \in Nat /\ rate * p \in Nat
  BY <1>2, <1>3, ProductNat
<1> HIDE DEF s, p, D
<1>6. CASE Sleep
  <2>1. /\ charge >= s /\ charge' = charge - s /\ hours' = hours + 1 /\ hours' \in 0..24
        /\ budget' = budget /\ rate' = rate /\ day' = day /\ events' = events
    BY <1>2, <1>6 DEF Sleep, CanSleep, HOURS_PER_DAY, s
  <2>2. hours' * s = hours * s + s
    BY <1>2, <2>1, OneMore
  <2>3. Typed'
    BY <1>1, <1>2, <2>1 DEF Typed, HOURS_PER_DAY
  <2>4. capacity_uah(budget) = charge' + day * D + hours' * s + events * p
    BY <1>2, <1>4, <1>5, <2>1, <2>2
  <2>5. Accounted'
    BY <2>1, <2>4 DEF Accounted, s, p, D
  <2> QED
    BY <2>3, <2>5 DEF IInv
<1>7. CASE Attest
  <2>1. /\ charge >= p /\ charge' = charge - p /\ events' = events + 1 /\ events' <= rate
        /\ budget' = budget /\ rate' = rate /\ day' = day /\ hours' = hours
    BY <1>2, <1>7 DEF Attest, CanAttest, p
  <2>2. events' * p = events * p + p
    BY <1>2, <2>1, OneMore
  <2>3. Typed'
    BY <1>1, <1>2, <2>1 DEF Typed
  <2>4. capacity_uah(budget) = charge' + day * D + hours * s + events' * p
    BY <1>2, <1>4, <1>5, <2>1, <2>2
  <2>5. Accounted'
    BY <2>1, <2>4 DEF Accounted, s, p, D
  <2> QED
    BY <2>3, <2>5 DEF IInv
<1>8. CASE NextDay
  <2>1. /\ hours = 24 /\ events = rate /\ day' = day + 1 /\ hours' = 0 /\ events' = 0
        /\ budget' = budget /\ rate' = rate /\ charge' = charge
    BY <1>8 DEF NextDay, DayOver, HOURS_PER_DAY
  <2>2. day' * D = day * D + D /\ 0 * s = 0 /\ 0 * p = 0
    BY <1>2, <1>3, <2>1, OneMore, ZeroTimes
  <2>3. Typed'
    BY <1>1, <1>2, <2>1 DEF Typed, HOURS_PER_DAY
  <2>4. capacity_uah(budget) = charge + day' * D + 0 * s + 0 * p
    BY <1>2, <1>3, <1>4, <1>5, <2>1, <2>2
  <2>5. Accounted'
    BY <2>1, <2>4 DEF Accounted, s, p, D
  <2> QED
    BY <2>3, <2>5 DEF IInv
<1>9. CASE \/ \E ua \in Currents : MeterStandby(ua)
           \/ \E uah \in Costs : MeterAttestation(uah)
  <2>1. /\ day = 0 /\ hours = 0 /\ events = 0
        /\ budget' \in [capacity_mah : Nat, standby_ua : Nat, per_attestation_uah : Nat]
        /\ budget'.capacity_mah = budget.capacity_mah
        /\ rate' = rate /\ charge' = charge /\ day' = day /\ hours' = hours /\ events' = events
    BY <1>1, <1>9 DEF MeterStandby, MeterAttestation, battery, Typed
  <2>2. charge = capacity_uah(budget)
    BY <1>2, <1>3, <1>4, <2>1, ZeroTimes
  <2>3. capacity_uah(budget)' = capacity_uah(budget)
    BY <2>1 DEF capacity_uah
  <2>4. Typed'
    BY <1>1, <2>1 DEF Typed
  <2>5. daily_uah(budget, rate)' \in Nat
    <3>1. Typed' => daily_uah(budget', rate') \in Nat
      BY <2>1, ProductNat DEF Typed, daily_uah, HOURS_PER_DAY
    <3> QED
      BY <2>4, <3>1 DEF daily_uah
  <2>6. Accounted'
    <3>1. budget'.standby_ua \in Nat /\ budget'.per_attestation_uah \in Nat
      BY <2>1
    <3>2. /\ 0 * daily_uah(budget, rate)' = 0
          /\ 0 * budget'.standby_ua = 0 /\ 0 * budget'.per_attestation_uah = 0
      BY <2>5, <3>1, ZeroTimes
    <3> QED
      BY <1>2, <2>1, <2>2, <2>3, <3>2 DEF Accounted
  <2> QED
    BY <2>4, <2>6 DEF IInv
<1>10. CASE UNCHANGED vars
  BY <1>1, <1>10 DEF vars, battery, IInv, Typed, Accounted
<1> QED
  BY <1>6, <1>7, <1>8, <1>9, <1>10 DEF Next

LEMMA Inductive == Spec => []IInv
BY InitIInv, NextIInv, PTL DEF Spec

\* survival_days is the battery: no device outlives it, and none that can pay for
\* nothing more was promised the day it is in.
THEOREM SurvivalIsTheBattery == Spec => []PredictionHolds
<1>1. ASSUME IInv PROVE PredictionHolds
  <2> DEFINE s == budget.standby_ua
             p == budget.per_attestation_uah
             D == daily_uah(budget, rate)
             C == capacity_uah(budget)
  <2>1. Typed /\ Accounted
    BY <1>1 DEF IInv
  <2>2. /\ s \in Nat /\ p \in Nat /\ rate \in Nat /\ charge \in Nat
        /\ day \in Nat /\ hours \in 0..24 /\ hours \in Nat /\ events \in Nat /\ events <= rate
    BY <2>1 DEF Typed, HOURS_PER_DAY
  <2>3. D \in Nat /\ D = 24 * s + rate * p /\ C \in Nat
    BY <2>1, Daily
  <2>4. C = charge + day * D + hours * s + events * p
    BY <2>1 DEF Accounted
  <2>5. day * D \in Nat /\ hours * s \in Nat /\ events * p \in Nat /\ rate * p \in Nat
    BY <2>2, <2>3, ProductNat
  <2>6. (day + 1) * D = day * D + D
    BY <2>2, <2>3, OneMore
  <2>7. /\ D <= 0 \/ C >= day * D => meets_target(budget, day, rate) = {TRUE}
        /\ D > 0 /\ ~ (C >= (day + 1) * D)
              => meets_target(budget, day + 1, rate) = {FALSE}
    <3>1. C < TwoTo24 /\ day + 1 \in Nat
      BY <2>1, <2>2, Capacity
    <3>2. /\ C >= day * D => AtLeast(C, D, day) = {TRUE}
          /\ ~ (C >= (day + 1) * D) => AtLeast(C, D, day + 1) = {FALSE}
      BY <2>2, <2>3, <3>1, OneAnswer
    <3>3. \A t \in Nat : meets_target(budget, t, rate)
                             = IF D <= 0 THEN {TRUE} ELSE AtLeast(C, D, t)
      BY DEF meets_target
    <3>4. /\ meets_target(budget, day, rate)
                = IF D <= 0 THEN {TRUE} ELSE AtLeast(C, D, day)
          /\ meets_target(budget, day + 1, rate)
                = IF D <= 0 THEN {TRUE} ELSE AtLeast(C, D, day + 1)
      BY <2>2, <3>1, <3>3
    <3> HIDE DEF C, D
    <3>5. D > 0 => ~ (D <= 0)
      BY <2>3
    <3> QED
      BY <3>2, <3>4, <3>5
  <2>8. /\ CanSleep <=> hours < 24 /\ charge >= s
        /\ CanAttest <=> events < rate /\ charge >= p
        /\ DayOver <=> hours = 24 /\ events = rate
    BY DEF CanSleep, CanAttest, DayOver, HOURS_PER_DAY
  <2> HIDE DEF s, p, D, C
  <2>9. meets_target(budget, day, rate) = {TRUE}
    <3>1. C >= day * D
      BY <2>2, <2>3, <2>4, <2>5
    <3> QED
      BY <2>7, <3>1
  <2>10. ASSUME ~ CanSleep, ~ CanAttest, ~ DayOver
         PROVE  meets_target(budget, day + 1, rate) = {FALSE}
    <3>1. hours * s <= 24 * s /\ events * p <= rate * p
      BY <2>2, Monotonic
    <3>2. CASE hours < 24
      <4>1. charge < s
        BY <2>2, <2>8, <2>10, <3>2
      <4>2. (hours + 1) * s <= 24 * s /\ (hours + 1) * s = hours * s + s
        BY <2>2, <3>2, Monotonic, OneMore
      <4>3. C < (day + 1) * D /\ D > 0
        BY <2>2, <2>3, <2>4, <2>5, <2>6, <3>1, <4>1, <4>2
      <4>4. D > 0 /\ ~ (C >= (day + 1) * D)
        BY <2>2, <2>3, <2>5, <2>6, <4>3
      <4> QED
        BY <2>7, <4>4
    <3>3. CASE hours = 24 /\ events < rate
      <4>1. charge < p
        BY <2>2, <2>8, <2>10, <3>3
      <4>2. (events + 1) * p <= rate * p /\ (events + 1) * p = events * p + p
        BY <2>2, <3>3, Monotonic, OneMore
      <4>3. C < (day + 1) * D /\ D > 0
        BY <2>2, <2>3, <2>4, <2>5, <2>6, <3>1, <3>3, <4>1, <4>2
      <4>4. D > 0 /\ ~ (C >= (day + 1) * D)
        BY <2>2, <2>3, <2>5, <2>6, <4>3
      <4> QED
        BY <2>7, <4>4
    <3>4. hours < 24 \/ (hours = 24 /\ events < rate)
      BY <2>2, <2>8, <2>10
    <3> QED
      BY <3>2, <3>3, <3>4
  <2> QED
    BY <2>9, <2>10 DEF PredictionHolds
<1> QED
  BY <1>1, Inductive, PTL

LEMMA Regroup ==
    ASSUME NEW s \in Nat, NEW a \in Nat, NEW t \in Nat
    PROVE  t * (s * 24 + a) = s * t * 24 + a * t
OBVIOUS

\* permissible_standby_ua for a current in whole microamps, whatever the rounding
\* of the two quotients: as long as the attestations alone leave the battery
\* anything, it is permitted for a target exactly when the budget meets it
\* (meets_target).
THEOREM BenchNumberDecides == Spec => []WholeCurrentsAgree
<1>1. ASSUME IInv PROVE WholeCurrentsAgree
  <2> SUFFICES ASSUME NEW t \in 1..MaxDays, standby_budget_uah(budget, t, rate) >= 0
               PROVE  \E answer \in BOOLEAN :
                          /\ meets_target(budget, t, rate) = {answer}
                          /\ permits(budget, t, rate, budget.standby_ua) = {answer}
    BY DEF WholeCurrentsAgree
  <2> DEFINE s == budget.standby_ua
             a == budget.per_attestation_uah * rate
             D == daily_uah(budget, rate)
             C == capacity_uah(budget)
             B == standby_budget_uah(budget, t, rate)
  <2>1. s \in Nat /\ a \in Nat /\ D \in Nat /\ C \in Nat /\ t \in Nat /\ t >= 1
    BY <1>1, Daily, ProductNat DEF IInv, Typed
  <2>2. D = s * 24 + a /\ B = C - a * t
    BY DEF daily_uah, HOURS_PER_DAY, standby_budget_uah
  <2>3. /\ meets_target(budget, t, rate) = IF D <= 0 THEN {TRUE} ELSE AtLeast(C, D, t)
        /\ permits(budget, t, rate, s)
              = IF B <= 0 THEN {s <= 0} ELSE AtLeast(B, t * 24, s)
    BY DEF meets_target, permits, HOURS_PER_DAY
  <2>4. B >= 0
    OBVIOUS
  <2>14. C < TwoTo24
    BY <1>1, Capacity DEF IInv
  <2> HIDE DEF s, a, D, C, B
  <2>5. t * D = s * t * 24 + a * t
    BY <2>1, <2>2, Regroup
  <2>6. /\ t * s >= s /\ s * t = t * s /\ a * t \in Nat
        /\ s * t * 24 = 24 * (s * t)
    BY <2>1, Factor, ProductNat
  <2>7. s = 0 => s * t * 24 = 0
    BY <2>1, ZeroTimes
  <2>8. D <= 0 => s = 0 /\ a = 0
    BY <2>1, <2>2
  <2>9. s * t * 24 <= 0 => s = 0
    BY <2>1, <2>6
  <2>10. C >= t * D <=> s * t * 24 <= B
    BY <2>1, <2>2, <2>5, <2>6
  <2>11. s * t * 24 \in Nat
    BY <2>1, ProductNat
  <2>15. s * (t * 24) = s * t * 24 /\ t * 24 \in Nat
    BY <2>1
  <2>16. B \in Nat /\ B < TwoTo24
    BY <2>1, <2>2, <2>4, <2>6, <2>14, SMT DEF TwoTo24
  <2>17. /\ C >= t * D => AtLeast(C, D, t) = {TRUE}
         /\ ~ (C >= t * D) => AtLeast(C, D, t) = {FALSE}
    BY <2>1, <2>14, OneAnswer
  <2>18. /\ B >= s * (t * 24) => AtLeast(B, t * 24, s) = {TRUE}
         /\ ~ (B >= s * (t * 24)) => AtLeast(B, t * 24, s) = {FALSE}
    BY <2>1, <2>15, <2>16, OneAnswer
  <2> DEFINE yes == D <= 0 \/ C >= t * D
  <2>19. /\ yes => meets_target(budget, t, rate) = {TRUE}
         /\ ~ yes => meets_target(budget, t, rate) = {FALSE}
    BY <2>3, <2>17
  <2>20. /\ yes => permits(budget, t, rate, s) = {TRUE}
         /\ ~ yes => permits(budget, t, rate, s) = {FALSE}
    <3>1. CASE B <= 0
      <4>1. yes <=> s <= 0
        BY <2>1, <2>2, <2>4, <2>7, <2>8, <2>9, <2>10, <2>11, <3>1
      <4>2. permits(budget, t, rate, s) = {s <= 0}
        BY <2>3, <3>1
      <4>3. (yes => (s <= 0) = TRUE) /\ (~ yes => (s <= 0) = FALSE)
        BY <2>1, <4>1
      <4> HIDE DEF yes
      <4> QED
        BY <4>2, <4>3
    <3>2. CASE ~ (B <= 0)
      <4>1. yes <=> B >= s * (t * 24)
        BY <2>1, <2>2, <2>7, <2>8, <2>10, <2>11, <2>15, <2>16, <3>2
      <4>2. permits(budget, t, rate, s) = AtLeast(B, t * 24, s)
        BY <2>3, <3>2
      <4> HIDE DEF yes
      <4> QED
        BY <2>18, <4>1, <4>2
    <3> QED
      BY <3>1, <3>2
  <2> HIDE DEF yes
  <2>21. CASE yes
    BY <2>19, <2>20, <2>21 DEF s
  <2>22. CASE ~ yes
    BY <2>19, <2>20, <2>22 DEF s
  <2> QED
    BY <2>21, <2>22
<1> QED
  BY <1>1, Inductive, PTL
================================================================================
