------------------------------- MODULE PowerBudget ------------------------------
(***************************************************************************)
(* crates/icesickle-core/src/power.rs beside the battery it predicts: the  *)
(* leak takes its share every hour and an attestation its own, in any      *)
(* order through the day, and the closed forms are asked all the while.    *)
(* The figures are whole; their f32 quotients are not, and a comparison    *)
(* with one is the set of answers that its rounding may give. The bench    *)
(* replaces an estimate by a reading.                                      *)
(***************************************************************************)
EXTENDS Integers

CONSTANTS Capacities,      \* capacity_mah
          Currents,        \* standby_ua
          Costs,           \* per_attestation_uah
          Rates,           \* events_per_day
          MaxDays          \* bound: days lived, and targets

\* A whole figure below 2^24 is an f32 without rounding. For a battery of up to
\* 16 Ah capacity_uah is one; a product that is none is then beyond the battery,
\* and its own rounding changes no answer.
TwoTo24 == 16777216
LargestCapacity == 16777

ASSUME BudgetAssumption == /\ Capacities \subseteq 0..LargestCapacity
                           /\ Currents \union Costs \union Rates \subseteq Nat
                           /\ MaxDays \in Nat

HOURS_PER_DAY == 24
UAH_PER_MAH == 1000

VARIABLES budget,          \* PowerBudget
          rate,            \* attestations of every day
          charge,          \* what the battery holds, in microamp-hours
          day,             \* days lived on it
          hours, events    \* of the day under way

battery == <<charge, day, hours, events>>
vars == <<budget, rate, battery>>

\* Mutant: a day of standby is one hour of it.
daily_uah_hourly(b, r) == b.standby_ua + b.per_attestation_uah * r

daily_uah(b, r) == b.standby_ua * HOURS_PER_DAY + b.per_attestation_uah * r

capacity_uah(b) == b.capacity_mah * UAH_PER_MAH

\* The answers an f32 may give to n / d >= t: the rounding to the nearest can
\* lift a quotient to t if less than one part in 2^24 is missing.
AtLeast(n, d, t) ==
    {n >= t * d, n >= t * d \/ t * d - n <= (t * d - 1) \div TwoTo24}

\* survival_days(r) >= t, which is infinite for a budget that consumes nothing;
\* shortfall_days is the difference of the two, of the same sign.
meets_target(b, t, r) == IF daily_uah(b, r) <= 0 THEN {TRUE}
                         ELSE AtLeast(capacity_uah(b), daily_uah(b, r), t)

standby_budget_uah(b, t, r) == capacity_uah(b) - b.per_attestation_uah * r * t

\* Mutant: the attestations of one day only.
permits_one_day(b, t, r, current) ==
    IF standby_budget_uah(b, 1, r) <= 0 THEN {current <= 0}
    ELSE AtLeast(standby_budget_uah(b, 1, r), t * HOURS_PER_DAY, current)

\* permissible_standby_ua(t, r) >= current; it is zero when nothing is left.
permits(b, t, r, current) ==
    IF standby_budget_uah(b, t, r) <= 0 THEN {current <= 0}
    ELSE AtLeast(standby_budget_uah(b, t, r), t * HOURS_PER_DAY, current)

--------------------------------------------------------------------------------
Init == /\ budget \in [capacity_mah : Capacities, standby_ua : Currents,
                       per_attestation_uah : Costs]
        /\ rate \in Rates
        /\ charge = capacity_uah(budget)
        /\ day = 0
        /\ hours = 0
        /\ events = 0

\* The battery can pay for a further hour, or a further attestation, of the day.
CanSleep == hours < HOURS_PER_DAY /\ charge >= budget.standby_ua
CanAttest == events < rate /\ charge >= budget.per_attestation_uah
DayOver == hours = HOURS_PER_DAY /\ events = rate

Sleep == /\ CanSleep
         /\ charge' = charge - budget.standby_ua
         /\ hours' = hours + 1
         /\ UNCHANGED <<budget, rate, day, events>>

Attest == /\ CanAttest
          /\ charge' = charge - budget.per_attestation_uah
          /\ events' = events + 1
          /\ UNCHANGED <<budget, rate, day, hours>>

NextDay == /\ DayOver
           /\ day < MaxDays
           /\ day' = day + 1
           /\ hours' = 0
           /\ events' = 0
           /\ UNCHANGED <<budget, rate, charge>>

\* A reading on the bench, before the device goes out.
MeterStandby(ua) == /\ <<day, hours, events>> = <<0, 0, 0>>
                    /\ budget' = [budget EXCEPT !.standby_ua = ua]
                    /\ UNCHANGED <<rate, battery>>
MeterAttestation(uah) == /\ <<day, hours, events>> = <<0, 0, 0>>
                         /\ budget' = [budget EXCEPT !.per_attestation_uah = uah]
                         /\ UNCHANGED <<rate, battery>>

Next == \/ Sleep \/ Attest \/ NextDay
        \/ \E ua \in Currents : MeterStandby(ua)
        \/ \E uah \in Costs : MeterAttestation(uah)

Spec == Init /\ [][Next]_vars

--------------------------------------------------------------------------------
\* The closed form is the battery, however its quotient is rounded: no device
\* outlives the days survival_days gives it, and none whose battery can pay for
\* nothing more was promised the day it is in.
PredictionHolds ==
    /\ meets_target(budget, day, rate) = {TRUE}
    /\ ~ CanSleep /\ ~ CanAttest /\ ~ DayOver
           => meets_target(budget, day + 1, rate) = {FALSE}

\* The number to take to the bench agrees with meets_target on every current a
\* meter reads in whole microamps: permitted for a target exactly when the
\* budget meets it, and neither answer hangs on a rounding, as long as the
\* attestations alone do not exceed the battery. (When they do, the permissible
\* current is reported as zero, and zero does not meet the target.) Of the
\* fraction of a microamp in the number itself nothing is said.
WholeCurrentsAgree ==
    \A t \in 1..MaxDays :
        standby_budget_uah(budget, t, rate) >= 0
            => \E answer \in BOOLEAN :
                   /\ meets_target(budget, t, rate) = {answer}
                   /\ permits(budget, t, rate, budget.standby_ua) = {answer}
================================================================================
