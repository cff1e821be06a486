----------------------------- MODULE CalendarProofs -----------------------------
(***************************************************************************)
(* The codec of clock.rs proved for every dump of seven bytes and every    *)
(* instant of two centuries, and the part's calendar against the true one  *)
(* for any walk through them.                                              *)
(***************************************************************************)
EXTENDS Calendar, FiniteSetTheorems, WellFoundedInduction, TLAPS

\* Among naturals there is a smallest, so the first failed check is well defined.
LEMMA Smallest ==
    ASSUME NEW S, S \subseteq Nat, S # {}
    PROVE  \E m \in S : \A n \in S : m <= n
<1>1. IsWellFoundedOn(OpToRel(<, Nat), Nat)
  BY NatLessThanWellFounded
<1>2. \A x, y \in Nat : x < y => <<x, y>> \in OpToRel(<, Nat)
  BY DEF OpToRel
<1>3. PICK R : IsWellFoundedOn(R, Nat) /\ \A x, y \in Nat : x < y => <<x, y>> \in R
  BY <1>1, <1>2, Zenon
<1>4. IsWellFoundedOn(R, Nat)
  BY <1>3
<1>5. \A x, y \in Nat : x < y => <<x, y>> \in R
  BY <1>3
<1>6. \E m \in S : \A n \in S : ~ (<<n, m>> \in R)
  BY <1>4, WFMin
<1>7. PICK m \in S : \A n \in S : ~ (<<n, m>> \in R)
  BY <1>6
<1>8. m \in Nat
  OBVIOUS
<1>9. ASSUME NEW n \in S PROVE ~ (n < m)
  BY <1>5, <1>7, <1>8
<1>10. \A n \in S : m <= n
  BY <1>8, <1>9
<1> QED
  BY <1>10

\* A dump is believed if no check fails, and the fields stand then.
LEMMA Decodes ==
    ASSUME NEW r
    PROVE  /\ decode_time(r).time = Fields(r)
           /\ decode_time(r).err = "none" <=> \A i \in 1..18 : ~ InOrder(r)[i].fails
<1> DEFINE checks == InOrder(r)
           failing == {i \in 1..Len(checks) : checks[i].fails}
           first == CHOOSE i \in failing : \A j \in failing : i <= j
<1>1. Len(checks) = 18
  BY DEF InOrder
<1>2. \A i \in 1..18 : checks[i].err \in ClockError
  BY DEF InOrder, Check, ClockError
<1>3. /\ decode_time(r).err = IF failing = {} THEN "none" ELSE checks[first].err
      /\ decode_time(r).time = Fields(r)
  BY DEF decode_time, Checks
<1> HIDE DEF checks
<1>4. failing \subseteq 1..18
  BY <1>1
<1>5. CASE failing = {}
  <2>1. \A i \in 1..18 : ~ checks[i].fails
    BY <1>1, <1>5
  <2> QED
    BY <1>3, <1>5, <2>1 DEF checks
<1>6. CASE failing # {}
  <2>1. first \in failing
    <3> HIDE DEF failing
    <3>1. failing \subseteq Nat
      BY <1>4
    <3>2. \E m \in failing : \A n \in failing : m <= n
      BY <1>6, <3>1, Smallest
    <3> QED
      BY <3>2
  <2>2. checks[first].err \in ClockError
    BY <1>2, <1>4, <2>1
  <2>3. "none" \notin ClockError
    BY DEF ClockError
  <2>4. \E i \in 1..18 : checks[i].fails
    BY <1>1, <1>6
  <2> QED
    BY <1>3, <1>6, <2>2, <2>3, <2>4 DEF checks
<1> QED
  BY <1>5, <1>6

\* What the checks let through.
Sound(r) == /\ r[1] < 128 /\ IsBcd(r[1] % 128)
            /\ r[2] < 128 /\ IsBcd(r[2] % 128)
            /\ (r[3] \div 64) % 2 # 1 /\ r[3] < 128 /\ IsBcd(r[3] % 64)
            /\ r[4] \in 1..7
            /\ r[5] < 64 /\ IsBcd(r[5] % 64)
            /\ (r[6] \div 32) % 4 = 0 /\ IsBcd(r[6] % 32)
            /\ IsBcd(r[7])
InRange(t) == /\ t.year \in MIN_YEAR..MAX_YEAR
              /\ t.month \in 1..12
              /\ t.day \in 1..days_in_month(t.year, t.month)
              /\ ~ (t.hour > 23 \/ t.minute > 59 \/ t.second > 59)

LEMMA Believes ==
    ASSUME NEW r \in Dumps
    PROVE  decode_time(r).err = "none" <=> Sound(r) /\ InRange(Fields(r))
<1> DEFINE f(i) == InOrder(r)[i].fails
<1>1. /\ f(1) <=> r[1] >= 128
      /\ f(2) <=> ~ IsBcd(r[1] % 128)
      /\ f(3) <=> r[2] >= 128
      /\ f(4) <=> ~ IsBcd(r[2] % 128)
      /\ f(5) <=> (r[3] \div 64) % 2 = 1
      /\ f(6) <=> r[3] >= 128
      /\ f(7) <=> ~ IsBcd(r[3] % 64)
      /\ f(8) <=> r[4] >= 8
      /\ f(9) <=> r[4] = 0
  BY DEF InOrder, Check
<1>2. /\ f(10) <=> r[5] >= 64
      /\ f(11) <=> ~ IsBcd(r[5] % 64)
      /\ f(12) <=> (r[6] \div 32) % 4 # 0
      /\ f(13) <=> ~ IsBcd(r[6] % 32)
      /\ f(14) <=> ~ IsBcd(r[7])
      /\ f(15) <=> Fields(r).year \notin MIN_YEAR..MAX_YEAR
      /\ f(16) <=> Fields(r).month \notin 1..12
      /\ f(17) <=> Fields(r).day \notin 1..days_in_month(Fields(r).year, Fields(r).month)
      /\ f(18) <=> (Fields(r).hour > 23 \/ Fields(r).minute > 59 \/ Fields(r).second > 59)
  BY DEF InOrder, Check
<1>3. decode_time(r).err = "none" <=> \A i \in 1..18 : ~ f(i)
  BY Decodes, Zenon
<1> HIDE DEF f
<1>4. (\A i \in 1..18 : ~ f(i))
         <=> /\ ~ f(1) /\ ~ f(2) /\ ~ f(3) /\ ~ f(4) /\ ~ f(5) /\ ~ f(6)
             /\ ~ f(7) /\ ~ f(8) /\ ~ f(9) /\ ~ f(10) /\ ~ f(11) /\ ~ f(12)
             /\ ~ f(13) /\ ~ f(14) /\ ~ f(15) /\ ~ f(16) /\ ~ f(17) /\ ~ f(18)
  <2>1. 1..18 = {1, 2, 3, 4, 5, 6, 7, 8, 9, 10, 11, 12, 13, 14, 15, 16, 17, 18}
    OBVIOUS
  <2> QED
    BY <2>1, ZenonT(40)
<1>5. /\ r[1] >= 128 <=> ~ (r[1] < 128)
      /\ r[2] >= 128 <=> ~ (r[2] < 128)
      /\ r[3] >= 128 <=> ~ (r[3] < 128)
      /\ r[5] >= 64 <=> ~ (r[5] < 64)
      /\ ~ (r[4] >= 8) /\ ~ (r[4] = 0) <=> r[4] \in 1..7
  BY DEF Dumps, Byte
<1> QED
  BY <1>1, <1>2, <1>3, <1>4, <1>5, ZenonT(40) DEF Sound, InRange

--------------------------------------------------------------------------------
\* Binary-coded decimals of two digits, there and back.
SevenBits == 0..127
LEMMA BcdThereAndBack ==
    /\ \A v \in 0..99 : to_bcd(v) \in Byte /\ IsBcd(to_bcd(v)) /\ from_bcd(to_bcd(v)) = v
    /\ \A v \in 0..12 : to_bcd(v) \in 0..31
    /\ \A v \in 0..31 : to_bcd(v) \in 0..63
    /\ \A v \in 0..59 : to_bcd(v) \in SevenBits
BY DEF Byte, SevenBits, to_bcd, from_bcd, IsBcd

LEMMA BcdBackAndThere ==
    ASSUME NEW byte \in Byte, IsBcd(byte)
    PROVE  from_bcd(byte) \in 0..99 /\ to_bcd(from_bcd(byte)) = byte
BY DEF Byte, to_bcd, from_bcd, IsBcd

LEMMA FromBcdNat == ASSUME NEW byte \in Byte PROVE from_bcd(byte) \in 0..165
BY DEF Byte, from_bcd

\* The days before a month of a year that begins in March.
DaysBefore(month) == (153 * (IF month > 2 THEN month - 3 ELSE month + 9) + 2) \div 5

\* Days of the years before the one that begins in March of y.
DaysTo(y) == LET era == y \div 400
                 yoe == y - era * 400
             IN  era * 146097 + yoe * 365 + yoe \div 4 - yoe \div 100

\* January and February belong to the year before.
MarchYear(year, month) == IF month <= 2 THEN year - 1 ELSE year

Epoch == 719469

LEMMA DaysTyped ==
    /\ \A m \in Int : DaysBefore(m) \in Int
    /\ \A y, m \in Int : MarchYear(y, m) \in Int
    /\ \A y \in Int : DaysTo(y) \in Int
    /\ Epoch \in Int
BY SMT DEF DaysBefore, MarchYear, DaysTo, Epoch

LEMMA DaysSplit ==
    ASSUME NEW year \in Int, NEW month \in Int, NEW day \in Int
    PROVE  days_from_civil(year, month, day)
              = DaysTo(MarchYear(year, month)) + DaysBefore(month) + day - Epoch
<1> DEFINE y == MarchYear(year, month)
           b == (153 * (IF month > 2 THEN month - 3 ELSE month + 9) + 2) \div 5
<1>1. y \in Int
  BY DEF MarchYear
<1>2. b \in Int /\ DaysBefore(month) = b
  BY DEF DaysBefore
<1>3. days_from_civil(year, month, day)
         = (y \div 400) * 146097
           + ((y - (y \div 400) * 400) * 365 + (y - (y \div 400) * 400) \div 4
              - (y - (y \div 400) * 400) \div 100 + (b + day - 1)) - 719468
  BY SMT DEF days_from_civil, MarchYear
<1>4. DaysTo(y) = (y \div 400) * 146097
                  + (y - (y \div 400) * 400) * 365 + (y - (y \div 400) * 400) \div 4
                  - (y - (y \div 400) * 400) \div 100
  BY SMT DEF DaysTo
<1> HIDE DEF y, b
<1>5. days_from_civil(year, month, day) = DaysTo(y) + b + day - 719469
  BY <1>1, <1>2, <1>3, <1>4, SMT
<1> QED
  BY <1>2, <1>5, SMT DEF y, Epoch

LEMMA DayNumber ==
    ASSUME NEW year \in Int, NEW month \in Int, NEW day \in Int
    PROVE  /\ days_from_civil(year, month, day)
                 = DaysTo(MarchYear(year, month)) + DaysBefore(month) + day - Epoch
           /\ DaysTo(MarchYear(year, month)) \in Int
           /\ DaysBefore(month) \in Int
           /\ Epoch \in Int
           /\ days_from_civil(year, month, day) \in Int
<1>1. DaysTo(MarchYear(year, month)) \in Int /\ DaysBefore(month) \in Int /\ Epoch \in Int
  BY DaysTyped, SMT
<1>2. days_from_civil(year, month, day)
         = DaysTo(MarchYear(year, month)) + DaysBefore(month) + day - Epoch
  BY DaysSplit
<1> QED
  BY <1>1, <1>2, SMT

LEMMA MonthDays ==
    ASSUME NEW year \in Int, NEW month
    PROVE  /\ days_in_month(year, month) \in {0, 28, 29, 30, 31}
           /\ month \in 1..12 => days_in_month(year, month) = Length(month, is_leap_year(year))
BY DEF days_in_month, Length

\* What a time's registers decode to.
LEMMA EncodesTrue ==
    ASSUME NEW t \in CivilTimes
    PROVE  /\ to_registers(t) \in Dumps /\ to_registers(t)[4] \in 1..7
           /\ read_civil_time(0, to_registers(t)) = [err |-> "none", time |-> t]
<1>0. /\ t \in [year : MIN_YEAR..MAX_YEAR, month : 1..12, day : 1..31,
                hour : 0..23, minute : 0..59, second : 0..59]
      /\ t.day <= days_in_month(t.year, t.month)
  BY DEF CivilTimes
<1>1. /\ t.year \in 2000..2199 /\ t.month \in 1..12 /\ t.day \in 1..31
      /\ t.hour \in 0..23 /\ t.minute \in 0..59 /\ t.second \in 0..59
  BY <1>0 DEF MIN_YEAR, MAX_YEAR
<1> DEFINE yy == IF t.year >= 2100 THEN t.year - 2100 ELSE t.year - 2000
           century == IF t.year >= 2100 THEN 128 ELSE 0
           r == to_registers(t)
<1>2. yy \in 0..99 /\ century \in {0, 128}
  BY <1>1
<1>12. /\ t.second \in 0..59 /\ t.minute \in 0..59 /\ t.hour \in 0..31
       /\ t.day \in 0..31 /\ t.month \in 0..12
       /\ t.second \in 0..99 /\ t.minute \in 0..99 /\ t.hour \in 0..99
       /\ t.day \in 0..99 /\ t.month \in 0..99 /\ yy \in 0..99
  BY <1>1, <1>2
<1>3. weekday(t) \in 0..6
  <2>1. days_from_civil(t.year, t.month, t.day) \in Int
    <3>1. t.year \in Int /\ t.month \in Int /\ t.day \in Int
      BY <1>1
    <3> QED
      BY <3>1, DayNumber, Zenon
  <2> QED
    BY <2>1 DEF weekday
<1>4. /\ r[1] = to_bcd(t.second) /\ r[2] = to_bcd(t.minute) /\ r[3] = to_bcd(t.hour)
      /\ r[4] = weekday(t) + 1 /\ r[5] = to_bcd(t.day)
      /\ r[6] = to_bcd(t.month) + century /\ r[7] = to_bcd(yy)
      /\ DOMAIN r = 1..7
  BY DEF to_registers
<1> HIDE DEF yy
<1>5. /\ to_bcd(t.second) \in 0..127 /\ to_bcd(t.minute) \in 0..127
      /\ to_bcd(t.hour) \in 0..63 /\ to_bcd(t.day) \in 0..63
      /\ to_bcd(t.month) \in 0..31 /\ to_bcd(yy) \in Byte
  <2>1. /\ to_bcd(t.second) \in SevenBits /\ to_bcd(t.minute) \in SevenBits
        /\ to_bcd(t.hour) \in 0..63 /\ to_bcd(t.day) \in 0..63
        /\ to_bcd(t.month) \in 0..31 /\ to_bcd(yy) \in Byte
    BY <1>12, BcdThereAndBack, Zenon
  <2> QED
    BY <2>1 DEF SevenBits
<1>13. /\ from_bcd(to_bcd(t.second)) = t.second /\ from_bcd(to_bcd(t.minute)) = t.minute
       /\ from_bcd(to_bcd(t.hour)) = t.hour /\ from_bcd(to_bcd(t.day)) = t.day
       /\ from_bcd(to_bcd(t.month)) = t.month /\ from_bcd(to_bcd(yy)) = yy
  BY <1>12, BcdThereAndBack, Zenon
<1>14. /\ IsBcd(to_bcd(t.second)) /\ IsBcd(to_bcd(t.minute)) /\ IsBcd(to_bcd(t.hour))
       /\ IsBcd(to_bcd(t.day)) /\ IsBcd(to_bcd(t.month)) /\ IsBcd(to_bcd(yy))
  BY <1>12, BcdThereAndBack, Zenon
<1>6. r \in Dumps
  <2>1. r = << to_bcd(t.second), to_bcd(t.minute), to_bcd(t.hour), weekday(t) + 1,
               to_bcd(t.day), to_bcd(t.month) + century, to_bcd(yy) >>
    BY DEF to_registers, yy
  <2> HIDE DEF r, century
  <2>2. \A i \in 1..7 : r[i] \in Byte
    <3>1. 1..7 = {1, 2, 3, 4, 5, 6, 7}
      OBVIOUS
    <3>2. /\ r[1] \in Byte /\ r[2] \in Byte /\ r[3] \in Byte /\ r[4] \in Byte
          /\ r[5] \in Byte /\ r[6] \in Byte /\ r[7] \in Byte
      BY <1>2, <1>3, <1>4, <1>5 DEF Byte
    <3> QED
      BY <3>1, <3>2
  <2>3. r = [i \in 1..7 |-> r[i]]
    BY <2>1
  <2> QED
    BY <2>2, <2>3 DEF Dumps
<1> HIDE DEF r, century
<1>7. /\ r[1] % 128 = r[1] /\ r[2] % 128 = r[2] /\ r[3] % 64 = r[3] /\ r[5] % 64 = r[5]
      /\ r[6] % 32 = to_bcd(t.month) /\ (r[6] \div 32) % 4 = 0
      /\ (r[3] \div 64) % 2 # 1
      /\ r[6] >= 128 <=> t.year >= 2100
  BY <1>1, <1>2, <1>4, <1>5 DEF century
<1>8. Fields(r) = t
  <2>1. /\ from_bcd(r[1] % 128) = t.second /\ from_bcd(r[2] % 128) = t.minute
        /\ from_bcd(r[3] % 64) = t.hour
    BY <1>4, <1>7, <1>13
  <2>2. from_bcd(r[5] % 64) = t.day /\ from_bcd(r[6] % 32) = t.month
    BY <1>4, <1>7, <1>13
  <2>3. MIN_YEAR + (IF r[6] >= 128 THEN 100 ELSE 0) + from_bcd(r[7]) = t.year
    <3>1. from_bcd(r[7]) = yy
      BY <1>4, <1>13
    <3> QED
      BY <1>1, <1>7, <3>1 DEF yy, MIN_YEAR
  <2>4. Fields(r) = [second |-> t.second, minute |-> t.minute, hour |-> t.hour,
                     day |-> t.day, month |-> t.month, year |-> t.year]
    BY <2>1, <2>2, <2>3 DEF Fields
  <2> QED
    BY <1>0, <2>4
<1>9. Sound(r)
  <2>1. r[1] < 128 /\ r[2] < 128 /\ r[3] < 128 /\ r[4] \in 1..7 /\ r[5] < 64
    BY <1>3, <1>4, <1>5
  <2>2. /\ r[1] % 128 = to_bcd(t.second) /\ r[2] % 128 = to_bcd(t.minute)
        /\ r[3] % 64 = to_bcd(t.hour) /\ r[5] % 64 = to_bcd(t.day)
        /\ r[6] % 32 = to_bcd(t.month) /\ r[7] = to_bcd(yy)
    BY <1>4, <1>7
  <2> QED
    BY <1>7, <1>14, <2>1, <2>2 DEF Sound
<1>10. InRange(t)
  <2>1. days_in_month(t.year, t.month) \in Int
    BY <1>1, MonthDays
  <2> QED
    BY <1>0, <1>1, <2>1 DEF InRange, MIN_YEAR, MAX_YEAR
<1>11. decode_time(r) = [err |-> "none", time |-> t]
  <2>1. decode_time(r).err = "none" /\ decode_time(r).time = t
    BY <1>6, <1>8, <1>9, <1>10, Believes, Decodes
  <2>2. decode_time(r) = [err |-> decode_time(r).err, time |-> decode_time(r).time]
    BY DEF decode_time
  <2> QED
    BY <2>1, <2>2
<1> QED
  BY <1>3, <1>4, <1>6, <1>11 DEF read_civil_time, OscillatorStopFlag, r

\* Encoding what was decoded gives back every byte but the day of the week.
LEMMA Canonical ==
    ASSUME NEW r \in Dumps, Sound(r), NEW i \in 1..7 \ {4}
    PROVE  to_registers(Fields(r))[i] = r[i]
<1> DEFINE t == Fields(r)
           b == to_registers(t)
<1>1. /\ r[1] \in Byte /\ r[2] \in Byte /\ r[3] \in Byte
      /\ r[5] \in Byte /\ r[6] \in Byte /\ r[7] \in Byte
  BY DEF Dumps
<1>2. /\ r[1] % 128 \in Byte /\ r[1] % 128 = r[1] /\ r[2] % 128 = r[2] /\ r[3] % 64 = r[3]
      /\ r[5] % 64 = r[5] /\ r[6] % 32 \in Byte
      /\ r[6] = (r[6] % 32) + (IF r[6] >= 128 THEN 128 ELSE 0)
  <2>1. /\ r[1] < 128 /\ r[2] < 128 /\ (r[3] \div 64) % 2 # 1 /\ r[3] < 128
        /\ r[5] < 64 /\ (r[6] \div 32) % 4 = 0
    BY DEF Sound
  <2>2. r[1] % 128 = r[1] /\ r[2] % 128 = r[2] /\ r[5] % 64 = r[5]
    BY <1>1, <2>1, SMT DEF Byte
  <2>3. r[3] % 64 = r[3]
    BY <1>1, <2>1, SMT DEF Byte
  <2>4. /\ r[6] % 32 \in Byte
        /\ r[6] = (r[6] % 32) + (IF r[6] >= 128 THEN 128 ELSE 0)
    BY <1>1, <2>1, SMT DEF Byte
  <2> QED
    BY <1>1, <2>2, <2>3, <2>4
<1>3. IsBcd(r[1]) /\ IsBcd(r[2]) /\ IsBcd(r[3]) /\ IsBcd(r[5]) /\ IsBcd(r[6] % 32) /\ IsBcd(r[7])
  BY <1>2 DEF Sound
<1>4. /\ to_bcd(from_bcd(r[1])) = r[1] /\ to_bcd(from_bcd(r[2])) = r[2]
      /\ to_bcd(from_bcd(r[3])) = r[3] /\ to_bcd(from_bcd(r[5])) = r[5]
      /\ to_bcd(from_bcd(r[6] % 32)) = r[6] % 32 /\ to_bcd(from_bcd(r[7])) = r[7]
      /\ from_bcd(r[7]) \in 0..99
  BY <1>1, <1>2, <1>3, BcdBackAndThere
<1>5. /\ t.second = from_bcd(r[1]) /\ t.minute = from_bcd(r[2]) /\ t.hour = from_bcd(r[3])
      /\ t.day = from_bcd(r[5]) /\ t.month = from_bcd(r[6] % 32)
      /\ t.year = 2000 + (IF r[6] >= 128 THEN 100 ELSE 0) + from_bcd(r[7])
  BY <1>2 DEF Fields, MIN_YEAR
<1>6. /\ t.year >= 2100 <=> r[6] >= 128
      /\ (IF t.year >= 2100 THEN t.year - 2100 ELSE t.year - 2000) = from_bcd(r[7])
  BY <1>1, <1>4, <1>5, SMT DEF Byte
<1>7. /\ b[1] = to_bcd(t.second) /\ b[2] = to_bcd(t.minute) /\ b[3] = to_bcd(t.hour)
      /\ b[5] = to_bcd(t.day)
      /\ b[6] = to_bcd(t.month) + (IF t.year >= 2100 THEN 128 ELSE 0)
      /\ b[7] = to_bcd(IF t.year >= 2100 THEN t.year - 2100 ELSE t.year - 2000)
  BY SMT DEF to_registers
<1> HIDE DEF t, b
<1>8. b[1] = r[1] /\ b[2] = r[2] /\ b[3] = r[3] /\ b[5] = r[5]
  BY <1>4, <1>5, <1>7
<1>9. b[6] = r[6] /\ b[7] = r[7]
  BY <1>2, <1>4, <1>5, <1>6, <1>7, SMT
<1>10. i \in {1, 2, 3, 5, 6, 7}
  OBVIOUS
<1> QED
  BY <1>8, <1>9, <1>10 DEF t, b

--------------------------------------------------------------------------------
\* Years of the calendar that begin in March: each has 365 days, or 366 if its
\* last February has 29.
LEMMA YearsOfDays ==
    ASSUME NEW y \in 2000..2199
    PROVE  /\ Leap(y) => DaysTo(y) = DaysTo(y - 1) + 366
           /\ ~ Leap(y) => DaysTo(y) = DaysTo(y - 1) + 365
<1>1. y \in Int /\ y - 1 \in Int
  OBVIOUS
<1>2. DaysTo(y) = 730485 + (y - 2000) * 365 + (y - 2000) \div 4 - (y - 2000) \div 100
  <2>1. y \div 400 = 5
    BY SMT
  <2> QED
    BY <1>1, <2>1, SMT DEF DaysTo
<1>3. CASE y = 2000
  BY <1>2, <1>3, SMT DEF DaysTo, Leap
<1>4. CASE y > 2000
  <2>1. (y - 1) \div 400 = 5
    BY <1>4, SMT
  <2>2. DaysTo(y - 1) = 730485 + (y - 2001) * 365 + (y - 2001) \div 4 - (y - 2001) \div 100
    BY <1>1, <2>1, SMT DEF DaysTo
  <2> QED
    BY <1>1, <1>2, <1>4, <2>2, SMT DEF Leap
<1> QED
  BY <1>3, <1>4

LEMMA MonthsOfDays ==
    /\ DaysBefore(1) = 306 /\ DaysBefore(2) = 337 /\ DaysBefore(3) = 0
    /\ DaysBefore(4) = 31 /\ DaysBefore(5) = 61 /\ DaysBefore(6) = 92
    /\ DaysBefore(7) = 122 /\ DaysBefore(8) = 153 /\ DaysBefore(9) = 184
    /\ DaysBefore(10) = 214 /\ DaysBefore(11) = 245 /\ DaysBefore(12) = 275
BY SMT DEF DaysBefore

LEMMA LeapSame == ASSUME NEW y \in Int PROVE is_leap_year(y) <=> Leap(y)
BY SMT DEF is_leap_year, Leap

LEMMA YearsBounded ==
    ASSUME NEW y \in 1999..2199
    PROVE  /\ DaysTo(1999) + 365 * (y - 1999) <= DaysTo(y)
           /\ DaysTo(y) + 365 * (2199 - y) <= DaysTo(2199)
<1>1. DaysTo(1999) = 730119 /\ DaysTo(2199) = 803168
  BY SMT DEF DaysTo
<1>2. CASE y = 1999
  BY <1>1, <1>2, SMT
<1>3. CASE y > 1999
  <2>1. y \div 400 = 5
    BY <1>3, SMT
  <2>2. DaysTo(y) = 730485 + (y - 2000) * 365 + (y - 2000) \div 4 - (y - 2000) \div 100
    BY <2>1, SMT DEF DaysTo
  <2> QED
    BY <1>1, <1>3, <2>2, SMT
<1> QED
  BY <1>2, <1>3

CalendarYears == MIN_YEAR..MAX_YEAR

\* A date of the two centuries has a day number of the two centuries.
LEMMA DaysBounded ==
    ASSUME NEW u \in Int, NEW m \in Int, NEW d \in Int
    PROVE  u \in CalendarYears /\ m \in 1..12 /\ d \in 1..31
              => days_from_civil(u, m, d)
                    \in days_from_civil(2000, 1, 1)..days_from_civil(2199, 12, 31)
<1> DEFINE y == MarchYear(u, m)
           b == DaysBefore(m)
<1> SUFFICES ASSUME u \in CalendarYears, m \in 1..12, d \in 1..31
             PROVE  days_from_civil(u, m, d)
                       \in days_from_civil(2000, 1, 1)..days_from_civil(2199, 12, 31)
  OBVIOUS
<1>2. days_from_civil(u, m, d) = DaysTo(y) + b + d - Epoch
  BY DayNumber
<1>9. DaysTo(y) \in Int /\ Epoch \in Int
  BY DayNumber
<1>10. days_from_civil(u, m, d) \in Int
  BY DayNumber
<1>1. u \in 2000..2199
  BY SMT DEF CalendarYears, MIN_YEAR, MAX_YEAR
<1>3. /\ days_from_civil(2000, 1, 1) = DaysTo(1999) + 306 + 1 - Epoch
      /\ DaysTo(1999) \in Int /\ days_from_civil(2000, 1, 1) \in Int
  <2>1. MarchYear(2000, 1) = 1999
    BY SMT DEF MarchYear
  <2> QED
    BY <2>1, DayNumber, MonthsOfDays, SMT
<1>4. /\ days_from_civil(2199, 12, 31) = DaysTo(2199) + 275 + 31 - Epoch
      /\ DaysTo(2199) \in Int /\ days_from_civil(2199, 12, 31) \in Int
  <2>1. MarchYear(2199, 12) = 2199
    BY SMT DEF MarchYear
  <2> QED
    BY <2>1, DayNumber, MonthsOfDays, SMT
<1>5. /\ y \in 1999..2199
      /\ \/ m <= 2 /\ y <= 2198
         \/ m > 2 /\ y >= 2000
  BY <1>1, SMT DEF MarchYear
<1>6. m <= 2 => b \in {306, 337}
  BY MonthsOfDays, SMT
<1>7. m > 2 => b \in 0..275
  <2>1. m > 2 => m \in {3, 4, 5, 6, 7, 8, 9, 10, 11, 12}
    BY SMT
  <2> QED
    BY <2>1, MonthsOfDays, SMT
<1> HIDE DEF y, b
<1>8. /\ DaysTo(1999) + 365 * (y - 1999) <= DaysTo(y)
      /\ DaysTo(y) + 365 * (2199 - y) <= DaysTo(2199)
  BY <1>5, YearsBounded, SMT
<1> QED
  BY <1>1, <1>2, <1>3, <1>4, <1>5, <1>6, <1>7, <1>8, <1>9, <1>10, SMT

\* From a day to the next, within a month and at its end.
LEMMA WithinMonth ==
    ASSUME NEW y \in Int, NEW m \in Int, NEW d \in Int
    PROVE  days_from_civil(y, m, d + 1) = days_from_civil(y, m, d) + 1
<1>1. d + 1 \in Int
  OBVIOUS
<1>2. days_from_civil(y, m, d + 1) = DaysTo(MarchYear(y, m)) + DaysBefore(m) + (d + 1) - Epoch
  BY <1>1, DayNumber
<1>3. /\ days_from_civil(y, m, d) = DaysTo(MarchYear(y, m)) + DaysBefore(m) + d - Epoch
      /\ DaysTo(MarchYear(y, m)) \in Int /\ DaysBefore(m) \in Int /\ Epoch \in Int
  BY DayNumber
<1> QED
  BY <1>2, <1>3, SMT

LEMMA MonthEnd ==
    ASSUME NEW y \in Int, NEW m \in {1, 3, 4, 5, 6, 7, 8, 9, 10, 11}
    PROVE  days_from_civil(y, m + 1, 1)
              = days_from_civil(y, m, IF m \in {4, 6, 9, 11} THEN 30 ELSE 31) + 1
<1> DEFINE length == IF m \in {4, 6, 9, 11} THEN 30 ELSE 31
<1>1. DaysBefore(m + 1) = DaysBefore(m) + length
  BY MonthsOfDays, SMT
<1>2. MarchYear(y, m + 1) = MarchYear(y, m)
  BY SMT DEF MarchYear
<1>3. m \in Int /\ m + 1 \in Int /\ length \in Int
  BY SMT
<1> HIDE DEF length
<1>4. days_from_civil(y, m + 1, 1)
         = DaysTo(MarchYear(y, m + 1)) + DaysBefore(m + 1) + 1 - Epoch
  BY <1>3, DayNumber, SMT
<1>5. /\ days_from_civil(y, m, length)
            = DaysTo(MarchYear(y, m)) + DaysBefore(m) + length - Epoch
      /\ DaysTo(MarchYear(y, m)) \in Int /\ DaysBefore(m) \in Int /\ Epoch \in Int
  BY <1>3, DayNumber, ZenonT(40)
<1>6. days_from_civil(y, m + 1, 1) = days_from_civil(y, m, length) + 1
  BY <1>1, <1>2, <1>3, <1>4, <1>5, SMT
<1> QED
  BY <1>6 DEF length

LEMMA FebruaryEnd ==
    ASSUME NEW y \in Int, y \in CalendarYears
    PROVE  days_from_civil(y, 3, 1)
              = days_from_civil(y, 2, IF Leap(y) THEN 29 ELSE 28) + 1
<1> DEFINE length == IF Leap(y) THEN 29 ELSE 28
<1>1. y \in Int /\ y - 1 \in Int /\ length \in Int
  BY SMT DEF CalendarYears, MIN_YEAR, MAX_YEAR
<1>2. /\ Leap(y) => DaysTo(y) = DaysTo(y - 1) + 366
      /\ ~ Leap(y) => DaysTo(y) = DaysTo(y - 1) + 365
  <2>1. y \in 2000..2199
    BY SMT DEF CalendarYears, MIN_YEAR, MAX_YEAR
  <2> QED
    BY <2>1, YearsOfDays
<1>3. DaysTo(y) = DaysTo(y - 1) + 337 + length
  <2>0. DaysTo(y - 1) \in Int
    BY <1>1, DaysTyped
  <2>1. CASE Leap(y)
    <3>1. length = 29
      BY <2>1
    <3> QED
      BY <1>2, <2>0, <2>1, <3>1, SMT
  <2>2. CASE ~ Leap(y)
    <3>1. length = 28
      BY <2>2
    <3> QED
      BY <1>2, <2>0, <2>2, <3>1, SMT
  <2> QED
    BY <2>1, <2>2
<1>4. MarchYear(y, 2) = y - 1 /\ MarchYear(y, 3) = y
  BY <1>1, SMT DEF MarchYear
<1>5. DaysBefore(2) = 337 /\ DaysBefore(3) = 0
  BY MonthsOfDays, SMT
<1> HIDE DEF length
<1>6. /\ days_from_civil(y, 2, length) = DaysTo(y - 1) + 337 + length - Epoch
      /\ DaysTo(y - 1) \in Int /\ Epoch \in Int
  <2> DEFINE m == 2
  <2>1. m \in Int
    BY SMT
  <2> HIDE DEF m
  <2>3. y \in Int /\ length \in Int
    BY <1>1, Zenon
  <2>2. /\ days_from_civil(y, m, length)
              = DaysTo(MarchYear(y, m)) + DaysBefore(m) + length - Epoch
        /\ DaysTo(MarchYear(y, m)) \in Int /\ DaysBefore(m) \in Int /\ Epoch \in Int
    BY <2>1, <2>3, DayNumber, ZenonT(40)
  <2> QED
    BY <1>1, <1>4, <1>5, <2>2, SMT DEF m
<1>7. days_from_civil(y, 3, 1) = DaysTo(y) + 0 + 1 - Epoch
  BY <1>1, <1>4, <1>5, DayNumber, SMT
<1>8. days_from_civil(y, 3, 1) = days_from_civil(y, 2, length) + 1
  BY <1>1, <1>3, <1>6, <1>7, SMT
<1> QED
  BY <1>8 DEF length

LEMMA YearEnd ==
    ASSUME NEW y \in Int
    PROVE  days_from_civil(y + 1, 1, 1) = days_from_civil(y, 12, 31) + 1
<1>1. MarchYear(y, 12) = y /\ MarchYear(y + 1, 1) = y /\ y + 1 \in Int
  BY SMT DEF MarchYear
<1>2. DaysBefore(1) = 306 /\ DaysBefore(12) = 275
  BY MonthsOfDays, SMT
<1>3. days_from_civil(y, 12, 31) = DaysTo(y) + 275 + 31 - Epoch
  BY <1>1, <1>2, DayNumber, SMT
<1>4. /\ days_from_civil(y + 1, 1, 1) = DaysTo(y) + 306 + 1 - Epoch
      /\ DaysTo(y) \in Int /\ Epoch \in Int
  BY <1>1, <1>2, DayNumber, SMT
<1> QED
  BY <1>3, <1>4, SMT

Dates == {d \in [year : CalendarYears, month : 1..12, day : 1..31] :
             d.day <= Length(d.month, Leap(d.year))}

\* The true calendar and the day number go on together.
LEMMA NextDayNumber ==
    ASSUME NEW d \in Dates
    PROVE  LET n == NextDate(d, Leap(d.year))
           IN  /\ days_from_civil(n.year, n.month, n.day)
                     = days_from_civil(d.year, d.month, d.day) + 1
               /\ n.year = d.year \/ (n.year = d.year + 1 /\ d.month = 12 /\ d.day = 31)
               /\ n \in [year : {n.year}, month : 1..12, day : 1..31]
               /\ n.day <= Length(n.month, Leap(n.year))
<1> DEFINE n == NextDate(d, Leap(d.year))
           length == Length(d.month, Leap(d.year))
<1>1. /\ d.year \in CalendarYears /\ d.month \in 1..12 /\ d.day \in 1..31
      /\ d = [year |-> d.year, month |-> d.month, day |-> d.day]
      /\ d.day <= length
  BY DEF Dates
<1>2. d.year \in Int /\ d.month \in Int /\ d.day \in Int
  BY <1>1 DEF CalendarYears, MIN_YEAR, MAX_YEAR
<1>3. length \in 28..31 /\ \A m, leap : Length(m, leap) \in 28..31
  BY DEF Length
<1>4. CASE d.day < length
  <2>1. n = [year |-> d.year, month |-> d.month, day |-> d.day + 1]
    BY <1>1, <1>4 DEF NextDate
  <2>2. n.year = d.year /\ n.month = d.month /\ n.day = d.day + 1
    BY <2>1
  <2>3. d.day + 1 \in 1..31 /\ d.day + 1 <= length
    BY <1>1, <1>2, <1>3, <1>4
  <2> HIDE DEF n, length
  <2>4. days_from_civil(n.year, n.month, n.day) = days_from_civil(d.year, d.month, d.day) + 1
    BY <1>2, <2>2, WithinMonth
  <2> QED
    BY <1>1, <2>1, <2>2, <2>3, <2>4 DEF n, length
<1>5. CASE ~ (d.day < length) /\ d.month < 12
  <2>1. n = [year |-> d.year, month |-> d.month + 1, day |-> 1]
    BY <1>1, <1>5 DEF NextDate
  <2>2. n.year = d.year /\ n.month = d.month + 1 /\ n.day = 1
    BY <2>1
  <2>3. d.day = length /\ d.month + 1 \in 1..12
    BY <1>1, <1>2, <1>3, <1>5
  <2> HIDE DEF n
  <2>4. days_from_civil(n.year, n.month, n.day) = days_from_civil(d.year, d.month, d.day) + 1
    <3>1. CASE d.month = 2
      <4>1. d.day = IF Leap(d.year) THEN 29 ELSE 28
        BY <2>3, <3>1 DEF Length
      <4>2. n.year = d.year /\ n.month = 3 /\ n.day = 1
        BY <2>2, <3>1
      <4>3. days_from_civil(d.year, 3, 1)
               = days_from_civil(d.year, 2, IF Leap(d.year) THEN 29 ELSE 28) + 1
        BY <1>1, <1>2, FebruaryEnd
      <4> QED
        BY <3>1, <4>1, <4>2, <4>3
    <3>2. CASE d.month # 2
      <4>1. d.month \in {1, 3, 4, 5, 6, 7, 8, 9, 10, 11}
        BY <1>1, <1>5, <3>2
      <4>2. length = IF d.month \in {4, 6, 9, 11} THEN 30 ELSE 31
        BY <3>2 DEF Length
      <4> QED
        BY <1>2, <2>2, <2>3, <4>1, <4>2, MonthEnd
    <3> QED
      BY <3>1, <3>2
  <2>5. 1 <= Length(n.month, Leap(n.year))
    BY <1>3
  <2> QED
    BY <2>1, <2>2, <2>3, <2>4, <2>5 DEF n
<1>6. CASE ~ (d.day < length) /\ ~ (d.month < 12)
  <2>1. n = [year |-> d.year + 1, month |-> 1, day |-> 1]
    BY <1>1, <1>6 DEF NextDate
  <2>2. n.year = d.year + 1 /\ n.month = 1 /\ n.day = 1
    BY <2>1
  <2>3. d.day = length /\ d.month = 12
    BY <1>1, <1>2, <1>3, <1>6
  <2>4. length = 31
    BY <2>3 DEF Length
  <2> HIDE DEF n, length
  <2>5. days_from_civil(n.year, n.month, n.day) = days_from_civil(d.year, d.month, d.day) + 1
    BY <1>2, <2>2, <2>3, <2>4, YearEnd
  <2>6. 1 <= Length(n.month, Leap(n.year))
    BY <1>3
  <2> QED
    BY <2>1, <2>2, <2>3, <2>4, <2>5, <2>6 DEF n
<1> QED
  BY <1>4, <1>5, <1>6
--------------------------------------------------------------------------------
\* The part holds a day, a month and a year of its century, if not the true one.
Holds(r) == \E d \in 1..31, m \in 1..12, yy \in 0..99 :
                /\ r[5] = to_bcd(d)
                /\ r[6] \in {to_bcd(m), to_bcd(m) + 128}
                /\ r[7] = to_bcd(yy)

Ranged == /\ date \in Dates /\ date.year <= LastYear
          /\ instant \in 0..LastSecond
          /\ crossed \in BOOLEAN
          /\ corrupted \subseteq 1..7
          /\ regs \in Dumps
          /\ regs[4] \in 1..7 \/ 4 \in corrupted

Numbered == today = days_from_civil(date.year, date.month, date.day)

Rolling == corrupted = {} => Holds(regs)

InStep == ~ crossed /\ corrupted = {} => regs = to_registers(TrueTime)

IInv == Ranged /\ Numbered /\ Rolling /\ InStep

LEMMA DaySeconds == LastSecond = 24 * 3600 - 1 /\ LastSecond \in Int
BY SMT DEF LastSecond

LEMMA HourOfSecond ==
    ASSUME NEW s \in Int, 0 <= s, s <= LastSecond
    PROVE  s \div 3600 < 24 /\ 0 <= s \div 3600
BY DaySeconds, SMT

LEMMA SecondIsInt == ASSUME NEW s \in 0..LastSecond PROVE s \in Int /\ 0 <= s /\ s <= LastSecond
<1>1. LastSecond \in Int
  BY DaySeconds, Zenon
<1> QED
  BY <1>1, SMT

\* The part is set: what it holds is a time of its century.
LEMMA SetHolds ==
    ASSUME NEW t \in CivilTimes
    PROVE  Holds(to_registers(t))
<1>1. t.year \in CalendarYears /\ t.month \in 1..12 /\ t.day \in 1..31
  BY DEF CivilTimes, CalendarYears
<1> DEFINE yy == IF t.year >= 2100 THEN t.year - 2100 ELSE t.year - 2000
           r == to_registers(t)
<1>2. yy \in 0..99
  BY <1>1, SMT DEF CalendarYears, MIN_YEAR, MAX_YEAR
<1>3. /\ r[5] = to_bcd(t.day) /\ r[7] = to_bcd(yy)
      /\ r[6] = to_bcd(t.month) + (IF t.year >= 2100 THEN 128 ELSE 0)
  BY SMT DEF to_registers
<1>4. to_bcd(t.month) \in Int
  BY <1>1, SMT DEF to_bcd
<1>5. r[6] \in {to_bcd(t.month), to_bcd(t.month) + 128}
  BY <1>3, <1>4, SMT
<1> HIDE DEF r, yy
<1>6. Holds(r)
  <2> DEFINE d == t.day
             m == t.month
  <2>1. /\ d \in 1..31 /\ m \in 1..12 /\ yy \in 0..99
        /\ r[5] = to_bcd(d) /\ r[6] \in {to_bcd(m), to_bcd(m) + 128} /\ r[7] = to_bcd(yy)
    BY <1>1, <1>2, <1>3, <1>5
  <2> HIDE DEF d, m
  <2> QED
    BY <2>1, Zenon DEF Holds
<1> QED
  BY <1>6 DEF r

--------------------------------------------------------------------------------
\* What a dump of seven bytes promises once it is believed.
LEMMA Masked == \A b \in Byte : b % 128 \in Byte /\ b % 64 \in Byte /\ b % 32 \in Byte
BY SMT DEF Byte

LEMMA ReadDecodes ==
    ASSUME NEW r \in Dumps, read_civil_time(0, r).err = "none"
    PROVE  /\ read_civil_time(0, r).time = Fields(r)
           /\ Sound(r) /\ InRange(Fields(r))
<1>1. read_civil_time(0, r) = decode_time(r)
  BY SMT DEF read_civil_time, OscillatorStopFlag
<1> QED
  BY <1>1, Decodes, Believes

LEMMA CanonicalOf ==
    ASSUME NEW r \in Dumps, read_civil_time(0, r).err = "none"
    PROVE  \A i \in 1..7 \ {4} : to_registers(read_civil_time(0, r).time)[i] = r[i]
<1>1. read_civil_time(0, r).time = Fields(r) /\ Sound(r)
  BY ReadDecodes
<1> QED
  BY <1>1, Canonical

\* Two centuries of the Gregorian calendar have 73,049 days.
LEMMA TwoCenturies == /\ days_from_civil(2000, 1, 1) = Day2000
                      /\ days_from_civil(2199, 12, 31) = Day2000 + 73048
BY SMT DEF days_from_civil, Day2000

\* A decoded date is one of the Gregorian calendar, not only of days_in_month.
LEMMA DateOf ==
    ASSUME NEW r \in Dumps, read_civil_time(0, r).err = "none"
    PROVE  LET t == read_civil_time(0, r).time
           IN  /\ t.month \in 1..12
               /\ t.day \in 1..Length(t.month, Leap(t.year))
               /\ unix(t).day \in Day2000..Day2000 + 73048
               /\ unix(t).second \in 0..LastSecond
<1> DEFINE t == read_civil_time(0, r).time
<1>1. t = Fields(r) /\ InRange(t)
  BY ReadDecodes
<1>2. /\ t.year \in Int /\ t.month \in Int /\ t.day \in Int
      /\ t.hour \in Nat /\ t.minute \in Nat /\ t.second \in Nat
  <2>1. /\ r[1] % 128 \in Byte /\ r[2] % 128 \in Byte /\ r[3] % 64 \in Byte
        /\ r[5] % 64 \in Byte /\ r[6] % 32 \in Byte /\ r[7] \in Byte
    <3>1. /\ r[1] \in Byte /\ r[2] \in Byte /\ r[3] \in Byte
          /\ r[5] \in Byte /\ r[6] \in Byte /\ r[7] \in Byte
      BY DEF Dumps
    <3> QED
      BY <3>1, Masked
  <2>2. /\ t.second = from_bcd(r[1] % 128) /\ t.minute = from_bcd(r[2] % 128)
        /\ t.hour = from_bcd(r[3] % 64) /\ t.day = from_bcd(r[5] % 64)
        /\ t.month = from_bcd(r[6] % 32)
        /\ t.year = MIN_YEAR + (IF r[6] >= 128 THEN 100 ELSE 0) + from_bcd(r[7])
    BY <1>1 DEF Fields
  <2>3. \A byte \in Byte : from_bcd(byte) \in Nat
    BY SMT DEF Byte, from_bcd
  <2> HIDE DEF t
  <2>4. t.year \in Int
    BY <2>1, <2>2, <2>3, SMT DEF MIN_YEAR
  <2> QED
    BY <2>1, <2>2, <2>3, <2>4, SMT
<1> HIDE DEF t
<1>3. /\ t.year \in CalendarYears /\ t.month \in 1..12
      /\ t.day \in 1..days_in_month(t.year, t.month)
      /\ t.hour <= 23 /\ t.minute <= 59 /\ t.second <= 59
  BY <1>1, <1>2, SMT DEF InRange, CalendarYears
<1>4. t.day \in 1..31
  <2>1. days_in_month(t.year, t.month) \in {0, 28, 29, 30, 31}
    BY <1>2, MonthDays
  <2> QED
    BY <1>2, <1>3, <2>1, SMT
<1>5. unix(t).day \in days_from_civil(2000, 1, 1)..days_from_civil(2199, 12, 31)
  <2>1. unix(t).day = days_from_civil(t.year, t.month, t.day)
    BY DEF unix
  <2>2. days_from_civil(t.year, t.month, t.day)
           \in days_from_civil(2000, 1, 1)..days_from_civil(2199, 12, 31)
    <3> DEFINE u == t.year
               m == t.month
               d == t.day
    <3>1. /\ u \in Int /\ m \in Int /\ d \in Int
          /\ u \in CalendarYears /\ m \in 1..12 /\ d \in 1..31
      BY <1>2, <1>3, <1>4
    <3> HIDE DEF u, m, d
    <3>2. days_from_civil(u, m, d)
             \in days_from_civil(2000, 1, 1)..days_from_civil(2199, 12, 31)
      BY <3>1, DaysBounded, SMT
    <3> QED
      BY <3>2 DEF u, m, d
  <2> QED
    BY <2>1, <2>2
<1>6. unix(t).second \in 0..LastSecond
  <2> DEFINE s == t.hour * 3600 + t.minute * 60 + t.second
  <2>1. s \in Int /\ 0 <= s /\ s <= 24 * 3600 - 1
    BY <1>2, <1>3, SMT
  <2>2. unix(t).second = s
    BY SMT DEF unix
  <2> HIDE DEF s
  <2>3. s <= LastSecond /\ LastSecond \in Int
    BY <2>1, DaySeconds, SMT
  <2> QED
    BY <2>1, <2>2, <2>3, SMT
<1>7. t.day \in 1..Length(t.month, Leap(t.year))
  <2>1. days_in_month(t.year, t.month) = Length(t.month, is_leap_year(t.year))
    BY <1>2, <1>3, MonthDays
  <2>2. is_leap_year(t.year) = Leap(t.year)
    BY <1>2 DEF is_leap_year, Leap
  <2> QED
    BY <1>3, <2>1, <2>2
<1>8. unix(t).day \in Day2000..Day2000 + 73048
  BY <1>5, TwoCenturies
<1> QED
  BY <1>3, <1>6, <1>7, <1>8 DEF t

--------------------------------------------------------------------------------
\* The part at midnight still holds a day of its century.
LEMMA RolledHolds ==
    ASSUME NEW r \in Dumps, Holds(r)
    PROVE  Rolled(r) \in Dumps /\ Holds(Rolled(r)) /\ Rolled(r)[4] \in 1..7
<1>1. PICK d \in 1..31, m \in 1..12, yy \in 0..99 :
         /\ r[5] = to_bcd(d) /\ r[6] \in {to_bcd(m), to_bcd(m) + 128} /\ r[7] = to_bcd(yy)
  BY Zenon DEF Holds
<1>2. /\ from_bcd(r[5]) = d /\ from_bcd(r[7]) = yy /\ from_bcd(r[6] % 32) = m
  <2>1. d \in 0..99 /\ m \in 0..99 /\ m \in 0..12
    BY SMT
  <2>2. /\ from_bcd(to_bcd(d)) = d /\ from_bcd(to_bcd(m)) = m /\ from_bcd(to_bcd(yy)) = yy
        /\ to_bcd(m) \in 0..31
    BY <2>1, BcdThereAndBack
  <2>3. to_bcd(m) % 32 = to_bcd(m) /\ (to_bcd(m) + 128) % 32 = to_bcd(m)
    BY <2>2, SMT
  <2>4. r[6] % 32 = to_bcd(m)
    BY <1>1, <2>3
  <2> QED
    BY <1>1, <2>2, <2>4
<1> DEFINE next == NextDate([year |-> yy, month |-> m, day |-> d], yy % 4 = 0)
           century == (r[6] >= 128) # (next.year = 100)
<1>3. next.day \in 1..31 /\ next.month \in 1..12 /\ next.year % 100 \in 0..99
  <2>1. Length(m, yy % 4 = 0) \in 28..31
    BY DEF Length
  <2> HIDE DEF next
  <2>2. CASE d < Length(m, yy % 4 = 0)
    <3>1. next = [year |-> yy, month |-> m, day |-> d + 1]
      BY <2>2 DEF next, NextDate
    <3> QED
      BY <2>1, <2>2, <3>1
  <2>3. CASE ~ (d < Length(m, yy % 4 = 0)) /\ m < 12
    <3>1. next = [year |-> yy, month |-> m + 1, day |-> 1]
      BY <2>3 DEF next, NextDate
    <3> QED
      BY <2>3, <3>1
  <2>4. CASE ~ (d < Length(m, yy % 4 = 0)) /\ ~ (m < 12)
    <3>1. next = [year |-> yy + 1, month |-> 1, day |-> 1]
      BY <2>4 DEF next, NextDate
    <3> QED
      BY <2>4, <3>1
  <2> QED
    BY <2>2, <2>3, <2>4
<1>4. Rolled(r) = [r EXCEPT ![4] = (@ % 7) + 1,
                            ![5] = to_bcd(next.day),
                            ![6] = to_bcd(next.month) + (IF century THEN 128 ELSE 0),
                            ![7] = to_bcd(next.year % 100)]
  <2> DEFINE raw == NextDate([year |-> from_bcd(r[7]), month |-> from_bcd(r[6] % 32),
                              day |-> from_bcd(r[5])], from_bcd(r[7]) % 4 = 0)
  <2>1. Rolled(r) = [r EXCEPT ![4] = (@ % 7) + 1,
                              ![5] = to_bcd(raw.day),
                              ![6] = to_bcd(raw.month)
                                        + (IF (r[6] >= 128) # (raw.year = 100) THEN 128 ELSE 0),
                              ![7] = to_bcd(raw.year % 100)]
    BY Zenon DEF Rolled
  <2>2. raw = next
    BY <1>2
  <2> HIDE DEF raw, next
  <2> QED
    BY <2>1, <2>2 DEF century
<1> HIDE DEF next, century
<1>5. /\ to_bcd(next.day) \in Byte /\ to_bcd(next.month) \in 0..31
      /\ to_bcd(next.year % 100) \in Byte
  <2>1. next.day \in 0..99 /\ next.month \in 0..12
    BY <1>3, SMT
  <2> QED
    BY <1>3, <2>1, BcdThereAndBack
<1>6. to_bcd(next.month) + (IF century THEN 128 ELSE 0)
         \in {to_bcd(next.month), to_bcd(next.month) + 128}
  BY <1>5, SMT
<1>7. to_bcd(next.month) + (IF century THEN 128 ELSE 0) \in Byte
  BY <1>5, SMT DEF Byte
<1>8. r \in [1..7 -> Byte]
  BY DEF Dumps
<1>9. (r[4] % 7) + 1 \in 1..7 /\ (r[4] % 7) + 1 \in Byte
  BY <1>8, SMT DEF Byte
<1> DEFINE r6 == to_bcd(next.month) + (IF century THEN 128 ELSE 0)
<1>10. /\ Rolled(r)[4] = (r[4] % 7) + 1 /\ Rolled(r)[5] = to_bcd(next.day)
       /\ Rolled(r)[6] = r6 /\ Rolled(r)[7] = to_bcd(next.year % 100)
  BY <1>4, <1>8
<1> HIDE DEF r6
<1>11. Rolled(r) \in [1..7 -> Byte]
  BY <1>4, <1>5, <1>7, <1>8, <1>9
<1>12. Holds(Rolled(r))
  <2> DEFINE d1 == next.day
             m1 == next.month
             y1 == next.year % 100
             n == Rolled(r)
  <2>1. /\ d1 \in 1..31 /\ m1 \in 1..12 /\ y1 \in 0..99
        /\ n[5] = to_bcd(d1) /\ n[6] \in {to_bcd(m1), to_bcd(m1) + 128} /\ n[7] = to_bcd(y1)
    BY <1>3, <1>6, <1>10 DEF r6
  <2> HIDE DEF d1, m1, y1, n
  <2>2. Holds(n)
    BY <2>1, ZenonT(40) DEF Holds
  <2> QED
    BY <2>2 DEF n
<1> QED
  BY <1>9, <1>10, <1>11, <1>12 DEF Dumps

\* The time at a second of a date, as TrueTime reads it.
At(d, s) == [year |-> d.year, month |-> d.month, day |-> d.day,
             hour |-> s \div 3600, minute |-> (s \div 60) % 60, second |-> s % 60]

Century(year) == IF year >= 2100 THEN year - 2100 ELSE year - 2000

\* What the registers of a time hold, field by field.
LEMMA Encoded ==
    ASSUME NEW t \in CivilTimes
    PROVE  LET r == to_registers(t)
           IN  /\ from_bcd(r[5]) = t.day /\ from_bcd(r[6] % 32) = t.month
               /\ from_bcd(r[7]) = Century(t.year)
               /\ r[6] >= 128 <=> t.year >= 2100
               /\ Century(t.year) \in 0..99
<1> DEFINE r == to_registers(t)
<1>1. r \in Dumps /\ read_civil_time(0, r) = [err |-> "none", time |-> t]
  BY EncodesTrue
<1>2. Fields(r) = t /\ Sound(r)
  BY <1>1, ReadDecodes
<1>3. r[5] \in Byte /\ r[6] \in Byte /\ r[7] \in Byte
  BY <1>1 DEF Dumps
<1>4. r[5] % 64 = r[5]
  <2>1. r[5] < 64
    BY <1>2 DEF Sound
  <2> QED
    BY <1>3, <2>1, SMT DEF Byte
<1>5. /\ from_bcd(r[5] % 64) = t.day /\ from_bcd(r[6] % 32) = t.month
      /\ t.year = MIN_YEAR + (IF r[6] >= 128 THEN 100 ELSE 0) + from_bcd(r[7])
  BY <1>2 DEF Fields
<1>6. from_bcd(r[7]) \in 0..99
  BY <1>2, <1>3, BcdBackAndThere DEF Sound
<1> HIDE DEF r
<1>7. from_bcd(r[7]) = Century(t.year) /\ (r[6] >= 128 <=> t.year >= 2100)
  BY <1>3, <1>5, <1>6, SMT DEF Century, MIN_YEAR
<1> QED
  BY <1>4, <1>5, <1>6, <1>7 DEF r

LEMMA AtCivil ==
    ASSUME NEW d \in Dates, NEW s \in 0..LastSecond
    PROVE  At(d, s) \in CivilTimes
<1>1. /\ d.year \in CalendarYears /\ d.month \in 1..12 /\ d.day \in 1..31
      /\ d.day <= Length(d.month, Leap(d.year))
  BY DEF Dates
<1>4. s \in Int /\ 0 <= s /\ s <= LastSecond
  BY SecondIsInt, Zenon
<1>5. s \div 3600 < 24 /\ 0 <= s \div 3600
  BY <1>4, HourOfSecond, SMT
<1>2. /\ s \div 3600 \in 0..23 /\ (s \div 60) % 60 \in 0..59 /\ s % 60 \in 0..59
  BY <1>4, <1>5, SMT
<1>3. d.day <= days_in_month(d.year, d.month)
  <2>1. d.year \in Int
    BY <1>1, SMT DEF CalendarYears, MIN_YEAR, MAX_YEAR
  <2>2. days_in_month(d.year, d.month) = Length(d.month, is_leap_year(d.year))
    BY <1>1, <2>1, MonthDays
  <2>3. is_leap_year(d.year) <=> Leap(d.year)
    BY <2>1, LeapSame
  <2> QED
    BY <1>1, <2>2, <2>3 DEF Length
<1> QED
  BY <1>1, <1>2, <1>3 DEF At, CivilTimes, CalendarYears

\* The last date before the two calendars part.
LastAgreed == [year |-> 2100, month |-> 2, day |-> 28]

\* The two leap-year rules agree on every date but the last of February 2100.
LEMMA RulesAgree ==
    ASSUME NEW d \in Dates, d # LastAgreed
    PROVE  d.day < Length(d.month, Leap(d.year))
              <=> d.day < Length(d.month, Century(d.year) % 4 = 0)
<1>1. /\ d.year \in CalendarYears /\ d.month \in 1..12 /\ d.day \in 1..31
      /\ d = [year |-> d.year, month |-> d.month, day |-> d.day]
      /\ d.day <= Length(d.month, Leap(d.year))
  BY DEF Dates
<1>2. d.year \in Int /\ 2000 <= d.year /\ d.year <= 2199
  BY <1>1, SMT DEF CalendarYears, MIN_YEAR, MAX_YEAR
<1>3. CASE d.year # 2100
  <2> DEFINE y == d.year
  <2>1. y \in Int /\ 2000 <= y /\ y <= 2199 /\ y # 2100
    BY <1>2, <1>3
  <2> HIDE DEF y
  <2>2. Leap(y) <=> Century(y) % 4 = 0
    BY <2>1, SMT DEF Leap, Century
  <2> QED
    BY <2>2 DEF Length, y
<1>4. CASE d.year = 2100
  <2>1. ~ Leap(2100) /\ Century(2100) % 4 = 0
    BY SMT DEF Leap, Century
  <2>2. CASE d.month # 2
    BY <2>2 DEF Length
  <2>3. CASE d.month = 2
    <3>1. /\ Length(d.month, Leap(d.year)) = 28
          /\ Length(d.month, Century(d.year) % 4 = 0) = 29
      BY <1>4, <2>1, <2>3 DEF Length
    <3>2. d.day # 28
      BY <1>1, <1>4, <2>3 DEF LastAgreed
    <3>3. d.day \in Int /\ d.day <= 28
      BY <1>1, <3>1
    <3> HIDE DEF Leap
    <3> QED
      BY <3>1, <3>2, <3>3, SMT
  <2> QED
    BY <2>2, <2>3
<1> QED
  BY <1>3, <1>4

\* A part that shows the true time shows it again after midnight.
LEMMA RolledTrue ==
    ASSUME NEW d \in Dates, NEW s \in 0..LastSecond,
           d # LastAgreed,
           NextDate(d, Leap(d.year)) \in Dates
    PROVE  Rolled(to_registers(At(d, s)))
              = to_registers(At(NextDate(d, Leap(d.year)), s))
<1> DEFINE t == At(d, s)
           n == NextDate(d, Leap(d.year))
           u == At(n, s)
           r == to_registers(t)
           yy == Century(d.year)
           next == NextDate([year |-> yy, month |-> d.month, day |-> d.day], yy % 4 = 0)
<1>1. /\ d.year \in CalendarYears /\ d.month \in 1..12 /\ d.day \in 1..31
      /\ n.year \in CalendarYears /\ n.month \in 1..12 /\ n.day \in 1..31
  BY DEF Dates
<1>2. t \in CivilTimes /\ u \in CivilTimes
  BY AtCivil
<1>3. /\ t.year = d.year /\ t.month = d.month /\ t.day = d.day
      /\ u.year = n.year /\ u.month = n.month /\ u.day = n.day
      /\ t.hour = u.hour /\ t.minute = u.minute /\ t.second = u.second
  BY DEF At
<1>4. /\ from_bcd(r[5]) = d.day /\ from_bcd(r[6] % 32) = d.month /\ from_bcd(r[7]) = yy
      /\ r[6] >= 128 <=> d.year >= 2100
      /\ yy \in 0..99
  <2> HIDE DEF t
  <2> QED
    BY <1>2, <1>3, Encoded
<1>5. d.day < Length(d.month, Leap(d.year)) <=> d.day < Length(d.month, yy % 4 = 0)
  BY RulesAgree
<1>6. /\ next.day = n.day /\ next.month = n.month
      /\ next.year - yy = n.year - d.year
      /\ n.year = d.year \/ n.year = d.year + 1
      /\ n.year \in Int /\ d.year \in Int /\ next.year \in Int
  <2>0. d.year \in Int /\ yy \in Int /\ d.year - d.year = 0 /\ yy - yy = 0
        /\ (d.year + 1) - d.year = 1 /\ (yy + 1) - yy = 1 /\ d.year + 1 \in Int /\ yy + 1 \in Int
    BY <1>1, <1>4, SMT DEF CalendarYears, MIN_YEAR, MAX_YEAR
  <2>2. d = [year |-> d.year, month |-> d.month, day |-> d.day]
    BY DEF Dates
  <2>3. CASE d.day < Length(d.month, Leap(d.year))
    <3>1. n = [year |-> d.year, month |-> d.month, day |-> d.day + 1]
      BY <2>2, <2>3 DEF NextDate
    <3>2. next = [year |-> yy, month |-> d.month, day |-> d.day + 1]
      BY <1>5, <2>3 DEF NextDate
    <3> HIDE DEF n, next, yy
    <3> QED
      BY <2>0, <3>1, <3>2
  <2>4. CASE ~ (d.day < Length(d.month, Leap(d.year))) /\ d.month < 12
    <3>1. n = [year |-> d.year, month |-> d.month + 1, day |-> 1]
      BY <2>2, <2>4 DEF NextDate
    <3>2. next = [year |-> yy, month |-> d.month + 1, day |-> 1]
      BY <1>5, <2>4 DEF NextDate
    <3> HIDE DEF n, next, yy
    <3> QED
      BY <2>0, <3>1, <3>2
  <2>5. CASE ~ (d.day < Length(d.month, Leap(d.year))) /\ ~ (d.month < 12)
    <3>1. n = [year |-> d.year + 1, month |-> 1, day |-> 1]
      BY <2>2, <2>5 DEF NextDate
    <3>2. next = [year |-> yy + 1, month |-> 1, day |-> 1]
      BY <1>5, <2>5 DEF NextDate
    <3> HIDE DEF n, next, yy
    <3> QED
      BY <2>0, <3>1, <3>2
  <2> QED
    BY <2>3, <2>4, <2>5
<1> DEFINE century == (r[6] >= 128) # (next.year = 100)
           v == to_registers(u)
<1>7. Rolled(r) = [r EXCEPT ![4] = (@ % 7) + 1,
                            ![5] = to_bcd(next.day),
                            ![6] = to_bcd(next.month) + (IF century THEN 128 ELSE 0),
                            ![7] = to_bcd(next.year % 100)]
  <2> DEFINE raw == NextDate([year |-> from_bcd(r[7]), month |-> from_bcd(r[6] % 32),
                              day |-> from_bcd(r[5])], from_bcd(r[7]) % 4 = 0)
  <2>1. Rolled(r) = [r EXCEPT ![4] = (@ % 7) + 1,
                              ![5] = to_bcd(raw.day),
                              ![6] = to_bcd(raw.month)
                                        + (IF (r[6] >= 128) # (raw.year = 100) THEN 128 ELSE 0),
                              ![7] = to_bcd(raw.year % 100)]
    <3> HIDE DEF r
    <3> QED
      BY Zenon DEF Rolled
  <2>2. raw = next
    BY <1>4
  <2> HIDE DEF raw, next, r
  <2> QED
    BY <2>1, <2>2 DEF century
<1>8. weekday(u) + 1 = ((weekday(t) + 1) % 7) + 1
  <2> DEFINE a == days_from_civil(d.year, d.month, d.day)
             b == days_from_civil(n.year, n.month, n.day)
  <2>1. b = a + 1
    BY NextDayNumber
  <2>2. a \in Int
    <3>1. d.year \in Int /\ d.month \in Int /\ d.day \in Int
      BY <1>1, SMT DEF CalendarYears, MIN_YEAR, MAX_YEAR
    <3> QED
      BY <3>1, DayNumber
  <2>3. weekday(u) = (b + 4) % 7 /\ weekday(t) = (a + 4) % 7
    <3> HIDE DEF t, u, n
    <3> QED
      BY <1>3 DEF weekday
  <2> HIDE DEF a, b, t, u
  <2> QED
    BY <2>1, <2>2, <2>3, SMT
<1>9. /\ (IF century THEN 128 ELSE 0) = (IF n.year >= 2100 THEN 128 ELSE 0)
      /\ next.year % 100 = Century(n.year)
  <2> DEFINE y == d.year
             z == n.year
             w == next.year
  <2>1. /\ y \in Int /\ 2000 <= y /\ y <= 2199 /\ z \in Int /\ 2000 <= z /\ z <= 2199
    BY <1>1, SMT DEF CalendarYears, MIN_YEAR, MAX_YEAR
  <2>2. /\ w \in Int /\ w - Century(y) = z - y /\ (z = y \/ z = y + 1)
    BY <1>6
  <2>3. century <=> ((y >= 2100) # (w = 100))
    BY <1>4
  <2> HIDE DEF y, z, w, century
  <2>4. w % 100 = Century(z) /\ (((y >= 2100) # (w = 100)) <=> z >= 2100)
    BY <2>1, <2>2, SMT DEF Century
  <2> QED
    BY <2>3, <2>4 DEF z, w
<1>10. /\ r[1] = to_bcd(t.second) /\ r[2] = to_bcd(t.minute) /\ r[3] = to_bcd(t.hour)
       /\ r[4] = weekday(t) + 1
  BY DEF to_registers
<1>11. /\ v[1] = to_bcd(u.second) /\ v[2] = to_bcd(u.minute) /\ v[3] = to_bcd(u.hour)
       /\ v[4] = weekday(u) + 1 /\ v[5] = to_bcd(n.day)
       /\ v[6] = to_bcd(n.month) + (IF n.year >= 2100 THEN 128 ELSE 0)
       /\ v[7] = to_bcd(Century(n.year))
  BY <1>3 DEF to_registers, Century
<1>12. r \in Dumps /\ v \in Dumps
  BY <1>2, EncodesTrue
<1> HIDE DEF t, u, n, r, v, next, century, yy
<1>13. /\ Rolled(r)[1] = v[1] /\ Rolled(r)[2] = v[2] /\ Rolled(r)[3] = v[3]
       /\ Rolled(r)[4] = v[4] /\ Rolled(r)[5] = v[5] /\ Rolled(r)[6] = v[6]
       /\ Rolled(r)[7] = v[7]
       /\ Rolled(r) = [i \in 1..7 |-> Rolled(r)[i]]
  <2>1. r \in [1..7 -> Byte]
    BY <1>12 DEF Dumps
  <2>2. /\ Rolled(r)[1] = r[1] /\ Rolled(r)[2] = r[2] /\ Rolled(r)[3] = r[3]
        /\ Rolled(r)[4] = (r[4] % 7) + 1 /\ Rolled(r)[5] = to_bcd(next.day)
        /\ Rolled(r)[6] = to_bcd(next.month) + (IF century THEN 128 ELSE 0)
        /\ Rolled(r)[7] = to_bcd(next.year % 100)
        /\ Rolled(r) = [i \in 1..7 |-> Rolled(r)[i]]
    <3> DEFINE a4 == (r[4] % 7) + 1
               a5 == to_bcd(next.day)
               a6 == to_bcd(next.month) + (IF century THEN 128 ELSE 0)
               a7 == to_bcd(next.year % 100)
               q == [r EXCEPT ![4] = a4, ![5] = a5, ![6] = a6, ![7] = a7]
    <3>1. Rolled(r) = q
      BY <1>7
    <3> HIDE DEF a4, a5, a6, a7
    <3>2. q[1] = r[1] /\ q[2] = r[2] /\ q[3] = r[3]
      BY <2>1
    <3>3. q[4] = a4 /\ q[5] = a5 /\ q[6] = a6 /\ q[7] = a7
      BY <2>1
    <3>4. q = [i \in 1..7 |-> q[i]]
      BY <2>1
    <3> HIDE DEF q
    <3> QED
      BY <3>1, <3>2, <3>3, <3>4 DEF a4, a5, a6, a7
  <2> QED
    BY <1>3, <1>6, <1>8, <1>9, <1>10, <1>11, <2>2
<1>14. v = [i \in 1..7 |-> v[i]]
  BY <1>12 DEF Dumps
<1>15. \A i \in 1..7 : Rolled(r)[i] = v[i]
  <2>1. \A i \in 1..7 : i \in {1, 2, 3, 4, 5, 6, 7}
    OBVIOUS
  <2> QED
    BY <1>13, <2>1
<1>16. Rolled(r) = v
  BY <1>13, <1>14, <1>15
<1> QED
  BY <1>16 DEF r, v, t, u, n

--------------------------------------------------------------------------------
\* Counting the leap years, on which Init counts the days to its first date.
Fours(a, b) == {y \in Int : 4 * a <= y /\ y <= 4 * b /\ y % 4 = 0}

LEMMA Multiples ==
    ASSUME NEW a \in Int, NEW b \in Int
    PROVE  /\ IsFiniteSet(Fours(a, b))
           /\ Cardinality(Fours(a, b)) = IF a > b THEN 0 ELSE b - a + 1
<1> DEFINE T == Fours(a, b)
           f == [m \in a..b |-> 4 * m]
<1>1. IsFiniteSet(a..b) /\ Cardinality(a..b) = IF a > b THEN 0 ELSE b - a + 1
  BY FS_Interval
<1>2. f \in [a..b -> T]
  <2>1. ASSUME NEW m \in a..b PROVE 4 * m \in T
    BY SMT DEF Fours
  <2> QED
    BY <2>1
<1>3. \A m, n \in a..b : f[m] = f[n] => m = n
  BY SMT
<1>4. \A y \in T : \E m \in a..b : f[m] = y
  <2> SUFFICES ASSUME NEW y \in T PROVE \E m \in a..b : f[m] = y
    OBVIOUS
  <2>1. y \div 4 \in a..b /\ 4 * (y \div 4) = y
    BY SMT DEF Fours
  <2> QED
    BY <2>1
<1> HIDE DEF T, f
<1>5. ExistsBijection(a..b, T)
  BY <1>2, <1>3, <1>4 DEF ExistsBijection, Bijection, Injection, IsInjective, Surjection
<1>6. IsFiniteSet(T) /\ Cardinality(T) = Cardinality(a..b)
  BY <1>1, <1>5, FS_Bijection
<1> QED
  BY <1>1, <1>6 DEF T

LEMMA LeapsBefore ==
    ASSUME NEW first \in Int, first \in CalendarYears
    PROVE  Cardinality({y \in MIN_YEAR..first - 1 : Leap(y)})
              = (first - 1997) \div 4 - (IF first > 2100 THEN 1 ELSE 0)
<1> DEFINE a == 500
           b == (first - 1) \div 4
           T == Fours(a, b)
           S == {y \in MIN_YEAR..first - 1 : Leap(y)}
<1>1. 2000 <= first /\ first <= 2199
  BY SMT DEF CalendarYears, MIN_YEAR, MAX_YEAR
<1>2. b \in Int /\ (500 > b => b = 499) /\ (first - 1997) \div 4 = b - 500 + 1
  BY <1>1, SMT
<1>3. IsFiniteSet(T) /\ Cardinality(T) = b - 500 + 1
  <2>1. a \in Int
    BY SMT
  <2> HIDE DEF a, b
  <2>2. IsFiniteSet(T)
    BY <1>2, <2>1, Multiples
  <2>3. Cardinality(T) = IF a > b THEN 0 ELSE b - a + 1
    BY <1>2, <2>1, Multiples
  <2> HIDE DEF T
  <2> QED
    BY <1>2, <2>2, <2>3, SMT DEF a
<1>4. S = T \ {2100}
  <2>1. \A y : y \in S <=> y \in T /\ y # 2100
    BY <1>1, SMT DEF Leap, MIN_YEAR, Fours
  <2> HIDE DEF S, T
  <2> QED
    BY <2>1, SMT
<1>5. 2100 \in T <=> first > 2100
  BY <1>1, SMT DEF Fours
<1> HIDE DEF S, T, b
<1>6. Cardinality(T \ {2100}) = IF 2100 \in T THEN Cardinality(T) - 1 ELSE Cardinality(T)
  BY <1>3, FS_RemoveElement, SMT
<1>7. Cardinality(S) = b - 500 + 1 - (IF first > 2100 THEN 1 ELSE 0)
  BY <1>2, <1>3, <1>4, <1>5, <1>6, SMT
<1> QED
  BY <1>2, <1>7, SMT DEF S

\* Init counts the days to its first date as days_from_civil does.
LEMMA FirstDay ==
    ASSUME NEW first \in Int, first \in CalendarYears
    PROVE  Day2000 + 365 * (first - MIN_YEAR) + Cardinality({y \in MIN_YEAR..first - 1 : Leap(y)})
              = days_from_civil(first, 1, 1)
<1> DEFINE n == Cardinality({y \in MIN_YEAR..first - 1 : Leap(y)})
<1>1. n = (first - 1997) \div 4 - (IF first > 2100 THEN 1 ELSE 0)
  BY LeapsBefore
<1>2. 2000 <= first /\ first <= 2199
  BY SMT DEF CalendarYears, MIN_YEAR, MAX_YEAR
<1>3. days_from_civil(first, 1, 1) = DaysTo(first - 1) + 306 + 1 - Epoch
  <2>1. MarchYear(first, 1) = first - 1
    BY SMT DEF MarchYear
  <2>2. days_from_civil(first, 1, 1) = DaysTo(MarchYear(first, 1)) + DaysBefore(1) + 1 - Epoch
    BY DayNumber, SMT
  <2> QED
    BY <2>1, <2>2, MonthsOfDays
<1>6. MIN_YEAR = 2000
  BY SMT DEF MIN_YEAR
<1>8. Epoch = 719469
  BY SMT DEF Epoch
<1>9. Day2000 = 10957
  BY SMT DEF Day2000
<1> HIDE DEF n
<1>7. Day2000 + 365 * (first - MIN_YEAR) + n = days_from_civil(first, 1, 1)
  <2>4. CASE first = 2000
    <3>1. DaysTo(first - 1) = 730119
      BY <2>4, SMT DEF DaysTo
    <3> QED
      BY <1>1, <1>3, <1>6, <1>8, <1>9, <2>4, <3>1, SMT
  <2>5. CASE first > 2000
    <3>1. (first - 1) \div 400 = 5
      BY <1>2, <2>5, SMT
    <3>2. DaysTo(first - 1)
             = 730485 + (first - 2001) * 365 + (first - 2001) \div 4 - (first - 2001) \div 100
      BY <3>1, SMT DEF DaysTo
    <3>3. (first - 2001) \div 100 = IF first > 2100 THEN 1 ELSE 0
      BY <1>2, <2>5, SMT
    <3>4. (first - 1997) \div 4 = (first - 2001) \div 4 + 1
      BY <1>2, SMT
    <3> QED
      BY <1>1, <1>2, <1>3, <1>6, <1>8, <1>9, <3>2, <3>3, <3>4, SMT
  <2> QED
    BY <1>2, <2>4, <2>5
<1> QED
  BY <1>7 DEF n

--------------------------------------------------------------------------------
LEMMA TrueTimeAt == TrueTime = At(date, instant)
BY SMT DEF TrueTime, At

LEMMA YearsAreIntegers == CalendarYears \subseteq Int
BY SMT DEF CalendarYears, MIN_YEAR, MAX_YEAR

LEMMA Walked == /\ CalendarYears \subseteq Int
                /\ \A y \in CalendarYears : 2000 <= y /\ y <= 2199
                /\ \A y \in Int : 2000 <= y /\ y <= LastYear => y \in CalendarYears
                /\ LastYear \in Int
BY YearAssumption, SMT DEF CalendarYears, MIN_YEAR, MAX_YEAR

LEMMA InitIInv == Init => IInv
<1> SUFFICES ASSUME Init PROVE IInv
  OBVIOUS
<1>1. date \in [year : FirstYears, month : {1}, day : {1}]
  BY Zenon DEF Init
<1>2. /\ date.year \in FirstYears /\ date.month = 1 /\ date.day = 1
      /\ date = [year |-> date.year, month |-> 1, day |-> 1]
  BY <1>1
<1>3. date.year \in CalendarYears /\ date.year <= LastYear
  BY <1>2, YearAssumption, SMT DEF CalendarYears, MIN_YEAR, MAX_YEAR
<1>4. date \in Dates
  <2>1. \A leap : Length(1, leap) = 31
    BY DEF Length
  <2> QED
    BY <1>2, <1>3, <2>1 DEF Dates
<1>5. instant \in 0..LastSecond
  BY InstantAssumption, Zenon DEF Init
<1>6. regs = to_registers(At(date, instant)) /\ crossed = FALSE /\ corrupted = {}
  BY TrueTimeAt, Zenon DEF Init
<1>7. At(date, instant) \in CivilTimes
  BY <1>4, <1>5, AtCivil
<1>8. regs \in Dumps /\ regs[4] \in 1..7 /\ Holds(regs)
  BY <1>6, <1>7, EncodesTrue, SetHolds
<1>9. Numbered
  <2> DEFINE first == date.year
  <2>1. today = Day2000 + 365 * (first - MIN_YEAR)
                        + Cardinality({y \in MIN_YEAR..first - 1 : Leap(y)})
    BY DEF Init
  <2>2. first \in Int /\ first \in CalendarYears
    BY <1>3, YearsAreIntegers, Zenon
  <2> HIDE DEF first
  <2>3. today = days_from_civil(first, 1, 1)
    BY <2>1, <2>2, FirstDay
  <2> QED
    BY <1>2, <2>3 DEF Numbered, first
<1>10. Ranged
  BY <1>3, <1>4, <1>5, <1>6, <1>8 DEF Ranged
<1>11. Rolling /\ InStep
  BY <1>6, <1>8, TrueTimeAt DEF Rolling, InStep
<1> QED
  BY <1>9, <1>10, <1>11 DEF IInv

LEMMA SetIInv == ASSUME IInv, Set PROVE IInv'
<1>1. /\ date' = date /\ today' = today /\ instant' = instant
      /\ regs' = to_registers(At(date, instant)) /\ crossed' = FALSE /\ corrupted' = {}
  BY TrueTimeAt, Zenon DEF Set
<1>2. /\ date \in Dates /\ date.year <= LastYear /\ instant \in 0..LastSecond
      /\ today = days_from_civil(date.year, date.month, date.day)
  BY DEF IInv, Ranged, Numbered
<1>3. At(date, instant) \in CivilTimes
  BY <1>2, AtCivil
<1>4. regs' \in Dumps /\ regs'[4] \in 1..7 /\ Holds(regs')
  BY <1>1, <1>3, EncodesTrue, SetHolds
<1>5. TrueTime' = At(date, instant)
  BY <1>1, SMT DEF TrueTime, At
<1>6. Ranged'
  BY <1>1, <1>2, <1>4 DEF Ranged
<1>7. Numbered'
  BY <1>1, <1>2 DEF Numbered
<1>8. Rolling' /\ InStep'
  BY <1>1, <1>4, <1>5 DEF Rolling, InStep
<1> QED
  BY <1>6, <1>7, <1>8 DEF IInv

LEMMA CorruptIInv == ASSUME IInv, NEW i \in 1..7, Corrupt(i) PROVE IInv'
<1>1. PICK b \in IF corrupted = {} THEN FirstByte ELSE LaterByte :
         regs' = [regs EXCEPT ![i] = b]
  BY Zenon DEF Corrupt
<1>2. /\ date' = date /\ today' = today /\ instant' = instant /\ crossed' = crossed
      /\ corrupted' = corrupted \union {i}
  BY Zenon DEF Corrupt
<1>3. b \in Byte
  BY CorruptionAssumption
<1>4. Ranged
  BY DEF IInv
<1>5. regs' \in Dumps
  BY <1>1, <1>3, <1>4 DEF Ranged, Dumps
<1>6. regs'[4] \in 1..7 \/ 4 \in corrupted'
  BY <1>1, <1>2, <1>4 DEF Ranged, Dumps
<1>7. Ranged'
  BY <1>2, <1>4, <1>5, <1>6 DEF Ranged
<1>8. Numbered'
  BY <1>2 DEF IInv, Numbered
<1>9. Rolling' /\ InStep'
  BY <1>2 DEF Rolling, InStep
<1> QED
  BY <1>7, <1>8, <1>9 DEF IInv

LEMMA MidnightIInv == ASSUME IInv, Midnight PROVE IInv'
<1> DEFINE n == NextDate(date, Leap(date.year))
<1>1. /\ corrupted = {} /\ date # [year |-> LastYear, month |-> 12, day |-> 31]
      /\ date' = n /\ today' = today + 1 /\ regs' = Rolled(regs)
      /\ instant' = instant /\ corrupted' = corrupted
  BY Zenon DEF Midnight
<1>2. /\ date \in Dates /\ date.year <= LastYear /\ instant \in 0..LastSecond
      /\ today = days_from_civil(date.year, date.month, date.day)
      /\ regs \in Dumps /\ Holds(regs) /\ crossed \in BOOLEAN
  BY <1>1 DEF IInv, Ranged, Numbered, Rolling
<1>3. /\ days_from_civil(n.year, n.month, n.day)
            = days_from_civil(date.year, date.month, date.day) + 1
      /\ n.year = date.year \/ (n.year = date.year + 1 /\ date.month = 12 /\ date.day = 31)
      /\ n \in [year : {n.year}, month : 1..12, day : 1..31]
      /\ n.day <= Length(n.month, Leap(n.year))
  BY <1>2, NextDayNumber
<1>4. n.year \in CalendarYears /\ n.year <= LastYear
  <2>1. /\ date.year \in CalendarYears
        /\ date = [year |-> date.year, month |-> date.month, day |-> date.day]
    BY <1>2 DEF Dates
  <2>2. CASE n.year = date.year
    BY <1>2, <2>1, <2>2
  <2>3. CASE n.year = date.year + 1 /\ date.month = 12 /\ date.day = 31
    <3>1. date.year # LastYear
      BY <1>1, <2>1, <2>3
    <3> DEFINE y == date.year
               z == n.year
    <3>2. y \in Int /\ 2000 <= y /\ y <= LastYear /\ y # LastYear /\ z = y + 1
      BY <1>2, <2>1, <2>3, <3>1, Walked
    <3> HIDE DEF y, z
    <3>3. z \in Int /\ 2000 <= z /\ z <= LastYear
      BY <3>2, Walked, SMT
    <3>4. z \in CalendarYears /\ z <= LastYear
      BY <3>3, Walked
    <3> QED
      BY <3>4 DEF z
  <2> QED
    BY <1>3, <2>2, <2>3
<1>5. n \in Dates
  <2> HIDE DEF n
  <2> QED
    BY <1>3, <1>4 DEF Dates
<1>6. regs' \in Dumps /\ Holds(regs') /\ regs'[4] \in 1..7
  BY <1>1, <1>2, RolledHolds
<1>12. crossed' = (crossed \/ date' = Parting)
  BY Zenon DEF Midnight
<1>7. crossed' \in BOOLEAN
  BY <1>12, Zenon
<1>8. Numbered'
  BY <1>1, <1>2, <1>3 DEF Numbered
<1>9. Ranged'
  <2> HIDE DEF n
  <2> QED
    BY <1>1, <1>2, <1>4, <1>5, <1>6, <1>7 DEF Ranged
<1>10. Rolling'
  BY <1>6 DEF Rolling
<1>11. InStep'
  <2> SUFFICES ASSUME ~ crossed' PROVE regs' = to_registers(TrueTime)'
    BY DEF InStep
  <2>1. ~ crossed /\ date' # Parting
    BY <1>12, Zenon
  <2>2. date # LastAgreed
    <3> SUFFICES ASSUME date = LastAgreed PROVE FALSE
      OBVIOUS
    <3>1. date.year = 2100 /\ date.month = 2 /\ date.day = 28
      BY SMT DEF LastAgreed
    <3>2. ~ Leap(date.year)
      BY <3>1, SMT DEF Leap
    <3>3. Length(date.month, Leap(date.year)) = 28
      BY <3>1, <3>2 DEF Length
    <3>4. ~ (date.day < Length(date.month, Leap(date.year))) /\ date.month < 12
      BY <3>1, <3>3, SMT
    <3>5. date = [year |-> date.year, month |-> date.month, day |-> date.day]
      BY <1>2 DEF Dates
    <3>6. n = [year |-> date.year, month |-> date.month + 1, day |-> 1]
      BY <3>4, <3>5 DEF NextDate
    <3>7. date.month + 1 = 3
      BY <3>1, SMT
    <3>8. [year |-> date.year, month |-> date.month + 1, day |-> 1] = Parting
      BY <3>1, <3>7, SMT DEF Parting
    <3> QED
      BY <1>1, <2>1, <3>6, <3>8
  <2>3. regs = to_registers(At(date, instant))
    BY <1>1, <2>1, TrueTimeAt DEF IInv, InStep
  <2>4. Rolled(to_registers(At(date, instant))) = to_registers(At(n, instant))
    BY <1>2, <1>5, <2>2, RolledTrue
  <2>5. TrueTime' = At(n, instant)
    <3> HIDE DEF n
    <3> QED
      BY <1>1, SMT DEF TrueTime, At
  <2> QED
    BY <1>1, <2>3, <2>4, <2>5
<1> QED
  BY <1>8, <1>9, <1>10, <1>11 DEF IInv

LEMMA NextIInv == ASSUME IInv, [Next]_vars PROVE IInv'
<1>1. CASE Midnight
  BY <1>1, MidnightIInv
<1>2. CASE Set
  BY <1>2, SetIInv
<1>3. CASE \E i \in 1..7 : Corrupt(i)
  BY <1>3, CorruptIInv
<1>4. CASE UNCHANGED vars
  <2>1. TrueTime' = TrueTime
    BY <1>4, SMT DEF vars, TrueTime
  <2> QED
    BY <1>4, <2>1 DEF vars, IInv, Ranged, Numbered, Rolling, InStep
<1> QED
  BY <1>1, <1>2, <1>3, <1>4 DEF Next

LEMMA Inductive == Spec => []IInv
BY InitIInv, NextIInv, PTL DEF Spec

--------------------------------------------------------------------------------
\* Whatever walks through the calendar, the date is one, the registers hold bytes
\* and the day of the week is one unless it was corrupted.
THEOREM TypeCorrect == Spec => []TypeOK
<1>1. IInv => TypeOK
  <2> SUFFICES ASSUME IInv PROVE TypeOK
    OBVIOUS
  <2>1. Ranged /\ Numbered
    BY DEF IInv
  <2>2. /\ date.year \in CalendarYears /\ date.month \in 1..12 /\ date.day \in 1..31
    BY <2>1 DEF Ranged, Dates
  <2>3. today \in Nat
    <3>1. days_from_civil(2000, 1, 1) \in Nat
      BY SMT DEF days_from_civil
    <3> DEFINE u == date.year
               m == date.month
               d == date.day
    <3>2. u \in CalendarYears /\ m \in 1..12 /\ d \in 1..31
      BY <2>2
    <3>6. u \in Int /\ m \in Int /\ d \in Int
      <4> HIDE DEF u, m, d
      <4>1. m \in Int /\ d \in Int
        BY <3>2, SMT
      <4> QED
        BY <3>2, <4>1, YearsAreIntegers
    <3>3. today = days_from_civil(u, m, d)
      BY <2>1 DEF Numbered
    <3> HIDE DEF u, m, d
    <3>4. days_from_civil(u, m, d)
             \in days_from_civil(2000, 1, 1)..days_from_civil(2199, 12, 31)
      BY <3>2, <3>6, DaysBounded, SMT
    <3>5. days_from_civil(u, m, d) \in Int
      BY <3>6, DayNumber
    <3>7. days_from_civil(2199, 12, 31) \in Int
      BY DayNumber, SMT
    <3> QED
      BY <3>1, <3>3, <3>4, <3>5, <3>7, SMT
  <2>4. TrueTime.day = date.day
    BY SMT DEF TrueTime
  <2> QED
    BY <2>1, <2>2, <2>3, <2>4 DEF TypeOK, Ranged
<1> QED
  BY <1>1, Inductive, PTL

\* Two centuries of days are numbered without a gap or a repeat: one midnight is
\* one more in days_from_civil, and the seconds of a day are counted once each.
THEOREM EveryDayItsNumber == Spec => []DaysAreNumbered
<1>1. IInv => DaysAreNumbered
  <2> SUFFICES ASSUME IInv PROVE DaysAreNumbered
    OBVIOUS
  <2>1. today = days_from_civil(date.year, date.month, date.day)
    BY DEF IInv, Numbered
  <2>2. instant \in Int
    <3>1. instant \in 0..LastSecond
      BY DEF IInv, Ranged
    <3> QED
      BY <3>1, SecondIsInt, Zenon
  <2>3. (instant \div 3600) * 3600 + ((instant \div 60) % 60) * 60 + (instant % 60) = instant
    <3> DEFINE a == instant \div 60
               b == a \div 60
    <3>1. a \in Int /\ b \in Int
      BY <2>2, SMT
    <3>2. instant % 60 = instant - 60 * a /\ 60 * a <= instant /\ instant < 60 * a + 60
      BY <2>2, SMT
    <3> HIDE DEF a
    <3>3. a % 60 = a - 60 * b /\ 60 * b <= a /\ a < 60 * b + 60
      BY <3>1, SMT
    <3> HIDE DEF b
    <3>4. 3600 * b <= instant /\ instant < 3600 * b + 3600
      BY <2>2, <3>1, <3>2, <3>3, SMT
    <3>5. instant \div 3600 = b
      BY <2>2, <3>1, <3>4, SMT
    <3>6. b * 3600 + (a % 60) * 60 + (instant % 60) = instant
      BY <2>2, <3>1, <3>2, <3>3, SMT
    <3> QED
      BY <3>5, <3>6 DEF a
  <2>4. /\ TrueTime.year = date.year /\ TrueTime.month = date.month
        /\ TrueTime.day = date.day
    BY SMT DEF TrueTime
  <2>6. /\ TrueTime.hour = instant \div 3600 /\ TrueTime.minute = (instant \div 60) % 60
        /\ TrueTime.second = instant % 60
    BY SMT DEF TrueTime
  <2>5. unix(TrueTime)
           = [day |-> today,
              second |-> (instant \div 3600) * 3600 + ((instant \div 60) % 60) * 60
                            + (instant % 60)]
    <3> DEFINE h == instant \div 3600
               m == (instant \div 60) % 60
               s == instant % 60
    <3>1. unix(TrueTime) = [day |-> days_from_civil(TrueTime.year, TrueTime.month, TrueTime.day),
                            second |-> TrueTime.hour * 3600 + TrueTime.minute * 60
                                          + TrueTime.second]
      BY Zenon DEF unix
    <3>2. days_from_civil(TrueTime.year, TrueTime.month, TrueTime.day) = today
      BY <2>1, <2>4, Zenon
    <3>3. TrueTime.hour = h /\ TrueTime.minute = m /\ TrueTime.second = s
      BY <2>6
    <3> HIDE DEF h, m, s
    <3>4. TrueTime.hour * 3600 + TrueTime.minute * 60 + TrueTime.second = h * 3600 + m * 60 + s
      BY <3>3
    <3>5. unix(TrueTime) = [day |-> today, second |-> h * 3600 + m * 60 + s]
      BY <3>1, <3>2, <3>4
    <3> QED
      BY <3>5 DEF h, m, s
  <2> QED
    BY <2>3, <2>5 DEF DaysAreNumbered
<1> QED
  BY <1>1, Inductive, PTL

\* A part set once with to_registers and left to itself reads back as the true
\* time for as long as its leap-year rule and the calendar's agree.
THEOREM SetPartKeepsTime == Spec => []SetPartReadsTrue
<1>1. IInv => SetPartReadsTrue
  <2> SUFFICES ASSUME IInv, ~ crossed, corrupted = {}
               PROVE  Read = [err |-> "none", time |-> TrueTime]
    BY DEF SetPartReadsTrue
  <2>1. date \in Dates /\ instant \in 0..LastSecond /\ regs = to_registers(TrueTime)
    BY DEF IInv, Ranged, InStep
  <2>2. TrueTime \in CivilTimes
    BY <2>1, AtCivil, TrueTimeAt
  <2> QED
    BY <2>1, <2>2, EncodesTrue DEF Read
<1> QED
  BY <1>1, Inductive, PTL

\* Whatever happened to the bytes, a dump that is believed is the only one for
\* its instant: bcd_field and decode_time drop no bit in silence.
THEOREM NoBitDropped == Spec => []BelievedIsCanonical
<1>1. IInv => BelievedIsCanonical
  <2> SUFFICES ASSUME IInv, Read.err = "none"
               PROVE  \A i \in 1..7 \ {4} : to_registers(Read.time)[i] = regs[i]
    BY DEF BelievedIsCanonical
  <2>1. regs \in Dumps
    BY DEF IInv, Ranged
  <2> QED
    BY <2>1, CanonicalOf DEF Read
<1> QED
  BY <1>1, Inductive, PTL

\* Whatever happened to the bytes, a believed dump names a day of the calendar
\* and unix_ms stays inside the two centuries the part can hold.
THEOREM BelievedExists == Spec => []BelievedIsADate
<1>1. IInv => BelievedIsADate
  <2>1. ASSUME IInv PROVE regs \in Dumps
    BY <2>1 DEF IInv, Ranged
  <2> QED
    BY <2>1, DateOf DEF BelievedIsADate, Read
<1> QED
  BY <1>1, Inductive, PTL
================================================================================
