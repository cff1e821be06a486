-------------------------------- MODULE Calendar -------------------------------
(***************************************************************************)
(* The codec of CivilTime against the part it talks to, day by day. The    *)
(* DS3231 is external: it rolls its own registers over at midnight, with   *)
(* its own leap-year rule (clock.rs, "Range, and the chip's own century    *)
(* bug"), and any of its bytes may be corrupted, in the part or on the     *)
(* bus. `date` and `today` are the true calendar, `regs` what a read       *)
(* returns; the firmware sets the part with to_registers and reads it with *)
(* decode_time.                                                            *)
(***************************************************************************)
EXTENDS CivilTime, FiniteSets

CONSTANTS FirstYears,           \* the walk begins on a January 1st of these and
          LastYear,             \* bound: ends on December 31st of this one
          Instants,             \* seconds of the day at which days are compared
          Years, Months, Days,  \* of the dates on which bytes get corrupted
          FirstByte, LaterByte, \* what the first corrupted byte may become, and
                                \* what a further one may
          MaxCorrupted          \* bound: bytes corrupted

ASSUME YearAssumption == /\ LastYear \in MIN_YEAR..MAX_YEAR
                         /\ FirstYears \subseteq MIN_YEAR..LastYear
ASSUME InstantAssumption == Instants \subseteq 0..LastSecond
ASSUME CorruptionAssumption == /\ FirstByte \union LaterByte \subseteq Byte
                               /\ MaxCorrupted \in 0..7

VARIABLES date,            \* the true date
          today,           \* days since 1970-01-01, counted one by one
          instant,         \* the second of the day
          regs,            \* registers 0x00-0x06 of the part
          crossed,         \* since it was last set, the part has taken the day
                           \* after 2100-02-28 for a 29th
          corrupted        \* the registers corrupted since it was last set

vars == <<date, today, instant, regs, crossed, corrupted>>

TrueTime == [year |-> date.year, month |-> date.month, day |-> date.day,
             hour |-> instant \div 3600, minute |-> (instant \div 60) % 60,
             second |-> instant % 60]

\* Days from 1970-01-01 to 2000-01-01.
Day2000 == 10957

\* The Gregorian calendar, the reference the code is compared with.
Leap(y) == (y % 4 = 0 /\ y % 100 # 0) \/ y % 400 = 0
Length(m, leap) == IF m = 2 THEN (IF leap THEN 29 ELSE 28)
                   ELSE IF m \in {4, 6, 9, 11} THEN 30 ELSE 31

NextDate(d, leap) ==
    IF d.day < Length(d.month, leap) THEN [d EXCEPT !.day = @ + 1]
    ELSE IF d.month < 12 THEN [d EXCEPT !.day = 1, !.month = @ + 1]
    ELSE [year |-> d.year + 1, month |-> 1, day |-> 1]

\* The day the part takes for a 29th of February.
Parting == [year |-> 2100, month |-> 3, day |-> 1]

\* The part at midnight: it counts in the same fields, but takes every year
\* divisible by four for a leap year; the century bit flips from 99 to 00.
Rolled(r) ==
    LET yy   == from_bcd(r[7])
        next == NextDate([year |-> yy, month |-> from_bcd(r[6] % 32),
                          day |-> from_bcd(r[5])], yy % 4 = 0)
        century == (r[6] >= 128) # (next.year = 100)
    IN [r EXCEPT ![4] = (@ % 7) + 1,
                 ![5] = to_bcd(next.day),
                 ![6] = to_bcd(next.month) + (IF century THEN 128 ELSE 0),
                 ![7] = to_bcd(next.year % 100)]

Read == read_civil_time(0, regs)

--------------------------------------------------------------------------------
Init == /\ date \in [year : FirstYears, month : {1}, day : {1}]
        /\ today = Day2000 + 365 * (date.year - MIN_YEAR)
                           + Cardinality({y \in MIN_YEAR..date.year - 1 : Leap(y)})
        /\ instant \in Instants
        /\ regs = to_registers(TrueTime)
        /\ crossed = FALSE
        /\ corrupted = {}

Midnight == /\ corrupted = {}
            /\ date # [year |-> LastYear, month |-> 12, day |-> 31]
            /\ date' = NextDate(date, Leap(date.year))
            /\ today' = today + 1
            /\ regs' = Rolled(regs)
            /\ crossed' = (crossed \/ date' = Parting)
            /\ UNCHANGED <<instant, corrupted>>

\* The part is set to the true time (RegisterWrite::set_time).
Set == /\ regs' = to_registers(TrueTime)
       /\ crossed' = FALSE
       /\ corrupted' = {}
       /\ UNCHANGED <<date, today, instant>>

\* A byte is not what it was: a flaw of the part, a glitch on the bus.
Corrupt(i) == /\ <<date.year, date.month, date.day>> \in Years \X Months \X Days
              /\ i \notin corrupted
              /\ Cardinality(corrupted) < MaxCorrupted
              /\ \E b \in IF corrupted = {} THEN FirstByte ELSE LaterByte :
                    regs' = [regs EXCEPT ![i] = b]
              /\ corrupted' = corrupted \union {i}
              /\ UNCHANGED <<date, today, instant, crossed>>

Next == Midnight \/ Set \/ \E i \in 1..7 : Corrupt(i)

Spec == Init /\ [][Next]_vars

--------------------------------------------------------------------------------
TypeOK == /\ TrueTime.day \in 1..31
          /\ today \in Nat
          /\ regs \in Dumps
          /\ regs[4] \in 1..7 \/ 4 \in corrupted
          /\ crossed \in BOOLEAN
          /\ corrupted \subseteq 1..7

\* Two centuries of days are numbered without a gap or a repeat, so timestamps
\* of different days never collide or change places (days_from_civil, unix_ms).
DaysAreNumbered == unix(TrueTime) = [day |-> today, second |-> instant]

\* A part set once with to_registers and left to roll over by itself reads back
\* as the true time, month ends, leap days and both centuries included, until
\* the part's own rule parts from the calendar (to_registers, decode_time).
SetPartReadsTrue == ~ crossed /\ corrupted = {} => Read = [err |-> "none", time |-> TrueTime]

\* What the docs of clock.rs promise of the part's leap-year rule: it surfaces as
\* a rejection, never as a date one day out.
NeverOneDayOut == corrupted = {} /\ Read.err = "none" => Read.time = TrueTime

\* A believed dump, corrupted or not, is the only one for its instant: encoding
\* what was decoded gives back every byte but the day of the week, which is never
\* believed. No bit of a register is dropped in silence (bcd_field, decode_time).
BelievedIsCanonical ==
    LET back == to_registers(Read.time)
    IN  Read.err = "none" => \A i \in 1..7 \ {4} : back[i] = regs[i]

\* Every time that exists has been validated: a believed dump names a day of the
\* Gregorian calendar, by this module's rule and not by the code's, and unix_ms
\* puts it into the 73,049 days of the two centuries the part can hold
\* (CivilTime::new, is_leap_year, unix_ms).
BelievedIsADate ==
    LET t == Read.time
    IN  Read.err = "none" =>
            /\ t.month \in 1..12
            /\ t.day \in 1..Length(t.month, Leap(t.year))
            /\ unix(t).day \in Day2000..Day2000 + 73048
            /\ unix(t).second \in 0..LastSecond
================================================================================
