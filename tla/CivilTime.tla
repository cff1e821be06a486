------------------------------- MODULE CivilTime -------------------------------
(***************************************************************************)
(* The DS3231 codec of crates/icesickle-core/src/clock.rs: seven register  *)
(* bytes to a civil time and back, and a civil date to days since 1970.    *)
(* Bytes are 0..255; keeping the low k bits is % 2^k, and testing a bit    *)
(* divides first. A reading is a record: `err` is "none" or the ClockError *)
(* the code returns, `time` what the fields say.                           *)
(***************************************************************************)
EXTENDS Integers, Sequences

Byte == 0..255
Dumps == [1..7 -> Byte]

MIN_YEAR == 2000
MAX_YEAR == 2199

ClockError == {"OscillatorStopped", "NotBcd", "ReservedBitSet", "OutOfRange",
               "TwelveHourMode"}

\* Mutant: the part's own rule.
is_leap_year_every_fourth(year) == year % 4 = 0

is_leap_year(year) == year % 4 = 0 /\ (year % 100 # 0 \/ year % 400 = 0)

days_in_month(year, month) ==
    CASE month \in {1, 3, 5, 7, 8, 10, 12}       -> 31
      [] month \in {4, 6, 9, 11}                 -> 30
      [] month = 2 /\ is_leap_year(year)         -> 29
      [] month = 2 /\ ~ is_leap_year(year)       -> 28
      [] OTHER                                   -> 0

\* What CivilTime::new accepts: every CivilTime of the program is one of these.
CivilTimes == {t \in [year : MIN_YEAR..MAX_YEAR, month : 1..12, day : 1..31,
                      hour : 0..23, minute : 0..59, second : 0..59] :
                   t.day <= days_in_month(t.year, t.month)}

\* Mutant: January and February are not counted to the year before.
days_from_civil_no_shift(year, month, day) ==
    LET era    == year \div 400
        yoe    == year - era * 400
        march  == IF month > 2 THEN month - 3 ELSE month + 9
        doy    == (153 * march + 2) \div 5 + day - 1
        doe    == yoe * 365 + yoe \div 4 - yoe \div 100 + doy
    IN  era * 146097 + doe - 719468

\* Days from 1970-01-01. \div rounds down, as the negative-year branch of the
\* code makes its truncating division do.
days_from_civil(year, month, day) ==
    LET y      == IF month <= 2 THEN year - 1 ELSE year
        era    == y \div 400
        yoe    == y - era * 400
        march  == IF month > 2 THEN month - 3 ELSE month + 9
        doy    == (153 * march + 2) \div 5 + day - 1
        doe    == yoe * 365 + yoe \div 4 - yoe \div 100 + doy
    IN  era * 146097 + doe - 719468

\* A day is 86 400 seconds, 24 hours of 3 600.
LastSecond == 24 * 3600 - 1

\* CivilTime::unix_ms as a day and a second of that day: the code multiplies
\* the two out, the part has no finer counter.
unix(t) == [day |-> days_from_civil(t.year, t.month, t.day),
            second |-> t.hour * 3600 + t.minute * 60 + t.second]

\* 0 is Sunday; 1970-01-01 was a Thursday.
weekday(t) == (days_from_civil(t.year, t.month, t.day) + 4) % 7

--------------------------------------------------------------------------------
IsBcd(byte) == byte \div 16 <= 9 /\ byte % 16 <= 9

from_bcd(byte) == (byte \div 16) * 10 + (byte % 16)

to_bcd(value) == (value \div 10) * 16 + (value % 10)

\* Mutant: the century bit is never written.
to_registers_no_century(t) ==
    << to_bcd(t.second), to_bcd(t.minute), to_bcd(t.hour), weekday(t) + 1,
       to_bcd(t.day), to_bcd(t.month), to_bcd((t.year - 2000) % 100) >>

\* Mutant: the day of the week from zero, as weekday counts it.
to_registers_weekday_from_zero(t) ==
    << to_bcd(t.second), to_bcd(t.minute), to_bcd(t.hour), weekday(t),
       to_bcd(t.day), to_bcd(t.month) + (IF t.year >= 2100 THEN 128 ELSE 0),
       to_bcd(IF t.year >= 2100 THEN t.year - 2100 ELSE t.year - 2000) >>

\* CivilTime::to_registers: always 24-hour mode, the century in bit 7 of the
\* month.
to_registers(t) ==
    << to_bcd(t.second), to_bcd(t.minute), to_bcd(t.hour), weekday(t) + 1,
       to_bcd(t.day), to_bcd(t.month) + (IF t.year >= 2100 THEN 128 ELSE 0),
       to_bcd(IF t.year >= 2100 THEN t.year - 2100 ELSE t.year - 2000) >>

\* The fields of a dump, each under its value mask.
Fields(r) == [second |-> from_bcd(r[1] % 128), minute |-> from_bcd(r[2] % 128),
              hour |-> from_bcd(r[3] % 64), day |-> from_bcd(r[5] % 64),
              month |-> from_bcd(r[6] % 32),
              year |-> MIN_YEAR + (IF r[6] >= 128 THEN 100 ELSE 0) + from_bcd(r[7])]

Check(fails, err) == [fails |-> fails, err |-> err]

\* Every check of decode_time, bcd_field and CivilTime::new, in the order the
\* code makes them.
InOrder(r) ==
    LET t == Fields(r)
    IN << Check(r[1] >= 128, "ReservedBitSet"),
          Check(~ IsBcd(r[1] % 128), "NotBcd"),
          Check(r[2] >= 128, "ReservedBitSet"),
          Check(~ IsBcd(r[2] % 128), "NotBcd"),
          Check((r[3] \div 64) % 2 = 1, "TwelveHourMode"),
          Check(r[3] >= 128, "ReservedBitSet"),
          Check(~ IsBcd(r[3] % 64), "NotBcd"),
          Check(r[4] >= 8, "ReservedBitSet"),
          Check(r[4] = 0, "OutOfRange"),
          Check(r[5] >= 64, "ReservedBitSet"),
          Check(~ IsBcd(r[5] % 64), "NotBcd"),
          Check((r[6] \div 32) % 4 # 0, "ReservedBitSet"),
          Check(~ IsBcd(r[6] % 32), "NotBcd"),
          Check(~ IsBcd(r[7]), "NotBcd"),
          Check(t.year \notin MIN_YEAR..MAX_YEAR, "OutOfRange"),
          Check(t.month \notin 1..12, "OutOfRange"),
          Check(t.day \notin 1..days_in_month(t.year, t.month), "OutOfRange"),
          Check(t.hour > 23 \/ t.minute > 59 \/ t.second > 59, "OutOfRange") >>

\* Mutant: the month's reserved bits are not checked, so that the century bit
\* can pass.
ChecksMonthUnreserved(r) == [InOrder(r) EXCEPT ![12] = Check(FALSE, "ReservedBitSet")]

\* Mutant: the fields are not checked against their ranges.
ChecksNoRange(r) ==
    LET Kept(check) == check.err # "OutOfRange" IN SelectSeq(InOrder(r), Kept)

\* decode_time as the sequence of its checks.
Checks(r) == InOrder(r)

\* The first check that fails decides the error; with none, the fields stand.
decode_time(r) ==
    LET checks  == Checks(r)
        failing == {i \in 1..Len(checks) : checks[i].fails}
    IN  [err |-> IF failing = {} THEN "none"
                 ELSE checks[CHOOSE i \in failing : \A j \in failing : i <= j].err,
         time |-> Fields(r)]

--------------------------------------------------------------------------------
OscillatorStopFlag(status) == status >= 128

\* Mutant: the registers are decoded without looking at the stop flag.
read_civil_time_unflagged(status, r) == decode_time(r)

\* The stop flag is looked at before anything is decoded.
read_civil_time(status, r) ==
    IF OscillatorStopFlag(status)
    THEN [err |-> "OscillatorStopped", time |-> Fields(r)]
    ELSE decode_time(r)

\* Mutant: a stopped oscillator is sent to the repair shop.
remedy_no_cell(err) == CASE err \in {"OscillatorStopped", "NotBcd", "ReservedBitSet", "Bus"} -> "Service"
                         [] err \in {"OutOfRange", "TwelveHourMode"} -> "SetClock"

\* ReadError::remedy; "Bus" is the transaction that did not happen.
remedy(err) == CASE err = "OscillatorStopped"                  -> "ReplaceCell"
                 [] err \in {"NotBcd", "ReservedBitSet", "Bus"} -> "Service"
                 [] err \in {"OutOfRange", "TwelveHourMode"}    -> "SetClock"
================================================================================
