------------------------------ MODULE Ds3231Proofs ------------------------------
(***************************************************************************)
(* The clock protocol proved for any length of transaction, any number of  *)
(* faults and any length of run: its type, the honesty of the stop flag,   *)
(* the freshness of a reading, that nothing but time is stored, and that a *)
(* bus nobody drives is never believed.                                    *)
(***************************************************************************)
EXTENDS Ds3231, WellFoundedInduction, TLAPS

\* The time registers are right, up to the time set_clock takes.
Accurate == shown \in now - SetLag .. now

TimesTyped == /\ now \in 0..MaxNow
              /\ {shown, asked, value, openedAt, readAt} \subseteq 0..now
FlagsTyped == {running, fitted, stopped, hidden, garbled} \subseteq BOOLEAN
PartTyped == /\ regs \in [7..MAX_REGISTER -> Byte]
             /\ content \in Contents
CallTyped == /\ heard \subseteq {"status", "time"}
             /\ pc \in {"read", "readTime", "set", "writeTime", "ack", "cell", "service"}
             /\ status \in Byte
             /\ result \in ClockError \union {"none", "Bus", "pending", "set"}
             /\ faults \in 0..MaxFaults
Typed == TimesTyped /\ FlagsTyped /\ PartTyped /\ CallTyped

\* A clear flag vouches for an oscillator that runs and, if there is a date, for
\* the date.
FlagVouches == ~ osf /\ ~ hidden => running /\ (content = "valid" => Accurate)

\* A stopped oscillator has stopped since the last set. Between the two writes of
\* set_clock one that has not stopped keeps the time just written.
StopIsNoted == /\ ~ running => stopped
               /\ pc = "writeTime" => asked >= now - Timeout
               /\ pc = "ack" /\ ~ stopped => content = "valid" /\ Accurate

\* A status byte without the flag, if a part sent it, vouches for the registers
\* that are read next.
StatusVouches ==
    /\ pc = "readTime" /\ content = "valid"
    /\ "status" \in heard /\ ~ OscillatorStopFlag(status) /\ ~ hidden
    => shown >= openedAt - SetLag

\* Every reading was made of a part's registers.
ReadingStands ==
    result = "none" => /\ pc = "read"
                       /\ "time" \in heard
                       /\ "status" \in heard /\ ~ hidden
                             => value \in openedAt - SetLag .. readAt

\* The registers are as at power-on but for the flag, and a status byte that a
\* part sent is one of the two it can hold.
Untouched == /\ \A a \in DOMAIN regs \ {REG_STATUS} : regs[a] = PowerOnRegs[a]
             /\ ~ garbled => regs[REG_STATUS] \in {8, 136}
             /\ pc \in {"writeTime", "ack"} /\ heard # {} /\ ~ garbled
                   => status \in {8, 136}

IInv == /\ Typed
        /\ FlagVouches /\ StopIsNoted /\ StatusVouches /\ ReadingStands
        /\ Untouched

--------------------------------------------------------------------------------
\* Among naturals there is a smallest, so the first failed check is well defined.
LEMMA Smallest ==
    ASSUME NEW S, S \subseteq Nat, S # {}
    PROVE  \E m \in S : \A n \in S : m <= n
<1>1. IsWellFoundedOn(OpToRel(<, Nat), Nat)
  BY NatLessThanWellFounded
<1>2. \A x, y \in Nat : x < y => <<x, y>> \in OpToRel(<, Nat)
  BY DEF OpToRel
<1>3. PICK R : IsWellFoundedOn(R, Nat) /\ \A x, y \in Nat : x < y => <<x, y>> \in R
  BY <1>1, <1>2, Zenon
<1>4. IsWellFoundedOn(R, Nat)
  BY <1>3
<1>5. \A x, y \in Nat : x < y => <<x, y>> \in R
  BY <1>3
<1>6. \E m \in S : \A n \in S : ~ (<<n, m>> \in R)
  BY <1>4, WFMin
<1>7. PICK m \in S : \A n \in S : ~ (<<n, m>> \in R)
  BY <1>6
<1>8. m \in Nat
  OBVIOUS
<1>9. ASSUME NEW n \in S PROVE ~ (n < m)
  BY <1>5, <1>7, <1>8
<1>10. \A n \in S : m <= n
  BY <1>8, <1>9
<1> QED
  BY <1>10

\* decode_time answers with an error of its list, or with none if no check fails.
LEMMA Decodes ==
    ASSUME NEW r
    PROVE  /\ decode_time(r).err \in ClockError \union {"none"}
           /\ decode_time(r).err = "none" => \A i \in 1..18 : ~ InOrder(r)[i].fails
<1> DEFINE checks == InOrder(r)
           failing == {i \in 1..Len(checks) : checks[i].fails}
           first == CHOOSE i \in failing : \A j \in failing : i <= j
<1>1. Len(checks) = 18
  BY DEF InOrder
<1>2. \A i \in 1..18 : checks[i].err \in ClockError
  BY DEF InOrder, Check, ClockError
<1>3. decode_time(r).err = IF failing = {} THEN "none" ELSE checks[first].err
  BY DEF decode_time, Checks
<1> HIDE DEF checks
<1>4. failing \subseteq 1..18
  BY <1>1
<1>5. CASE failing = {}
  BY <1>1, <1>3, <1>5 DEF checks
<1>6. CASE failing # {}
  <2>1. first \in failing
    <3> HIDE DEF failing
    <3>1. failing \subseteq Nat
      BY <1>4
    <3>2. \E m \in failing : \A n \in failing : m <= n
      BY <1>6, <3>1, Smallest
    <3> QED
      BY <3>2
  <2>2. checks[first].err \in ClockError
    BY <1>2, <1>4, <2>1
  <2>3. "none" \notin ClockError
    BY DEF ClockError
  <2> QED
    BY <1>3, <1>6, <2>2, <2>3
<1> QED
  BY <1>5, <1>6

\* The five checks the next lemma is about.
LEMMA ChecksFail ==
    ASSUME NEW r
    PROVE  /\ InOrder(r)[1].fails = (r[1] >= 128)
           /\ InOrder(r)[2].fails = ~ IsBcd(r[1] % 128)
           /\ InOrder(r)[5].fails = ((r[3] \div 64) % 2 = 1)
           /\ InOrder(r)[9].fails = (r[4] = 0)
           /\ InOrder(r)[16].fails = (from_bcd(r[6] % 32) \notin 1..12)
<1>1. InOrder(r)[1].fails = (r[1] >= 128)
  BY DEF InOrder, Check
<1>5. InOrder(r)[2].fails = ~ IsBcd(r[1] % 128)
  BY DEF InOrder, Check
<1>2. InOrder(r)[5].fails = ((r[3] \div 64) % 2 = 1)
  BY DEF InOrder, Check
<1>3. InOrder(r)[9].fails = (r[4] = 0)
  BY DEF InOrder, Check
<1>4. InOrder(r)[16].fails = (from_bcd(r[6] % 32) \notin 1..12)
  <2>1. InOrder(r)[16] = Check(Fields(r).month \notin 1..12, "OutOfRange")
    BY DEF InOrder
  <2>2. Fields(r).month = from_bcd(r[6] % 32)
    BY DEF Fields
  <2> QED
    BY <2>1, <2>2 DEF Check
<1> QED
  BY <1>1, <1>2, <1>3, <1>4, <1>5

\* A byte that floats high or low everywhere is no dump, nor is one in 12-hour
\* mode, one with a 13th month, or one that is not BCD or has a reserved bit set.
LEMMA OnlyPartsDecode ==
    ASSUME content \in Contents, NEW bytes \in TimeBytes,
           decode_time(bytes).err = "none"
    PROVE  fitted /\ content = "valid"
<1>1. /\ ~ InOrder(bytes)[1].fails /\ ~ InOrder(bytes)[2].fails /\ ~ InOrder(bytes)[5].fails
      /\ ~ InOrder(bytes)[9].fails /\ ~ InOrder(bytes)[16].fails
  BY Decodes
<1>2. ~ (bytes[1] >= 128) /\ ~ (bytes[4] = 0)
  BY <1>1, ChecksFail, Zenon
<1>3. ~ ((bytes[3] \div 64) % 2 = 1)
  BY <1>1, ChecksFail, Zenon
<1>4. from_bcd(bytes[6] % 32) \in 1..12
  BY <1>1, ChecksFail, Zenon
<1>5. fitted
  BY <1>2 DEF TimeBytes, Degenerate
<1>6. bytes = Held(content)
  BY <1>5 DEF TimeBytes
<1>7. content # "twelve"
  <2> DEFINE kept == to_registers(SomeTime)
  <2>1. SUFFICES ASSUME content = "twelve" PROVE FALSE
    OBVIOUS
  <2>2. DOMAIN kept = 1..7 /\ bytes = [kept EXCEPT ![3] = 81]
    BY <1>6, <2>1 DEF Held, to_registers
  <2> HIDE DEF kept
  <2>3. bytes[3] = 81
    BY <2>2
  <2> QED
    BY <1>3, <2>3
<1>8. content # "impossible"
  BY <1>4, <1>6 DEF Held, to_registers, from_bcd
<1>9. IsBcd(bytes[1] % 128)
  BY <1>1, ChecksFail, Zenon
<1>10. content # "notBcd"
  BY <1>9, <1>6 DEF Held, to_registers, IsBcd
<1>11. content # "reserved"
  BY <1>2, <1>6 DEF Held, to_registers
<1> QED
  BY <1>5, <1>7, <1>8, <1>10, <1>11 DEF Contents

\* What read_civil_time answers to the two transactions.
LEMMA Reads ==
    ASSUME content \in Contents, NEW bytes \in TimeBytes, NEW byte
    PROVE  LET err == read_civil_time(byte, bytes).err
           IN  /\ err \in ClockError \union {"none"}
               /\ err = "none" => fitted /\ content = "valid" /\ ~ OscillatorStopFlag(byte)
<1>1. CASE OscillatorStopFlag(byte)
  BY <1>1 DEF read_civil_time, ClockError
<1>2. CASE ~ OscillatorStopFlag(byte)
  BY <1>2, Decodes, OnlyPartsDecode DEF read_civil_time
<1> QED
  BY <1>1, <1>2

LEMMA AdviceLeads ==
    ASSUME NEW err \in ClockError \union {"Bus"}
    PROVE  Advised(err) \in {"cell", "set", "service"}
BY DEF ClockError, Advised, remedy

\* set_time reaches no register beyond the time; the acknowledgement only status.
LEMMA StoresTime ==
    ASSUME regs \in [7..MAX_REGISTER -> Byte]
    PROVE  Stored(regs, set_time(SomeTime)) = regs
<1> DEFINE write == set_time(SomeTime)
<1>1. write.register = 0 /\ DOMAIN write.payload = 1..7
  BY DEF set_time, to_registers, REG_SECONDS
<1> HIDE DEF write
<1>2. \A a \in 7..MAX_REGISTER : a - write.register + 1 \notin DOMAIN write.payload
  BY <1>1 DEF MAX_REGISTER
<1>3. Stored(regs, write) = [a \in DOMAIN regs |-> regs[a]]
  BY <1>2 DEF Stored
<1> QED
  BY <1>3 DEF write

LEMMA StoresStatus ==
    ASSUME regs \in [7..MAX_REGISTER -> Byte], NEW byte \in Byte
    PROVE  Stored(regs, acknowledge_oscillator_stop(byte))
               = [regs EXCEPT ![REG_STATUS] = byte % 128]
<1> DEFINE write == acknowledge_oscillator_stop(byte)
<1>1. write.register = 15 /\ DOMAIN write.payload = 1..1 /\ write.payload[1] = byte % 128
  BY DEF acknowledge_oscillator_stop, clear_oscillator_stop_flag, REG_STATUS
<1> HIDE DEF write
<1>2. \A a \in 7..MAX_REGISTER : a - write.register + 1 \in DOMAIN write.payload <=> a = 15
  BY <1>1 DEF MAX_REGISTER
<1>3. Stored(regs, write) = [a \in DOMAIN regs |-> IF a = 15 THEN byte % 128 ELSE regs[a]]
  BY <1>1, <1>2 DEF Stored
<1> QED
  BY <1>3 DEF write, REG_STATUS

--------------------------------------------------------------------------------
USE BusAssumption

\* A bus whose status register holds a byte returns bytes.
LEMMA BytesTyped ==
    Typed => StatusBytes \subseteq Byte /\ regs[REG_STATUS] \in Byte
BY DEF Typed, PartTyped, StatusBytes, Degenerate, REG_STATUS, MAX_REGISTER, Byte

\* The part counts no faster than the time.
LEMMA ElapseKeeps ==
    ASSUME Typed, NEW d \in 0..Timeout, Elapse(d)
    PROVE  /\ now' \in 0..MaxNow /\ now' = now + d
           /\ shown' \in 0..now' /\ shown' >= shown /\ shown' - shown <= now' - now
           /\ running => shown' = shown + d
           /\ now \in 0..now' /\ {asked, value, openedAt, readAt} \subseteq 0..now'
BY DEF Typed, TimesTyped, FlagsTyped, Elapse

LEMMA InitIInv == Init => IInv
<1> SUFFICES ASSUME Init PROVE IInv
  OBVIOUS
<1> USE DEF Init
<1>1. regs[REG_STATUS] = 136
  BY DEF PowerOnRegs, REG_STATUS, MAX_REGISTER
<1>2. Typed
  <2>1. PartTyped
    BY DEF PartTyped, PowerOnRegs, Byte
  <2>2. CallTyped
    BY DEF CallTyped, Byte
  <2>3. FlagsTyped
    BY DEF FlagsTyped
  <2>4. TimesTyped
    BY DEF TimesTyped
  <2> QED
    BY <2>1, <2>2, <2>3, <2>4 DEF Typed
<1>3. FlagVouches /\ StopIsNoted /\ StatusVouches /\ ReadingStands
  BY <1>1 DEF FlagVouches, StopIsNoted, StatusVouches, ReadingStands, osf, OscillatorStopFlag
<1>4. Untouched
  BY <1>1 DEF Untouched
<1> QED
  BY <1>2, <1>3, <1>4 DEF IInv

LEMMA ReadStatusKeeps == ASSUME IInv, NEW d \in 0..Timeout, ReadStatus(d) PROVE IInv'
<1> USE DEF ReadStatus, Opens, windows
<1>1. Elapse(d) /\ Typed
  BY DEF IInv
<1>2. /\ now' \in 0..MaxNow /\ now' = now + d
      /\ shown' \in 0..now' /\ shown' >= shown /\ shown' - shown <= now' - now
      /\ running => shown' = shown + d
      /\ now \in 0..now' /\ {asked, value, openedAt, readAt} \subseteq 0..now'
  BY <1>1, ElapseKeeps
<1>3. Typed'
  <2>1. TimesTyped'
    BY <1>2 DEF TimesTyped
  <2>2. FlagsTyped' /\ PartTyped'
    BY <1>1 DEF Typed, FlagsTyped, PartTyped
  <2>3. CallTyped'
    BY <1>1, BytesTyped DEF Typed, CallTyped
  <2> QED
    BY <2>1, <2>2, <2>3 DEF Typed
<1>4. FlagVouches'
  BY <1>1, <1>2 DEF IInv, FlagVouches, Accurate, osf, SetLag, Typed, TimesTyped
<1>5. StopIsNoted'
  BY DEF IInv, StopIsNoted
<1>6. StatusVouches'
  <2> SUFFICES ASSUME content = "valid", "status" \in heard', ~ OscillatorStopFlag(status'),
                      ~ hidden
               PROVE  shown' >= now - SetLag
    BY DEF StatusVouches
  <2>1. fitted
    OBVIOUS
  <2>2. status' = regs[REG_STATUS]
    BY <2>1 DEF StatusBytes
  <2>3. running /\ Accurate
    BY <2>2 DEF IInv, FlagVouches, osf
  <2> QED
    BY <1>1, <1>2, <2>3 DEF Accurate, SetLag, Typed, TimesTyped
<1>7. ReadingStands' /\ Untouched'
  BY DEF IInv, ReadingStands, Untouched
<1> QED
  BY <1>3, <1>4, <1>5, <1>6, <1>7 DEF IInv

LEMMA SetStatusKeeps == ASSUME IInv, NEW d \in 0..Timeout, SetStatus(d) PROVE IInv'
<1> USE DEF SetStatus, SetOpens, Opens, NoReading, windows
<1>1. Elapse(d) /\ Typed
  BY DEF IInv
<1>2. /\ now' \in 0..MaxNow /\ now' = now + d
      /\ shown' \in 0..now' /\ shown' >= shown /\ shown' - shown <= now' - now
      /\ running => shown' = shown + d
      /\ now \in 0..now' /\ {asked, value, openedAt, readAt} \subseteq 0..now'
  BY <1>1, ElapseKeeps
<1>3. Typed'
  <2>1. TimesTyped'
    BY <1>2 DEF TimesTyped
  <2>2. FlagsTyped' /\ PartTyped'
    BY <1>1 DEF Typed, FlagsTyped, PartTyped
  <2>3. CallTyped'
    BY <1>1, BytesTyped DEF Typed, CallTyped
  <2> QED
    BY <2>1, <2>2, <2>3 DEF Typed
<1>4. FlagVouches'
  BY <1>1, <1>2 DEF IInv, FlagVouches, Accurate, osf, SetLag, Typed, TimesTyped
<1>5. StopIsNoted'
  BY <1>1, <1>2 DEF IInv, StopIsNoted, Typed, TimesTyped
<1>6. StatusVouches' /\ ReadingStands'
  BY DEF StatusVouches, ReadingStands
<1>7. Untouched'
  BY DEF IInv, Untouched, StatusBytes
<1> QED
  BY <1>3, <1>4, <1>5, <1>6, <1>7 DEF IInv

LEMMA ReadTimeKeeps == ASSUME IInv, NEW d \in 0..Timeout, ReadTime(d) PROVE IInv'
<1> USE DEF ReadTime, NoReading, Returns, windows
<1>1. Elapse(d) /\ Typed /\ pc = "readTime"
  BY DEF IInv
<1>2. /\ now' \in 0..MaxNow /\ now' = now + d
      /\ shown' \in 0..now' /\ shown' >= shown /\ shown' - shown <= now' - now
      /\ running => shown' = shown + d
      /\ now \in 0..now' /\ {asked, value, openedAt, readAt} \subseteq 0..now'
  BY <1>1, ElapseKeeps
<1>3. /\ result' \in ClockError \union {"none"}
      /\ result' = "none" => fitted /\ content = "valid" /\ ~ OscillatorStopFlag(status)
  BY <1>1, Reads DEF Typed, PartTyped
<1>4. /\ pc' \in {"read", "cell", "set", "service"}
      /\ result' = "none" => /\ pc' = "read" /\ value' = shown' /\ readAt' = now'
                             /\ openedAt' = openedAt
  BY <1>3, AdviceLeads
<1>5. Typed'
  <2>1. TimesTyped'
    BY <1>2, <1>4 DEF TimesTyped
  <2>2. FlagsTyped' /\ PartTyped'
    BY <1>1 DEF Typed, FlagsTyped, PartTyped
  <2>3. CallTyped'
    BY <1>1, <1>3, <1>4 DEF Typed, CallTyped, Byte
  <2> QED
    BY <2>1, <2>2, <2>3 DEF Typed
<1>6. FlagVouches'
  BY <1>1, <1>2 DEF IInv, FlagVouches, Accurate, osf, SetLag, Typed, TimesTyped
<1>7. StopIsNoted' /\ StatusVouches'
  BY <1>4 DEF IInv, StopIsNoted, StatusVouches
<1>8. ReadingStands'
  <2> SUFFICES ASSUME result' = "none" PROVE ReadingStands'
    BY DEF ReadingStands
  <2>1. fitted /\ content = "valid" /\ ~ OscillatorStopFlag(status)
    BY <1>3
  <2>2. ASSUME "status" \in heard', ~ hidden PROVE value' \in openedAt' - SetLag .. readAt'
    <3>1. shown >= openedAt - SetLag
      BY <1>1, <2>1, <2>2 DEF IInv, StatusVouches
    <3> QED
      BY <1>1, <1>2, <1>4, <3>1 DEF Typed, TimesTyped, SetLag
  <2> QED
    BY <1>4, <2>1, <2>2 DEF ReadingStands
<1>9. Untouched'
  BY <1>4 DEF IInv, Untouched
<1> QED
  BY <1>5, <1>6, <1>7, <1>8, <1>9 DEF IInv

LEMMA WriteTimeKeeps == ASSUME IInv, NEW d \in 0..Timeout, WriteTime(d) PROVE IInv'
<1> USE DEF WriteTime, reading
<1>1. Typed /\ pc = "writeTime"
  BY DEF IInv
<1>2. regs' = regs
  BY <1>1, StoresTime DEF Typed, PartTyped
<1>3. result # "none"
  BY <1>1 DEF IInv, ReadingStands
<1>4. Typed'
  <2>1. TimesTyped'
    BY <1>1 DEF Typed, TimesTyped
  <2>2. FlagsTyped'
    BY <1>1 DEF Typed, FlagsTyped, osf, OscillatorStopFlag
  <2>3. PartTyped' /\ CallTyped'
    BY <1>1, <1>2 DEF Typed, PartTyped, CallTyped, Contents
  <2> QED
    BY <2>1, <2>2, <2>3 DEF Typed
<1>5. Accurate'
  BY <1>1 DEF IInv, StopIsNoted, Accurate, SetLag, Typed, TimesTyped
<1>6. FlagVouches'
  BY <1>2, <1>5 DEF FlagVouches, osf
<1>7. StopIsNoted'
  BY <1>5 DEF IInv, StopIsNoted
<1>8. StatusVouches' /\ ReadingStands'
  BY <1>3 DEF StatusVouches, ReadingStands
<1>9. Untouched'
  BY <1>2 DEF IInv, Untouched
<1> QED
  BY <1>4, <1>6, <1>7, <1>8, <1>9 DEF IInv

LEMMA TornWriteKeeps == ASSUME IInv, NEW d \in 0..Timeout, TornWrite(d) PROVE IInv'
<1> USE DEF TornWrite, reading, Returns, Contents
<1>1. Typed /\ pc = "writeTime" /\ pc' \in {"read", "cell", "set", "service"}
  BY AdviceLeads DEF IInv
<1>2. result' # "none"
  OBVIOUS
<1>3. Typed'
  <2>1. TimesTyped'
    BY <1>1 DEF Typed, TimesTyped
  <2>2. FlagsTyped'
    BY <1>1 DEF Typed, FlagsTyped, osf, OscillatorStopFlag
  <2>3. PartTyped' /\ CallTyped'
    BY <1>1 DEF Typed, PartTyped, CallTyped, Byte
  <2> QED
    BY <2>1, <2>2, <2>3 DEF Typed
<1>4. FlagVouches'
  BY DEF FlagVouches, osf
<1>5. StopIsNoted' /\ StatusVouches' /\ ReadingStands' /\ Untouched'
  BY <1>1, <1>2 DEF IInv, StopIsNoted, StatusVouches, ReadingStands, Untouched
<1> QED
  BY <1>3, <1>4, <1>5 DEF IInv

LEMMA AcknowledgeKeeps == ASSUME IInv, NEW d \in 0..Timeout, Acknowledge(d) PROVE IInv'
<1> USE DEF Acknowledge, reading, Returns
<1>1. Elapse(d) /\ Typed /\ pc = "ack"
  BY DEF IInv
<1>2. /\ now' \in 0..MaxNow /\ now' = now + d
      /\ shown' \in 0..now' /\ shown' >= shown /\ shown' - shown <= now' - now
      /\ running => shown' = shown + d
      /\ now \in 0..now' /\ {asked, value, openedAt, readAt} \subseteq 0..now'
  BY <1>1, ElapseKeeps
<1>3. /\ status \in Byte /\ status % 128 \in Byte /\ status % 128 < 128
      /\ 128 + (status % 128) \in Byte
  BY <1>1 DEF Typed, CallTyped, Byte
<1>4. PICK b \in {status % 128, 128 + (status % 128)} :
           regs' = [regs EXCEPT ![REG_STATUS] = b]
  <2> DEFINE stored == [regs EXCEPT ![REG_STATUS] = status % 128]
  <2>1. Stored(regs, acknowledge_oscillator_stop(status)) = stored
    BY <1>1, <1>3, StoresStatus DEF Typed, PartTyped
  <2>2. regs' = stored \/ regs' = Flagged(stored)
    BY <2>1
  <2>3. Flagged(stored) = [regs EXCEPT ![REG_STATUS] = 128 + (status % 128)]
    BY <1>1, <1>3 DEF Flagged, Typed, PartTyped, REG_STATUS, MAX_REGISTER, Byte
  <2> QED
    BY <2>2, <2>3
<1>5. Typed'
  <2>1. TimesTyped'
    BY <1>2 DEF TimesTyped
  <2>2. FlagsTyped'
    BY <1>1 DEF Typed, FlagsTyped, osf, OscillatorStopFlag
  <2>3. PartTyped'
    BY <1>1, <1>3, <1>4 DEF Typed, PartTyped
  <2>4. CallTyped'
    BY <1>1 DEF Typed, CallTyped, Byte
  <2> QED
    BY <2>1, <2>2, <2>3, <2>4 DEF Typed
<1>6. FlagVouches'
  <2> SUFFICES ASSUME ~ osf', ~ hidden' PROVE running' /\ (content' = "valid" => Accurate')
    BY DEF FlagVouches
  <2>1. ~ stopped
    OBVIOUS
  <2>2. running /\ Accurate
    BY <1>1, <2>1 DEF IInv, StopIsNoted
  <2> QED
    BY <1>1, <1>2, <2>2 DEF Accurate, SetLag, Typed, TimesTyped
<1>7. StopIsNoted' /\ StatusVouches' /\ ReadingStands'
  BY DEF IInv, StopIsNoted, StatusVouches, ReadingStands
<1>8. Untouched'
  <2>1. /\ regs'[REG_STATUS] = b
        /\ DOMAIN regs' = DOMAIN regs
        /\ \A a \in DOMAIN regs \ {REG_STATUS} : regs'[a] = regs[a]
    BY <1>1, <1>4 DEF Typed, PartTyped, REG_STATUS, MAX_REGISTER
  <2>2. ~ garbled' => b \in {8, 136}
    <3> SUFFICES ASSUME ~ garbled' PROVE b \in {8, 136}
      OBVIOUS
    <3>1. ~ garbled /\ heard # {}
      OBVIOUS
    <3>2. status \in {8, 136}
      BY <1>1, <3>1 DEF IInv, Untouched
    <3> QED
      BY <1>4, <3>2
  <2> QED
    BY <2>1, <2>2 DEF IInv, Untouched
<1> QED
  BY <1>5, <1>6, <1>7, <1>8 DEF IInv

LEMMA BusErrorKeeps == ASSUME IInv, NEW d \in 0..Timeout, BusError(d) PROVE IInv'
<1> USE DEF BusError, Returns, NoReading, windows
<1>1. Elapse(d) /\ Typed /\ pc' \in {"cell", "set", "service"}
  BY AdviceLeads DEF IInv
<1>2. /\ now' \in 0..MaxNow /\ now' = now + d
      /\ shown' \in 0..now' /\ shown' >= shown /\ shown' - shown <= now' - now
      /\ running => shown' = shown + d
      /\ now \in 0..now' /\ {asked, value, openedAt, readAt} \subseteq 0..now'
  BY <1>1, ElapseKeeps
<1>3. Typed'
  <2>1. TimesTyped'
    BY <1>2 DEF TimesTyped
  <2>2. FlagsTyped' /\ PartTyped'
    BY <1>1 DEF Typed, FlagsTyped, PartTyped
  <2>3. CallTyped'
    <3>1. heard' \subseteq {"status", "time"}
      BY <1>1 DEF Typed, CallTyped
    <3>2. faults' \in 0..MaxFaults
      BY <1>1 DEF Typed, CallTyped
    <3>3. status' \in Byte
      BY DEF Byte
    <3> QED
      BY <1>1, <3>1, <3>2, <3>3 DEF CallTyped
  <2> QED
    BY <2>1, <2>2, <2>3 DEF Typed
<1>4. FlagVouches'
  BY <1>1, <1>2 DEF IInv, FlagVouches, Accurate, osf, SetLag, Typed, TimesTyped
<1>5. StopIsNoted' /\ StatusVouches' /\ ReadingStands' /\ Untouched'
  BY <1>1 DEF IInv, StopIsNoted, StatusVouches, ReadingStands, Untouched
<1> QED
  BY <1>3, <1>4, <1>5 DEF IInv

\* What happens to the part between two transactions, and to the program's pc.
LEMMA HolderKeeps == ASSUME IInv, ReplaceCell \/ Service PROVE IInv'
<1> USE DEF ReplaceCell, Service, locals, reading, windows
<1>1. Typed'
  <2>1. TimesTyped' /\ FlagsTyped' /\ PartTyped'
    BY DEF IInv, Typed, TimesTyped, FlagsTyped, PartTyped
  <2>2. CallTyped'
    BY DEF IInv, Typed, CallTyped
  <2> QED
    BY <2>1, <2>2 DEF Typed
<1>2. FlagVouches'
  BY DEF IInv, FlagVouches, Accurate, osf
<1>3. StopIsNoted' /\ StatusVouches' /\ ReadingStands' /\ Untouched'
  BY DEF IInv, StopIsNoted, StatusVouches, ReadingStands, Untouched
<1> QED
  BY <1>1, <1>2, <1>3 DEF IInv

\* A flag that is raised is up, and nothing else in the part moves.
LEMMA FlagRaised ==
    ASSUME Typed
    PROVE  /\ Flagged(regs) \in [7..MAX_REGISTER -> Byte]
           /\ Flagged(regs)[REG_STATUS] = 128 + (regs[REG_STATUS] % 128)
           /\ OscillatorStopFlag(Flagged(regs)[REG_STATUS])
           /\ \A a \in DOMAIN regs \ {REG_STATUS} : Flagged(regs)[a] = regs[a]
<1>1. regs \in [7..MAX_REGISTER -> Byte] /\ regs[REG_STATUS] \in Byte
  BY BytesTyped DEF Typed, PartTyped
<1>2. 128 + (regs[REG_STATUS] % 128) \in Byte /\ 128 + (regs[REG_STATUS] % 128) >= 128
  <2>1. \A n \in 0..255 : 128 + (n % 128) \in 0..255 /\ 128 + (n % 128) >= 128
    OBVIOUS
  <2> QED
    BY <1>1, <2>1 DEF Byte
<1>3. Flagged(regs) = [regs EXCEPT ![REG_STATUS] = 128 + (regs[REG_STATUS] % 128)]
  BY DEF Flagged
<1> QED
  BY <1>1, <1>2, <1>3 DEF OscillatorStopFlag, REG_STATUS, MAX_REGISTER

LEMMA StopKeeps == ASSUME IInv, Stop PROVE IInv'
<1> USE DEF Stop, Fault, program, locals, reading
<1>1. /\ regs' \in [7..MAX_REGISTER -> Byte]
      /\ regs'[REG_STATUS] = 128 + (regs[REG_STATUS] % 128)
      /\ osf'
      /\ \A a \in DOMAIN regs \ {REG_STATUS} : regs'[a] = regs[a]
  BY FlagRaised DEF IInv, osf
<1>2. Typed'
  <2>1. TimesTyped' /\ FlagsTyped' /\ PartTyped'
    BY <1>1 DEF IInv, Typed, TimesTyped, FlagsTyped, PartTyped
  <2>2. CallTyped'
    BY DEF IInv, Typed, CallTyped
  <2> QED
    BY <2>1, <2>2 DEF Typed
<1>3. FlagVouches'
  BY <1>1 DEF FlagVouches
<1>4. StopIsNoted' /\ StatusVouches' /\ ReadingStands'
  BY DEF IInv, StopIsNoted, StatusVouches, ReadingStands
<1>5. Untouched'
  <2>1. DOMAIN regs' = DOMAIN regs
    BY <1>1 DEF IInv, Typed, PartTyped
  <2> QED
    BY <1>1, <2>1 DEF IInv, Untouched
<1> QED
  BY <1>2, <1>3, <1>4, <1>5 DEF IInv

LEMMA ContactKeeps ==
    ASSUME IInv, Resume \/ ForeignWrite \/ LoseContact \/ RegainContact
    PROVE  IInv'
<1> USE DEF Resume, ForeignWrite, LoseContact, RegainContact, Fault, program,
            locals, reading, windows
<1>1. Typed'
  <2>1. TimesTyped'
    BY DEF IInv, Typed, TimesTyped
  <2>2. FlagsTyped' /\ PartTyped'
    BY DEF IInv, Typed, FlagsTyped, PartTyped
  <2>3. CallTyped'
    <3>1. faults' \in 0..MaxFaults
      BY DEF IInv, Typed, CallTyped
    <3> QED
      BY <3>1 DEF IInv, Typed, CallTyped
  <2> QED
    BY <2>1, <2>2, <2>3 DEF Typed
<1>2. FlagVouches'
  BY DEF IInv, FlagVouches, Accurate, osf
<1>3. StopIsNoted'
  BY DEF IInv, StopIsNoted, Accurate
<1>4. StatusVouches' /\ ReadingStands' /\ Untouched'
  BY DEF IInv, StatusVouches, ReadingStands, Untouched
<1> QED
  BY <1>1, <1>2, <1>3, <1>4 DEF IInv

LEMMA PowerLossKeeps == ASSUME IInv, PowerLoss PROVE IInv'
<1> USE DEF PowerLoss, Fault, part, Returns, NoReading
<1>1. /\ PowerOnRegs \in [7..MAX_REGISTER -> Byte]
      /\ PowerOnRegs[REG_STATUS] = 136
      /\ OscillatorStopFlag(PowerOnRegs[REG_STATUS])
  BY DEF PowerOnRegs, Byte, REG_STATUS, MAX_REGISTER, OscillatorStopFlag
<1>2. CallTyped'
  <2>1. faults' \in 0..MaxFaults
    BY DEF IInv, Typed, CallTyped
  <2> QED
    BY <2>1 DEF IInv, Typed, CallTyped, Byte
<1>3. StopIsNoted' /\ StatusVouches' /\ ReadingStands'
  BY DEF IInv, StopIsNoted, StatusVouches, ReadingStands
<1>4. CASE UNCHANGED <<part, stopped, garbled>>
  <2>1. Typed'
    BY <1>2, <1>4 DEF IInv, Typed, TimesTyped, FlagsTyped, PartTyped
  <2>2. FlagVouches'
    BY <1>4 DEF IInv, FlagVouches, Accurate, osf
  <2>3. Untouched'
    BY <1>4 DEF IInv, Untouched
  <2> QED
    BY <1>3, <2>1, <2>2, <2>3 DEF IInv
<1>5. CASE /\ regs' = PowerOnRegs /\ shown' = 0 /\ content' \in Contents
           /\ stopped' = TRUE /\ garbled' = FALSE
           /\ UNCHANGED <<running, fitted>>
  <2>1. TimesTyped'
    BY <1>5 DEF IInv, Typed, TimesTyped
  <2>2. FlagsTyped'
    BY <1>5 DEF IInv, Typed, FlagsTyped
  <2>3. PartTyped'
    BY <1>1, <1>5 DEF PartTyped
  <2>4. Typed'
    BY <1>2, <2>1, <2>2, <2>3 DEF Typed
  <2>5. FlagVouches'
    BY <1>1, <1>5 DEF FlagVouches, osf
  <2>6. Untouched'
    BY <1>1, <1>5 DEF Untouched
  <2> QED
    BY <1>3, <2>4, <2>5, <2>6 DEF IInv
<1> QED
  BY <1>4, <1>5

LEMMA RestKeeps == ASSUME IInv, Rest PROVE IInv'
<1> USE DEF Rest, locals, reading, windows
<1>1. /\ now' \in 0..MaxNow /\ now' = now + 1
      /\ shown' \in 0..now' /\ shown' >= shown /\ shown' - shown <= now' - now
      /\ running => shown' = shown + 1
      /\ now \in 0..now' /\ {asked, value, openedAt, readAt} \subseteq 0..now'
  BY DEF IInv, Typed, TimesTyped, FlagsTyped, Elapse
<1>2. Typed'
  <2>1. TimesTyped'
    BY <1>1 DEF TimesTyped
  <2>2. FlagsTyped' /\ PartTyped' /\ CallTyped'
    BY DEF IInv, Typed, FlagsTyped, PartTyped, CallTyped
  <2> QED
    BY <2>1, <2>2 DEF Typed
<1>3. FlagVouches'
  BY <1>1 DEF IInv, FlagVouches, Accurate, osf, SetLag, Typed, TimesTyped
<1>4. StopIsNoted' /\ StatusVouches' /\ ReadingStands' /\ Untouched'
  BY DEF IInv, StopIsNoted, StatusVouches, ReadingStands, Untouched
<1> QED
  BY <1>2, <1>3, <1>4 DEF IInv

LEMMA NextIInv == IInv /\ [Next]_vars => IInv'
<1> SUFFICES ASSUME IInv, [Next]_vars PROVE IInv'
  OBVIOUS
<1>1. CASE Driver
  BY <1>1, ReadStatusKeeps, ReadTimeKeeps, SetStatusKeeps, WriteTimeKeeps, TornWriteKeeps,
     AcknowledgeKeeps, BusErrorKeeps DEF Driver
<1>2. CASE ReplaceCell \/ Service
  BY <1>2, HolderKeeps
<1>3. CASE Stop
  BY <1>3, StopKeeps
<1>4. CASE Resume \/ ForeignWrite \/ LoseContact \/ RegainContact
  BY <1>4, ContactKeeps
<1>5. CASE PowerLoss
  BY <1>5, PowerLossKeeps
<1>6. CASE Rest
  BY <1>6, RestKeeps
<1>7. CASE UNCHANGED vars
  <2> USE <1>7 DEF vars, part, locals, reading, windows
  <2>1. Typed'
    BY DEF IInv, Typed, TimesTyped, FlagsTyped, PartTyped, CallTyped
  <2>2. FlagVouches' /\ StopIsNoted' /\ StatusVouches' /\ ReadingStands' /\ Untouched'
    BY DEF IInv, FlagVouches, StopIsNoted, StatusVouches, ReadingStands, Untouched,
           Accurate, osf
  <2> QED
    BY <2>1, <2>2 DEF IInv
<1> QED
  BY <1>1, <1>2, <1>3, <1>4, <1>5, <1>6, <1>7 DEF Next

LEMMA Inductive == Spec => []IInv
BY InitIInv, NextIInv, PTL DEF Spec

--------------------------------------------------------------------------------
\* Every variable stays in its type, for every bound: no time the part shows or
\* a call keeps lies in the future (Ds3231, clock.rs).
THEOREM TypeCorrect == Spec => []TypeOK
<1>1. IInv => TypeOK
  BY DEF IInv, Typed, TimesTyped, FlagsTyped, PartTyped, CallTyped, TypeOK
<1> QED
  BY <1>1, Inductive, PTL

\* Whatever stops, fails or loses power, and in whatever order, a clear flag
\* before a date means the true time up to the lag of the set, outside the
\* window of set_clock (clock.rs, set_clock and its order of writes).
THEOREM FlagHonest == Spec => []FlagIsHonest
<1>1. IInv => FlagIsHonest
  BY DEF IInv, FlagVouches, Accurate, FlagIsHonest
<1> QED
  BY <1>1, Inductive, PTL

\* A reading is no older than the call that returned it, up to that lag, for
\* every order of stops and losses between its two transactions, if a part sent
\* the status byte (clock.rs, read_clock_civil).
THEOREM ReadFresh == Spec => []ReadIsFresh
<1>1. IInv => ReadIsFresh
  BY DEF IInv, ReadingStands, ReadIsFresh
<1> QED
  BY <1>1, Inductive, PTL

\* No reading comes of a bus that no part drove while the time was read, at
\* whichever level it floats (clock.rs, decode_time and its checks).
THEOREM AbsentRefused == Spec => []AbsentNeverBelieved
<1>1. IInv => AbsentNeverBelieved
  BY DEF IInv, ReadingStands, AbsentNeverBelieved
<1> QED
  BY <1>1, Inductive, PTL

\* No run of calls, however long, leaves more in the part than the time and the
\* flag, unless a status byte that no part sent was written back (clock.rs,
\* RegisterWrite).
THEOREM TimeOnly == Spec => []NothingElseStored
<1>1. IInv => NothingElseStored
  <2> SUFFICES ASSUME IInv, ~ garbled PROVE NothingElseStored
    BY DEF NothingElseStored
  <2>1. /\ regs \in [7..MAX_REGISTER -> Byte]
        /\ \A a \in 7..MAX_REGISTER \ {REG_STATUS} : regs[a] = PowerOnRegs[a]
        /\ regs[REG_STATUS] \in {8, 136}
    BY DEF IInv, Typed, PartTyped, Untouched
  <2>2. \A a \in SCRATCHPAD_REGISTERS \union UNUSED_REGISTERS :
           a \in 7..MAX_REGISTER \ {REG_STATUS}
    BY DEF SCRATCHPAD_REGISTERS, UNUSED_REGISTERS, MAX_REGISTER, REG_STATUS
  <2>3. regs = [PowerOnRegs EXCEPT ![REG_STATUS] = regs[REG_STATUS]]
    BY <2>1 DEF PowerOnRegs, REG_STATUS, MAX_REGISTER
  <2>4. PowerOnRegs = [PowerOnRegs EXCEPT ![REG_STATUS] = 136]
    BY DEF PowerOnRegs, REG_STATUS, MAX_REGISTER
  <2> QED
    BY <2>1, <2>2, <2>3, <2>4 DEF NothingElseStored
<1> QED
  BY <1>1, Inductive, PTL
================================================================================
