--------------------------------- MODULE Ds3231 --------------------------------
(***************************************************************************)
(* The clock on its bus: read_clock_civil and set_clock of clock.rs, one   *)
(* action per bus transaction, against a DS3231 (external) that can stop,  *)
(* be written by somebody else, or not be there. Between any two           *)
(* transactions time passes, the oscillator may stop and start, contacts   *)
(* may come loose and the board may lose power; the part lives on its own  *)
(* cell. A holder does what the advice of each failed read says.           *)
(*                                                                         *)
(* Time is one integer: `now` is the truth, `shown` what the part counts.  *)
(* The bytes behind a reading are judged by the codec of CivilTime.        *)
(***************************************************************************)
EXTENDS RegisterWrite

CONSTANTS Timeout,     \* longest bus transaction (I2C_TIMEOUT_MS), in ticks
          MaxNow,      \* bound: no tick after this
          MaxFaults    \* bound: stops, foreign writes, lost contacts, bus errors
                       \* and power losses together

ASSUME BusAssumption == {Timeout, MaxFaults} \subseteq Nat /\ MaxNow \in Nat \ {0}

VARIABLES now,         \* the true time
          running,     \* the oscillator runs
          regs,        \* registers 0x07-0x12, the status register among them
          fitted,      \* the part answers on the bus
          content,     \* what kind of thing the registers 0x00-0x06 hold
          shown,       \* the time the registers 0x00-0x06 hold
          pc,          \* the transaction that comes next
          status,      \* local: the status byte a call has read
          asked,       \* local: the time set_clock was called with
          result,      \* what the last call returned, "pending" during one
          value,       \* the reading, when the result is "none" (no error)
          openedAt,    \* history: when the read was called
          readAt,      \* history: when its time registers were sampled
          heard,       \* history: the reads of the call that a part answered
          stopped,     \* history: a stop since the registers were last set
          hidden,      \* history: set_clock was disturbed and left no flag: a
                       \* stop after its write, or a write cut short
          garbled,     \* history: set_clock acknowledged a status byte that no
                       \* part had sent it
          faults       \* faults so far

part == <<running, regs, fitted, content, shown>>
locals == <<status, asked>>
reading == <<value, openedAt, readAt>>
windows == <<stopped, hidden, garbled>>
vars == <<now, part, pc, locals, result, reading, heard, windows, faults>>

osf == OscillatorStopFlag(regs[REG_STATUS])

\* Some time to set the part to; which one makes no difference here.
SomeTime == [year |-> 2026, month |-> 8, day |-> 29,
             hour |-> 11, minute |-> 24, second |-> 7]

Contents == {"valid", "twelve", "impossible", "notBcd", "reserved"}

\* Registers 0x00-0x06 of a part in 24-hour mode, in 12-hour mode, holding a 13th
\* month, a nibble above nine, and a bit that should be zero: one dump for every
\* answer of decode_time.
Held(c) == CASE c = "valid"      -> to_registers(SomeTime)
             [] c = "twelve"     -> [to_registers(SomeTime) EXCEPT ![3] = 81]
             [] c = "impossible" -> [to_registers(SomeTime) EXCEPT ![6] = 19]
             [] c = "notBcd"     -> [to_registers(SomeTime) EXCEPT ![1] = 10]
             [] c = "reserved"   -> [to_registers(SomeTime) EXCEPT ![1] = 128]

\* The other registers at first power-up: the stop flag is raised, the 32 kHz
\* output enabled, and the scratchpad holds something.
PowerOnRegs == [a \in 7..MAX_REGISTER |-> IF a = REG_STATUS THEN 136 ELSE 85]

Flagged(r) == [r EXCEPT ![REG_STATUS] = 128 + (@ % 128)]

\* With nothing driving the bus the master reads the same byte everywhere.
Degenerate == {0, 255}
StatusBytes == IF fitted THEN {regs[REG_STATUS]} ELSE Degenerate
TimeBytes == IF fitted THEN {Held(content)} ELSE {[i \in 1..7 |-> b] : b \in Degenerate}

\* What the holder does after a failed call.
Advised(err) == CASE remedy(err) = "ReplaceCell" -> "cell"
                  [] remedy(err) = "SetClock"    -> "set"
                  [] remedy(err) = "Service"     -> "service"

\* A transaction takes d ticks, counted by the part if it runs.
Elapse(d) == /\ now' = now + d
             /\ now' <= MaxNow
             /\ shown' = IF running THEN shown + d ELSE shown

\* A call begins, or ends: there is no reading, and no stack frame.
NoReading == value' = 0 /\ openedAt' = 0 /\ readAt' = 0
Returns == status' = 0 /\ asked' = 0

--------------------------------------------------------------------------------
Init == /\ now \in 0..1
        /\ running \in BOOLEAN
        /\ regs = PowerOnRegs
        /\ fitted \in BOOLEAN
        /\ content \in Contents
        /\ shown = 0
        /\ pc = "read"
        /\ status = 0
        /\ asked = 0
        /\ result = "pending"
        /\ value = 0
        /\ openedAt = 0
        /\ readAt = 0
        /\ heard = {}
        /\ stopped = TRUE
        /\ hidden = FALSE
        /\ garbled = FALSE
        /\ faults = 0

\* The status register, the first transaction of either call.
Opens(d) == /\ Elapse(d)
            /\ status' \in StatusBytes
            /\ result' = "pending"
            /\ heard' = IF fitted THEN {"status"} ELSE {}
            /\ UNCHANGED <<running, fitted, content, windows, faults>>

\* read_clock_civil, first transaction: REG_STATUS.
ReadStatus(d) == /\ pc = "read"
                 /\ pc' = "readTime"
                 /\ Opens(d)
                 /\ value' = 0 /\ openedAt' = now /\ readAt' = 0
                 /\ UNCHANGED <<regs, asked>>

\* Second transaction: seven bytes from REG_SECONDS, then read_civil_time on
\* what both returned.
ReadTime(d) ==
    /\ pc = "readTime"
    /\ Elapse(d)
    /\ Returns
    /\ UNCHANGED <<running, regs, fitted, content, windows, faults>>
    /\ heard' = IF fitted THEN heard \union {"time"} ELSE heard
    /\ \E bytes \in TimeBytes : result' = read_civil_time(status, bytes).err
    /\ IF result' = "none"
       THEN pc' = "read" /\ value' = shown' /\ readAt' = now' /\ UNCHANGED openedAt
       ELSE pc' = Advised(result') /\ NoReading

SetOpens(d) == /\ pc = "set"
               /\ pc' = "writeTime"
               /\ asked' = now
               /\ Opens(d)
               /\ NoReading

\* Mutant: the acknowledgement before the time.
SetStatusAcknowledging(d) ==
    SetOpens(d) /\ regs' = [regs EXCEPT ![REG_STATUS] = clear_oscillator_stop_flag(@)]

\* set_clock, called with the true time: it reads the status byte first.
SetStatus(d) == SetOpens(d) /\ UNCHANGED regs

\* RegisterWrite::set_time: all seven registers in one transaction.
WriteTime(d) ==
    /\ pc = "writeTime"
    /\ fitted
    /\ now' = now + d
    /\ now' <= MaxNow
    /\ shown' = asked
    /\ content' = "valid"
    /\ regs' = Stored(regs, set_time(SomeTime))
    /\ stopped' = ~ running
    /\ hidden' = (~ osf /\ ~ running)
    /\ pc' = "ack"
    /\ asked' = 0
    /\ UNCHANGED <<running, fitted, status, result, reading, heard, garbled, faults>>

\* The burst is cut short, by the bus or by a power loss: some registers are new
\* and some old, which need not make a date and need not be near any time.
TornWrite(d) ==
    /\ pc = "writeTime"
    /\ fitted
    /\ faults < MaxFaults
    /\ faults' = faults + 1
    /\ now' = now + d
    /\ now' <= MaxNow
    /\ shown' \in 0..now
    /\ content' \in {"valid", "impossible", content}
    /\ hidden' = ~ osf
    /\ \/ result' = "Bus" /\ pc' = Advised("Bus")
       \/ result' = "pending" /\ pc' = "read"
    /\ Returns
    /\ UNCHANGED <<running, regs, fitted, reading, heard, stopped, garbled>>

\* RegisterWrite::acknowledge_oscillator_stop on the status byte read before. A
\* part whose oscillator still stands may or may not keep the flag up.
Acknowledge(d) ==
    /\ pc = "ack"
    /\ fitted
    /\ Elapse(d)
    /\ LET stored == Stored(regs, acknowledge_oscillator_stop(status))
       IN  regs' \in {stored} \union (IF running THEN {} ELSE {Flagged(stored)})
    /\ hidden' = (stopped /\ ~ osf')
    /\ garbled' = (garbled \/ heard = {})
    /\ pc' = "read"
    /\ result' = "set"
    /\ Returns
    /\ UNCHANGED <<running, fitted, content, reading, heard, stopped, faults>>

\* A transaction fails: always when a write finds no part, sometimes otherwise.
BusError(d) ==
    /\ pc \in {"read", "readTime", "set", "writeTime", "ack"}
    /\ Elapse(d)
    /\ result' = "Bus"
    /\ pc' = Advised("Bus")
    /\ heard' = IF pc \in {"read", "set"} THEN {} ELSE heard
    /\ \/ ~ fitted /\ UNCHANGED faults
       \/ fitted /\ faults < MaxFaults /\ faults' = faults + 1
    /\ Returns /\ NoReading
    /\ UNCHANGED <<running, regs, fitted, content, windows>>

--------------------------------------------------------------------------------
\* The holder follows the advice: a new cell, then the clock is set; a repair.
ReplaceCell == /\ pc = "cell"
               /\ pc' = "set"
               /\ running' = TRUE
               /\ UNCHANGED <<now, regs, fitted, content, shown, locals, result,
                              reading, heard, windows, faults>>

Service == /\ pc = "service"
           /\ pc' = "read"
           /\ fitted' = TRUE
           /\ UNCHANGED <<now, running, regs, content, shown, locals, result,
                          reading, heard, windows, faults>>

Fault == faults < MaxFaults /\ faults' = faults + 1

\* What goes on inside the program is not touched by what happens to the part.
program == <<now, pc, locals, result, reading, heard>>

\* The oscillator stops: the part records it.
Stop == /\ Fault
        /\ running' = FALSE
        /\ regs' = Flagged(regs)
        /\ stopped' = TRUE
        /\ UNCHANGED <<program, fitted, content, shown, hidden, garbled>>

Resume == /\ ~ running
          /\ running' = TRUE
          /\ UNCHANGED <<program, regs, fitted, content, shown, windows, faults>>

\* Somebody else's tool writes the part between two calls, or the registers are
\* corrupted; the flag stays as it was.
ForeignWrite == /\ Fault
                /\ pc \in {"read", "set"}
                /\ content' \in Contents \ {"valid"}
                /\ UNCHANGED <<program, running, regs, fitted, shown, windows>>

LoseContact == /\ Fault
               /\ fitted' = FALSE
               /\ UNCHANGED <<program, running, regs, content, shown, windows>>

RegainContact == /\ ~ fitted
                 /\ fitted' = TRUE
                 /\ UNCHANGED <<program, running, regs, content, shown, windows, faults>>

\* The board loses power in the middle of anything; the holder starts again. If
\* the coin cell is flat the part loses everything too, and comes back with the
\* flag raised and anything in its registers, its zero if that is a time.
PowerLoss == /\ Fault
             /\ pc' = "read"
             /\ result' = "pending"
             /\ \/ UNCHANGED <<part, stopped, garbled>>
                \/ /\ regs' = PowerOnRegs
                   /\ shown' = 0
                   /\ content' \in Contents
                   /\ stopped' = TRUE
                   /\ garbled' = FALSE
                   /\ UNCHANGED <<running, fitted>>
             /\ Returns /\ NoReading
             /\ UNCHANGED <<now, heard, hidden>>

\* Time between calls.
Rest == /\ pc \in {"read", "cell", "service"}
        /\ Elapse(1)
        /\ UNCHANGED <<running, regs, fitted, content, pc, locals, result, reading,
                       heard, windows, faults>>

Driver == \E d \in 0..Timeout :
             \/ ReadStatus(d) \/ ReadTime(d)
             \/ SetStatus(d) \/ WriteTime(d) \/ TornWrite(d)
             \/ Acknowledge(d)
             \/ BusError(d)

Next == \/ Driver \/ ReplaceCell \/ Service
        \/ Stop \/ Resume \/ ForeignWrite \/ LoseContact \/ RegainContact
        \/ PowerLoss \/ Rest

Spec == Init /\ [][Next]_vars

\* Every transaction ends, by itself or by its timeout, and the holder acts.
FairSpec == Spec /\ WF_vars(Driver) /\ WF_vars(ReplaceCell) /\ WF_vars(Service)

--------------------------------------------------------------------------------
TypeOK == /\ now \in 0..MaxNow
          /\ {shown, asked, value, openedAt, readAt} \subseteq 0..now
          /\ {running, fitted, stopped, hidden, garbled} \subseteq BOOLEAN
          /\ regs \in [7..MAX_REGISTER -> Byte]
          /\ heard \subseteq {"status", "time"}
          /\ content \in Contents
          /\ pc \in {"read", "readTime", "set", "writeTime", "ack", "cell", "service"}
          /\ status \in Byte
          /\ result \in ClockError \union {"none", "Bus", "pending", "set"}
          /\ faults \in 0..MaxFaults

\* The longest set_clock can take from the time it was given to the write.
SetLag == 2 * Timeout

\* The flag is an honest record: a part that holds a date behind a clear flag
\* holds the true time, up to the time set_clock took to write it, whatever
\* stopped, crashed or failed before, except in the one window set_clock leaves
\* (set_clock: the time is written first, the flag cleared last).
FlagIsHonest == content = "valid" /\ ~ osf /\ ~ hidden
                    => shown \in now - SetLag .. now

\* What a read returns was true while the read ran: not older than the call, up
\* to the lag of the set, and not later than the sample, even when the part
\* stops between the two transactions; as long as it was the part that sent the
\* status byte (read_clock_civil).
ReadIsFresh == result = "none" /\ ~ hidden /\ "status" \in heard
                   => value \in openedAt - SetLag .. readAt

\* A reading is never made of a bus that no part drives, whether it floats for
\* the whole call or for its second half, and at whichever level
\* (read_civil_time, bcd_field).
AbsentNeverBelieved == result = "none" => "time" \in heard

\* The part keeps time and nothing else: whatever was called, stopped or cut
\* short, the registers beyond the time and the bits beside the stop flag hold
\* what they held, unless set_clock wrote back a status byte that was none
\* (RegisterWrite, clear_oscillator_stop_flag).
NothingElseStored ==
    ~ garbled => /\ \A a \in SCRATCHPAD_REGISTERS \union UNUSED_REGISTERS :
                        regs[a] = PowerOnRegs[a]
                 /\ regs \in {PowerOnRegs, [PowerOnRegs EXCEPT ![REG_STATUS] = 8]}

\* A part that answers with bytes that are no reading, behind a clear flag: its
\* content is at fault, and NotBcd or ReservedBitSet blames the bus. A repair
\* leaves the registers, and the next read says the same.
Misjudged == ~ osf /\ content \in {"notBcd", "reserved"}

\* The advice is enough: a holder who does what each failed read says gets back
\* to a clock that reads, whatever failed before and whatever a part powers up
\* with, except for as long as the part is misjudged (remedy, set_clock).
AdviceHeals == []<>(result = "none" \/ Misjudged)

\* What clock.rs says of the advice: an absent part is never a matter for the
\* holder, because 0xFF fails as BCD and fails the reserved bits.
AbsentIsService ==
    heard = {} /\ result \notin {"pending", "none", "set"} => remedy(result) = "Service"
================================================================================
