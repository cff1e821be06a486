-------------------------------- MODULE Firmware -------------------------------
(***************************************************************************)
(* firmware/nostd/src/bin/main.rs: the attestation firmware over its power *)
(* cycles. Composes the button (module Debounce) and the cooldown (module  *)
(* Cooldown) with the DS3231 as the loop sees it: a transaction that       *)
(* answers or fails within the bus timeout, a stop flag, and registers     *)
(* that fall behind while the oscillator is stopped (module Ds3231 has the *)
(* bytes). The true time `now` is never read by the program.               *)
(***************************************************************************)
EXTENDS Debounce, Cooldown

CONSTANTS TimeoutMs,      \* I2C_TIMEOUT_MS
          PollMs,         \* POLL_INTERVAL_MS
          SignMs,         \* longest draw, signature and print
          SecondMs,       \* the clock chip shows whole seconds
          MaxNow,         \* bound: no pass and no boot starts after it
          MaxBoots        \* bound: power cycles

ASSUME FirmwareAssumption == /\ {TimeoutMs, PollMs, SignMs} \subseteq Nat
                             /\ SecondMs \in Nat \ {0}
                             /\ {MaxNow, MaxBoots} \subseteq Nat

VARIABLES now,            \* true time, in milliseconds
          pc,             \* where the program stands; "off" without power
          boot,           \* power cycles so far
          bootAt,         \* when this one began: the zero of uptime_ms()
          uptime,         \* `uptime` of the loop: sampled once a pass, at its top
          counter,        \* COUNTER
          stopSeen,       \* read_clock_civil: the stop flag of its status byte
          stamp,          \* timestamp_ms of the pass under way
          osf,            \* the oscillator stop flag
          lag,            \* how far the time registers are behind
          stuck,          \* SDA is held low: no transaction completes
          heldSinceBoot,  \* history: down at boot and at every sample since
          log             \* history: the attestations printed (AttestationLedger)

locals == <<stopSeen, stamp>>
ram == <<pressed, last_change_ms, last_ms, uptime, counter, locals>>
chip == <<osf, lag>>
vars == <<now, pc, boot, bootAt, ram, chip, stuck, heldSinceBoot, log>>

\* When the press being handled was sampled.
polled == bootAt + uptime

Second(t) == (t \div SecondMs) * SecondMs

\* d milliseconds pass; a stopped oscillator loses some of them.
Elapse(d) == /\ now' = now + d
             /\ lag' \in IF osf THEN lag..lag + d ELSE {lag}
             /\ UNCHANGED <<osf, stuck>>

Goto(label) == pc' = label /\ UNCHANGED <<boot, bootAt>>

--------------------------------------------------------------------------------
Init == /\ now = 0
        /\ pc = "off"
        /\ boot = 0
        /\ bootAt = 0
        /\ uptime = 0
        /\ pressed = FALSE
        /\ last_change_ms = 0
        /\ last_ms = Never
        /\ counter = 0
        /\ stopSeen = FALSE
        /\ stamp = 0
        /\ osf \in BOOLEAN
        /\ lag = 0
        /\ stuck = FALSE
        /\ heldSinceBoot = FALSE
        /\ log = {}

\* Power: the statics and the stack of main start over.
PowerOn == /\ pc = "off"
           /\ boot < MaxBoots
           /\ now < MaxNow
           /\ pc' = "boot"
           /\ boot' = boot + 1
           /\ bootAt' = now
           /\ uptime' = 0
           /\ counter' = 0
           /\ last_ms' = Never
           /\ stopSeen' = FALSE
           /\ stamp' = 0
           /\ heldSinceBoot' = FALSE
           /\ UNCHANGED <<now, chip, stuck, log, button>>

\* A transaction that answers, and one that fails: an error code any time, the
\* software timeout when the line is stuck.
Answers(d) == ~ stuck /\ d \in 0..TimeoutMs

\* Mutant: esp-hal's default, no software timeout.
FailsUntimed(d) == ~ stuck /\ d \in 0..TimeoutMs

Fails(d) == IF stuck THEN d = TimeoutMs ELSE d \in 0..TimeoutMs

\* The boot report of the clock: one or two transactions whose outcome is
\* printed and kept nowhere; then Button::new and Cooldown::new.
Start(level, d) == /\ pc = "boot"
                   /\ \/ Fails(d)
                      \/ \E first \in 0..d : /\ Answers(first)
                                             /\ Answers(d - first) \/ Fails(d - first)
                   /\ Elapse(d)
                   /\ Seed(level, now' - bootAt)
                   /\ heldSinceBoot' = level
                   /\ Goto("loop")
                   /\ UNCHANGED <<last_ms, uptime, counter, locals, log>>

\* Mutant: the cooldown is gated before the clock is read.
SampleGatingFirst(raw) ==
    /\ pc = "loop"
    /\ now < MaxNow
    /\ uptime' = now - bootAt
    /\ Update(raw, uptime')
    /\ heldSinceBoot' = (heldSinceBoot /\ raw)
    /\ IF ~ pressed /\ pressed'
       THEN /\ Goto("status")
            /\ last_ms' = IF Ready(uptime') THEN uptime' ELSE last_ms
       ELSE Goto("delay") /\ UNCHANGED last_ms
    /\ UNCHANGED <<now, chip, stuck, counter, locals, log>>

\* The top of a pass: uptime_ms() and button.poll(uptime).
Sample(raw) == /\ pc = "loop"
               /\ now < MaxNow
               /\ uptime' = now - bootAt
               /\ Update(raw, uptime')
               /\ heldSinceBoot' = (heldSinceBoot /\ raw)
               /\ Goto(IF ~ pressed /\ pressed' THEN "status" ELSE "delay")
               /\ UNCHANGED <<now, chip, stuck, last_ms, counter, locals, log>>

\* read_clock_civil, first transaction: the status register.
ReadStatus(d) == /\ pc = "status"
                 /\ Answers(d)
                 /\ Elapse(d)
                 /\ stopSeen' = osf
                 /\ Goto("time")
                 /\ UNCHANGED <<pressed, last_change_ms, last_ms, uptime, counter,
                                stamp, heldSinceBoot, log>>

\* Mutant: the status byte is read and not looked at.
ReadTimeUnflagged(d) == /\ pc = "time"
                        /\ Answers(d)
                        /\ Elapse(d)
                        /\ Goto("gate")
                        /\ stamp' = Second(now' - lag')
                        /\ UNCHANGED <<pressed, last_change_ms, last_ms, uptime,
                                       counter, stopSeen, heldSinceBoot, log>>

\* Second transaction: the time registers, believed only when the status byte
\* of the first showed no stop. A refusal ends the pass before the gate.
ReadTime(d) == /\ pc = "time"
               /\ Answers(d)
               /\ Elapse(d)
               /\ IF stopSeen THEN Goto("delay") /\ UNCHANGED stamp
                              ELSE Goto("gate") /\ stamp' = Second(now' - lag')
               /\ UNCHANGED <<pressed, last_change_ms, last_ms, uptime, counter,
                              stopSeen, heldSinceBoot, log>>

\* Either transaction failing: ReadError::Bus, and the pass ends.
BusError(d) == /\ pc \in {"status", "time"}
               /\ Fails(d)
               /\ Elapse(d)
               /\ Goto("delay")
               /\ UNCHANGED <<ram, heldSinceBoot, log>>

\* cooldown.gate(uptime): with the time the press was sampled, not the time now.
Gate == /\ pc = "gate"
        /\ \/ GateOpens(uptime) /\ Goto("attest")
           \/ GateRefuses(uptime) /\ Goto("delay")
        /\ UNCHANGED <<now, pressed, last_change_ms, uptime, counter, locals, chip,
                       stuck, heldSinceBoot, log>>

\* attest: the draw, COUNTER.fetch_add, the signature and its print.
Attest(d) == /\ pc = "attest"
             /\ Elapse(d)
             /\ counter' = counter + 1
             /\ log' = log \union {[session |-> boot, counter |-> counter,
                                    stamp |-> stamp, polled |-> polled, made |-> now']}
             /\ Goto("delay")
             /\ UNCHANGED <<pressed, last_change_ms, last_ms, uptime, locals,
                            heldSinceBoot>>

\* delay.delay_millis(POLL_INTERVAL_MS), and round again.
DelayMillis == /\ pc = "delay"
               /\ Elapse(PollMs)
               /\ Goto("loop")
               /\ UNCHANGED <<ram, heldSinceBoot, log>>

\* The program, over all durations of its steps.
Program == \/ \E raw \in BOOLEAN : Sample(raw)
           \/ \E raw \in BOOLEAN, d \in 0..2 * TimeoutMs : Start(raw, d)
           \/ \E d \in 0..TimeoutMs : ReadStatus(d) \/ ReadTime(d) \/ BusError(d)
           \/ Gate
           \/ \E d \in 0..SignMs : Attest(d)
           \/ DelayMillis

--------------------------------------------------------------------------------
\* The power fails, at any instruction: everything but the chip is lost.
PowerLoss == /\ pc # "off"
             /\ pc' = "off"
             /\ UNCHANGED <<now, boot, bootAt, ram, chip, stuck, heldSinceBoot, log>>

\* Without power, time passes on the coin cell.
Unpowered == /\ pc = "off"
             /\ now < MaxNow
             /\ Elapse(1)
             /\ UNCHANGED <<pc, boot, bootAt, ram, heldSinceBoot, log>>

\* The oscillator stops and the flag latches. Without board power that is the
\* coin cell failing, which may also take the time registers back to their zero.
OscillatorStops == /\ ~ osf
                   /\ osf' = TRUE
                   /\ \/ UNCHANGED lag
                      \/ pc = "off" /\ lag' = now
                   /\ UNCHANGED <<now, pc, boot, bootAt, ram, stuck, heldSinceBoot, log>>

\* A new cell and a set_clock that completes, on the bench (module Ds3231 has
\* the set_clock that does not).
Serviced == /\ pc = "off"
            /\ osf' = FALSE
            /\ lag' = 0
            /\ UNCHANGED <<now, pc, boot, bootAt, ram, stuck, heldSinceBoot, log>>

\* SDA is pulled low, or let go.
LineMoves == /\ stuck' = ~ stuck
             /\ UNCHANGED <<now, pc, boot, bootAt, ram, chip, heldSinceBoot, log>>

Next == \/ Program
        \/ PowerOn \/ PowerLoss \/ Unpowered
        \/ OscillatorStops \/ Serviced \/ LineMoves

Spec == Init /\ [][Next]_vars

\* The CPU runs: no step of the program that can be taken is put off forever.
\* Nothing is assumed of the power, the coin cell or the line.
FairSpec == Spec /\ WF_vars(Program)

--------------------------------------------------------------------------------
\* Longest from the sample of a press to its signature.
HandlingMs == 2 * TimeoutMs + SignMs

\* No time the program holds lies in the future.
TimesTyped == /\ now \in Nat
              /\ {bootAt, uptime, last_change_ms, stamp, lag} \subseteq 0..now
              /\ last_ms \in 0..now \union {Never}
PlaceTyped == /\ pc \in {"off", "boot", "loop", "status", "time", "gate", "attest", "delay"}
              /\ boot \in 0..MaxBoots
              /\ counter \in Nat
FlagsTyped == {pressed, osf, stuck, stopSeen, heldSinceBoot} \subseteq BOOLEAN
LogTyped == \A e \in log :
                e \in [session : 1..MaxBoots, counter : Nat,
                       stamp : 0..now, polled : 0..now, made : 0..now]

TypeOK == TimesTyped /\ PlaceTyped /\ FlagsTyped /\ LogTyped

\* The attestations of the power cycle under way.
ThisBoot == {e \in log : e.session = boot}

\* A recorded cooldown has its attestation, printed or being made: a press the
\* clock refused, however it was refused, costs the holder nothing (main.rs
\* reads the clock before it gates, and says why the order is load-bearing).
CooldownIsOwed ==
    pc # "off" /\ last_ms # Never
        => \/ \E e \in ThisBoot : e.polled = bootAt + last_ms
           \/ pc = "attest" /\ uptime = last_ms

\* A device powered on with its trigger held makes no attestation until the
\* trigger has been let go: the BOOT button is held to enter download mode.
HeldAtBootIsSilent == pc # "off" /\ heldSinceBoot => ThisBoot = {}

\* Across power cycles, outages and stopped oscillators the printed timestamps
\* never run backwards: of two attestations the later carries no earlier stamp
\* (the stop flag decides what is believed, read_clock_civil, and every pass
\* reads the clock afresh).
StampsOrdered == \A e, f \in log : e.made < f.made => e.stamp <= f.stamp

\* Two attestations of one power cycle are signed at least one interval apart,
\* less the time a press may be handled.
MadeSpaced == \A e, f \in log :
    e.session = f.session /\ e.counter < f.counter
        => f.made - e.made >= IntervalMs - HandlingMs

\* Every power cycle erases the cooldown, so that attestations of two of them
\* are not an interval apart; the debouncer, seeded at boot, still keeps a
\* window between them, however fast the power comes and goes.
RestartSpaced == \A e, f \in log :
    e.session < f.session => f.polled - e.made >= DebounceMs

\* What cooldown.rs says of its interval: it lies between attestations, the
\* record being made right after signing (cooldown.rs:3, 87-90).
IntervalBetweenAttestations == \A e, f \in log :
    e.session = f.session /\ e.counter < f.counter
        => f.made - e.made >= IntervalMs

\* The promise of the device over its power cycles.
Ledger == INSTANCE AttestationLedger WITH session <- boot

\* The firmware implements it: counters without gaps or repeats, presses one
\* interval apart, stamps from the handling of the very press.
ImplementsLedger == Ledger!Spec

\* The loop always gets back to its button, or the power is off: no state of
\* the bus, a line held low forever included, leaves it waiting (I2C_TIMEOUT_MS).
LoopReturns == []<>(pc \in {"off", "loop"})
================================================================================
