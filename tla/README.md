# IceSickle in TLA+

A formal model of the IceSickle attestation device: what its firmware promises
about the attestations it prints, and the parts those promises rest on. The
modules are translated from the Rust source under `src/`; `PROJECT.json` maps
every definition to the lines it stands for.

    tlc -workers 2 -config Firmware.cfg Firmware       # model-check one run
    tlapm FirmwareProofs.tla                           # check the proofs

## 1. The system

A device with one button, a DS3231 clock chip on I2C with its own coin cell, a
serial console and no persistent storage. One loop, no threads: what makes it
hard is not concurrency inside the program but time, power and a chip that lives
its own life.

| component | state | operations | modules |
|---|---|---|---|
| cooldown (`cooldown.rs`) | `last_ms: Option<u64>` | `check`, `record`, `gate` | `Cooldown`, `CooldownClient`, `RateLimiter`, `CooldownProofs` |
| debounced button (`button.rs`, twice) | `pressed`, `last_change_ms` | `new`, `update`/`poll` | `Debounce`, `Trigger`, `TriggerProofs` |
| clock codec (`clock.rs`) | none | `decode_time`, `to_registers`, `unix_ms`, `read_civil_time` | `CivilTime`, `Calendar`, `CalendarProofs` |
| clock protocol (`clock.rs`, firmware `clock.rs`) | the chip's registers | `RegisterWrite`, `read_clock_civil`, `set_clock`, `remedy` | `RegisterWrite`, `Ds3231`, `Ds3231Proofs` |
| firmware loop (`main.rs`) | `COUNTER`, the loop's locals | boot, poll, read, gate, attest | `Firmware`, `AttestationLedger`, `FirmwareProofs` |
| attestation (`lib.rs`) | the caller's seed buffer | `Attestation::create` | `Attestation`, `Emission` |
| entropy source (`entropy.rs`) | who owns the peripherals | `new`, `entropy`, `read`, `trng_available` | `Emission`, `Console` |
| emission policy (`emission.rs`) | none (`Policy` is a parameter) | `emit`, `frame` | `Emission`, `EmissionProofs` |
| verifier (`verify-attestation`) | none | `check_gate`, `parse_log`, `check_payload_len`, `verify`, `main` | `VerifyAttestation`, `Console`, `ConsoleProofs` |
| power budget (`power.rs`) | three figures with their provenance | `survival_days`, `meets_target`, `permissible_standby_ua` | `PowerBudget`, `PowerBudgetProofs` |
| auth, sleep bench, build script and vectors | | | not modelled, section 8 |

How they interact. The loop samples `uptime_ms()` once a pass and hands it to
both the button and, several milliseconds to two bus timeouts later, the
cooldown. On an accepted press it makes two bus transactions (status, then time
registers); any failure ends the pass. Only then is the cooldown gated, and only
after that is a key drawn, the counter incremented, the payload signed and
printed. The clock chip is shared with whoever sets it on the bench. A power
loss at any instruction clears RAM: counter, cooldown and debounce state start
over, while the chip and the printed log stand. The log is captured by a serial
port opened and closed at any time, and the host tool judges the capture. The
emission module waits for a transport: nothing but its tests calls it yet, and
the model calls it as they do.

What makes each correct:

- *cooldown*: over any sequence of calls no two grants of a running clock fall in
  one interval; the wait it answers is exact; a refusal costs nothing; a clock
  that steps back can not latch it shut.
- *button*: no press is invented by bounce or by being held at boot; a held
  level is seen; every deliberate press is reported once.
- *codec*: encoding and decoding agree with the calendar and with the chip; a
  dump that is believed is the canonical dump of a real date.
- *clock protocol*: the stop flag is an honest record through crashes; a read
  returns a time that was true during the read; an absent part is not believed;
  nothing but time is ever stored; the advice given leads back to a working clock,
  unless the part answers with bytes that are no digits (section 4).
- *firmware*: the printed log, all power cycles together, is a ledger (section
  2); a cooldown is spent on nothing but attestations; the loop always returns.
- *attestation, entropy, emission*: a seed signs once and is gone, whether or not
  the signature came about; two attestations make two frames and one makes one;
  a frame reads back as what was attested, and tells nothing of the device, nor
  anything by its length.
- *verifier*: what it accepts the device made, as one attestation; a capture whose
  first attestation is whole is accepted; the gate it reports is that of the
  attestation's boot.
- *power*: the closed forms say what the battery does.

## 2. Modules

- **`RateLimiter`** is what a rate limiter promises, over the set of all grants
  ever given. **`Cooldown`** is the code: operators over the one variable
  `last_ms`, with the three ways `check` finds nothing to wait for, and `gate`
  as two actions, one per result. **`CooldownClient`** calls them in any order on
  a clock that advances and may at any time be set back; `granted` are the grants
  since it last was, `before` those of earlier clocks. It is refined against
  `RateLimiter`.
- **`Debounce`** is `Button`: `Seed` for `new`, `Update` for `update`.
  **`Trigger`** puts it between a finger, a contact that may read anything for
  `BounceMs` after each move, and a loop that samples every `PollMs` and is away
  up to `HandlerMs` longer after each reported press.
- **`CivilTime`** is the codec, as operators named after the functions. The
  checks of `decode_time`, `bcd_field` and `CivilTime::new` are one sequence in
  the order the code makes them; the first that fails decides the error.
  Milliseconds are kept as a day and a second of the day.
  **`Calendar`** walks the days one by one with a counted day number and the
  Gregorian rule, beside a chip that rolls its own registers with its own
  divisible-by-four rule and whose bytes may be corrupted.
- **`RegisterWrite`** is the register map and the two writes the type can build,
  and what the part does with one. **`Ds3231`** is `read_clock_civil` and
  `set_clock`, one action per bus transaction, against a chip that can stop,
  resume, lose contact, lose power, or be written by another tool between any two
  of them. Registers 0x07 to 0x12 are bytes (`regs`), the stop flag a bit of one
  of them; registers 0x00 to 0x06 are the time they show and what kind of thing
  they hold (`content`): a date, a date in 12-hour mode, an impossible one, a byte
  that is not BCD, a reserved bit. A part may power up with any of them, be left
  with any by another tool or by corruption, and be left with some by a torn write.
  An absent part reads 0xFF or 0x00, or fails.
  `remedy` decides what the holder does next. Time is one integer, and the bytes
  behind a reading are judged by `CivilTime`.
- **`Firmware`** is `main.rs`, composed of `Debounce` and `Cooldown` (by EXTENDS:
  their variables are the program's) and of the clock as the loop sees it. `pc`
  walks `off`, `boot`, `loop`, `status`, `time`, `gate`, `attest`, `delay`; each
  step takes a time from its range, and a stopped oscillator may lose any part of
  it (`lag`). `stuck` is SDA held low. History variables are `log` and
  `heldSinceBoot`; the program reads neither, and it never reads `now`.
- **`AttestationLedger`** is what the printed log promises: sessions, counters
  without gap or repeat, presses an interval apart within a session, every entry
  finished before the next was pressed, every stamp a whole second of its own
  handling. `Firmware` implements it with `session <- boot`.
- **`Attestation`** is the payload, its postcard encoding (a number is its
  base-128 digits, so that widths up to 64 bits stay exact), the padding, and
  what a signature covers. **`Emission`** is the life of a key on several
  devices: `Boot`, `NewSource` (the typestate of `entropy.rs` as a phase),
  `Draw`, `Attest` (counter, then `create` with both its returns), `Emit`, given
  either policy and as often as one likes (it borrows the attestation), and power
  losses. `AttestMany` stands for draws and attestations nobody emits, one after
  the other, and leaves the counter where they would; without it no run gets to a
  counter of two bytes. `air` is what a receiver has heard, each frame with what
  its attestation was made of (`made` and `about` keep that). **`MCEmission`** gives
  TLC its inputs and counts.
- **`VerifyAttestation`** is the host tool: a log is a sequence of lines, of
  which the tool sees one of its words and what a cut left of the value; the
  checks of `check_all` are composed in the order of the code with `??`, which is
  Rust's `?` between two checks: the first that fails is the verdict. Before them
  `main` refuses a file that is no UTF-8 or is empty. **`Console`** is what is printed
  over power cycles, line by line, cut anywhere, and a port opened anywhere, within
  a character too; every state is the end of a capture. `Alter` makes the changes
  the tool's tests make of a good log.
- **`PowerBudget`** drains a battery by hours and by presses, in any order through
  the day, and asks the closed forms all the while. The figures are whole numbers;
  a comparison with an f32 quotient is the set of answers its rounding may give
  (`AtLeast`: rounding to nearest lifts a quotient by at most one part in 2^24).
- **`CooldownProofs`**, **`TriggerProofs`**, **`CalendarProofs`**,
  **`Ds3231Proofs`**, **`FirmwareProofs`**, **`EmissionProofs`**,
  **`ConsoleProofs`** and **`PowerBudgetProofs`** hold the theorems of the module
  each is named after.

In every module the operators commented "Mutant" are plausible bugs. No action
uses them; `PROJECT.json` names the property each of them breaks.

## 3. Runs

| run | bounds | what it shows |
|---|---|---|
| `cooldown` | interval 3, clock to 9, set back at will | grants spaced, waits exact, no refusal outlasts its grant, refines `RateLimiter` |
| `trigger` | units of 25 ms: lockout 2, bounce 2, away 2, four moves, 27 units: time to hold every level | no invented press; a held level is seen; every deliberate press reported once |
| `firmware` | two power cycles, interval 6, handling at most 3, a second of 2, passes begin before 9 (1.6 million states) | ledger, stamps, cooldown, held trigger, spacing of signatures within and across power cycles, the loop returns |
| `firmware_spacing` | one power cycle, interval 4 | *violation*: the interval is not between attestations |
| `calendar` | every day 2000 to 2199, first and last second; around the two Februaries any byte to anything and a second one to three boundary values | day numbers; a part once set reads true; what is believed is canonical and a date |
| `calendar_2100` | 2099 to 2101 | *violation*: one day out after 2100-02-28 |
| `clock_protocol` | 4 ticks, transactions of 0 or 1, any 2 faults after a start that is itself stopped, absent or both | flag honest, reads fresh, absence not believed, nothing else stored, the advice heals unless the part is misjudged |
| `clock_absent` | no faults needed | *violation*: absence is not always "service" |
| `verifier` | 2 power cycles, 3 attestations | only what was made is accepted; a first attestation that is whole is; the gate is that of the boot; acceptance stands |
| `verifier_gate` | 2 power cycles, 1 attestation | *violation*: the gate lines of one boot vouch for another |
| `emission` | 2 devices (symmetric), 6 bytes of payload, a counter of 2^14 that may jump to its last value, 4 draws, 2 events with times of two bytes and of one | no seed outlives its signature; frames differ exactly when attestations do, are equally long, read back as what was attested, and carry no mark |
| `power` | 0 or 1 mAh, currents around whole numbers of days, up to 8 days | the prediction is the battery; the permissible current and the target agree on whole currents |

Why the bounds are enough. The cooldown and the debouncer compare differences of
times with one constant, so what matters is every order of the events and every
difference around the constant: clocks run to several times each constant. A
firmware run of two power cycles has every pair of sessions, up to two
attestations in one of them, and every fault between any two steps; three
attestations differ from two only in ways the proofs cover. The scaled constants
keep the order of the real ones where it matters (poll below lockout, handling
below the interval). The calendar is not bounded at all. `clock_protocol` starts
from the states faults lead to, so its two faults come on top of those. In
`emission` the counter takes one byte, then two, and wraps; with two bytes of it one
of the two payloads no longer fits; and four draws give two devices two frames each,
from which repetition can be told. Wider times and counters are left to the proofs,
which have them all. `AttestMany` adds no state that draws and attestations could
not reach: it only leaves their draws uncounted, which `MaxDraws` would forbid, and
no property speaks of how many there were. `verifier` needs two attestations of one boot
and one of another to mix fields, and two boots to mix gates. TLC's integers are
32 bits wide, which is why Unix milliseconds stay split and the varints are
digits.

Where time, presses or draws stop, it is a bound: a pass or a boot begins only
before `MaxNow` and then runs to its end; hence `CHECK_DEADLOCK FALSE` in those
configurations.

**Fairness.** Two runs need it. `firmware` assumes that the CPU runs
(`WF_vars(Program)`, the program as a whole): the loop has no blocking call but
the bus transactions, and those end by the software timeout. Nothing is assumed
of power, coin cell or line; the line may stay low forever. `clock_protocol`
assumes that every transaction ends, by itself or by its timeout
(`WF_vars(Driver)`), and that the holder does what the advice says
(`WF_vars(ReplaceCell)`, `WF_vars(Service)`): `AdviceHeals` is about a holder who
does. Faults are finite in number (`MaxFaults`), as they must be for anything to
heal. All other properties are safety.

## 4. Where code and documentation disagree

1. `clock.rs:75-78` promises that the chip's 2100 leap day surfaces as a rejection
   and never as "a date one day out for the rest of the century". The single
   dump 2100-02-29 is rejected; from the next midnight on the chip holds a valid
   date, one day behind, which is believed (`calendar_2100`).
2. `clock.rs:301-304` says an absent part shows as `NotBcd` or `ReservedBitSet`
   and so is a matter for service. The stop flag is looked at first: a floating
   0xFF status byte has it set, the holder is told to replace the cell; a bus
   that reads 0x00 is told to set the clock (`clock_absent`). No reading is
   believed either way (`AbsentNeverBelieved`).
3. `cooldown.rs:3` and `:89` put the interval between attestations and the record
   right after signing. The loop gates with the uptime of the top of the pass,
   before two bus transactions and the signature, so two signatures can be closer
   than the interval by the handling time (`firmware_spacing`); they are never
   closer than that (`MadeSpaced`, proved).
4. `tools/verify-attestation/src/lib.rs:9` says the tool checks that the gate was
   demonstrated at boot, and `main` prints so. The tool looks at the first line of
   each kind in the whole capture: one that begins in the middle of a boot, after
   that boot's `UNEXPECTED` line, takes its gate lines from the boot that follows
   and vouches for an attestation of the boot before (`verifier_gate`). A capture
   that begins at a power-on is sound (`GateOfItsBoot`).

Smaller things met on the way, without a run:

- `lib.rs:95` still introduces `timestamp_ms` as milliseconds since boot, then
  says v2 changes it, and the code has.
- `main.rs:141` calls the poll interval short enough that no press is slept
  through, while the loop is away longer than the debounce window when a press is
  being handled (`Trigger` takes that as `HandlerMs`).
- `power.rs:122` calls the result of `permissible_standby_ua` the highest current
  that still meets the target. It is rounded to an f32 and may be the one above:
  117 mAh, 31 days and no attestations give 157.25807, at which `survival_days` is
  30.999998. On whole currents the two agree (`WholeCurrentsAgree`).
- `clock.rs:303` sends a `NotBcd` or `ReservedBitSet` to service, as the signature
  of an absent part. A part that is there and holds such bytes behind a clear flag
  (another tool's write, corruption, a torn write over them) gets the same answer,
  a repair of the bus does not change its registers, and the advice repeats itself
  although a `set_clock` would have helped. `AdviceHeals` names that state
  (`Misjudged`); from every other one the holder gets back to a clock that reads. A
  part that powers up with such bytes has its flag raised and is set.
- The tool takes each value from the first line with its label, so a capture whose
  first attestation the power cut is refused although a whole one follows. Nothing
  in `verify-attestation` promises otherwise; `GenuineAccepted` says so and leaves
  it out.
- `permissible_standby_ua` answers 0 both when the attestations use the battery
  up exactly, where a current of 0 does meet the target, and when they exceed it,
  where none does. `WholeCurrentsAgree` leaves out the second case.
- `verify-attestation/src/main.rs:35` counts the trailing zero bytes of the
  payload as padding. A payload whose counter is 0 ends in a zero byte of its
  own, so the first attestation of every power cycle is reported one byte short.
  Nothing depends on the number.

## 5. Proofs

Every safety property that a passing run checks is a theorem here, for every value
of the constants under the named assumptions: `IntervalMs`, `DebounceMs`,
`TimeoutMs`, `SignMs`, `PayloadLen` and the bounds are natural numbers, `SecondMs`
and the poll interval of `Trigger` are positive, `CounterMod` is at most 2^32, the
capacities are at most 16777 mAh and `Never` is not an integer. The bounds (`MaxNow`, `MaxBoots`, `MaxDraws`,
`MaxFaults`, `MaxMoves`, `MaxPresses`, `MaxDays`) appear as guards only, so the
theorems hold for runs of any length up to any bound.

Each proof module has the same shape: the invariant as a conjunction of named
parts, operators' lemmas, one lemma per action, `Inductive`, then the theorems.
Every invariant was an invariant of the run of its module before it was proved.

**`CooldownProofs`**: `TypeCorrect`, `Spaced`, `ExactWait`, `Implements`,
`NotLatched`. None of the properties is inductive: `GrantsSpaced` speaks of all
grants while the code compares with one. The invariant `IInv` adds that the
recorded timestamp is the latest grant of a running clock, or one of an earlier
clock, and that a refusal was owed to such a grant. A clock set back is covered:
the recorded timestamp may then lie in the future, and `check` treats that as
nothing to wait for.

**`TriggerProofs`**: `TypeCorrect`, `HeldSeen`, and, for `BounceMs <= DebounceMs`
(`BounceAbsorbed`), `NothingInvented` and `EachReportedOnce`. The hypothesis is the
one `button.rs:13` states, that a bounce shorter than the window is absorbed;
without it the last two are false, and the run satisfies it with equality. `HeldSeen`
needs no such hypothesis: a button with a worse bounce reports too much, but never
latches. Its invariant `Unseen` dates the last accepted change when the debounced
level is not the finger's; `PressInHand` and `Balanced` then count a press as
reported exactly when the level has caught up with it, `Open` being the states in
which a bounce can still move the level.

**`CalendarProofs`**: `TypeCorrect`, `EveryDayItsNumber`, `SetPartKeepsTime`,
`NoBitDropped`, `BelievedExists`, for every year from 2000 to 2199, every second
and every dump of seven bytes. Most of it is about operators: a byte is BCD exactly
when `to_bcd` gives it back, so each field of a believed dump is determined
(`Canonical`), encoding a date and decoding it returns it (`EncodesTrue`),
`days_from_civil` of the next date is one more (`NextDayNumber`), the part's
rule and the calendar's agree except across 2100-02-28 (`RulesAgree`). On top of
these the invariant says that the date is one (`Ranged`), that the days counted one
by one are `days_from_civil` (`Numbered`), that uncorrupted registers are the
encoding of a date the part can roll from (`Rolling`) and that it is the true one
until the part has crossed that February (`InStep`).

**`Ds3231Proofs`**: `TypeCorrect`, `FlagHonest`, `ReadFresh`, `AbsentRefused`,
`TimeOnly`. `FlagVouches` is the promise of the flag; it is inductive only with
what the chip remembers of a stop during a call (`StopIsNoted`), with what a status
byte without the flag vouches for between the two transactions of a read
(`StatusVouches`), and with the two values the status register can have
(`Untouched`). That a bus nobody drives is not believed is a lemma about
`decode_time` on the bytes it reads. Of the bus, it is assumed that a transaction
takes a natural number of units, at most `Timeout`.

**`FirmwareProofs`**: `TypeCorrect`, `CooldownOwed`, `HeldSilent`, `StampsInOrder`,
`SignaturesSpaced`, `RestartsSpaced`, `Implements`. The invariant follows a press
through the pass: how late each `pc` can be (`InTime`), which entries its session
has (`Numbered`), that all of them ended before it was sampled (`LogIsPast`), that
the recorded cooldown is at least as late as every press of the session and the
press being signed has waited for all (`CooldownCovers`), and that a status byte
without the flag vouches for the registers read after it (`FlagVouches`: a clear
flag means no lag; a stop between the two transactions loses at most what passed
since). `StampsInOrder` then needs only that rounding down to a second is
monotone. `RestartsSpaced` adds `Restarts`: what an earlier power cycle signed was
signed before this one began, and no press of this one was sampled within a
debounce window of its start. The refinement maps `PowerOn` to `Restart`,
`Attest` to `Issue`, and everything else to a stutter.

**`EmissionProofs`**: `TypeCorrect`, `Forgotten`, `Distinct`, `NoMark`, `Uniform`.
That a new frame differs from all on the air depends on where its key has been
since it was drawn: in one buffer (`SeedsApart`), then in one attestation and in no
buffer (`Spent`). `Known` is what a device has put on the air and what it may yet,
so that an emission, or the next of the same attestation, adds nothing to it; over
it `Told` says that a key and an attestation determine each other and the frame, and
`Origins` that the frame is that of the payload the history names. `Distinct` is
`Told`. The counter plays no part in it: frames stay distinct when it wraps, because
keys do. For `Uniform`, `CounterDigits` shows that the digits of any u32 stand for
it, and `VarintBack` to `ReadBack` that postcard's encoding reads back, at any width
of the time and of the counter. `NoMark` follows because frames that say the same
differ in key and signature alone and those never repeat. `InputAssumption` says
that an event is a press of one byte or unknown and a time the digits of a number,
which is what the types of `lib.rs` allow.

**`ConsoleProofs`**: `TypeCorrect`, `OneAttestation`, `GateDemonstratedFromPowerOn`,
`GenuineLogs`, `AcceptanceIsKept`. Lemmas turn the tool's chain of checks into two
conditions on a log (`GateHolds`, `ValuesHold`). The invariant says where the lines
of a capture come from (`LinesPrinted`: each labelled value is one of the device, or
no key at all after an alteration), that attestations are told apart by their keys
(`Numbered`), which gates a boot can have printed before it attests (`GatesInOrder`),
and, for a capture from a power-on, that it contains the gate report of every boot
in it (`Heralded`) and no other (`Clean`), that a boot which attests has shown its
gate and in order (`Opens`, `Paired`), and that a signature stands behind the whole
payload and key of its own attestation (`Grouped`). The first three labelled lines
are then one attestation's (`ShownFirst`), whichever boots were cut before.
`OneAttestation` then rests on the signature alone: three values from three
attestations can not fit together. `AcceptanceIsKept` is an action property: the
first line of a kind stays the first when lines are added behind it.

**`PowerBudgetProofs`**: `SurvivalIsTheBattery`, `BenchNumberDecides`. The invariant
`Accounted` is the balance of the battery: its capacity is what is left and what
days, hours and presses have cost. The rest is multiplying out, and that rounding
changes no answer: a whole number below 2^24 that falls short of another falls short
by more than rounding lifts (`NotLifted`), and a battery of up to 16777 mAh holds
less than 2^24 microamp-hours.

Only model-checked: the liveness properties `LoopReturns` and `AdviceHeals`, which
need fairness and ENABLED and are out of the prover's reach, and the four
disagreements of section 4, which are counterexamples. Induction is out of
reach as well: the library's induction theorems take an operator, which no installed
prover can instantiate. Where a smallest element is needed (the first check that
fails, the first line of a kind), it comes from `WFMin` on the natural numbers
instead, and no operator of a proved module is recursive.

## 6. Abstractions worth knowing

- The firmware's clock is the chip's behaviour reduced to `osf` and `lag`; the
  torn or disturbed `set_clock`, which leaves a wrong date behind a clear flag, is
  in `Ds3231` (`hidden` names exactly those windows, and `FlagIsHonest` excludes
  them because nothing on the chip tells them apart). In `Firmware` the chip is
  set correctly or flagged (`Serviced`). No program in the repository calls
  `set_clock`; it is for a bench tool.
- A status byte that no part sent is indistinguishable from one that a part did.
  `heard` and `garbled` name the two consequences: a read whose status byte was a
  floating 0x00 and whose time registers came from the part, and an
  acknowledgement that writes such a byte back. `ReadIsFresh` and
  `NothingElseStored` exclude just these.
- An oscillator that stops while the board is powered freezes the registers; one
  that stops with the board off may also lose them.
- In `Firmware` the counter does not wrap (2^32 attestations of one power cycle)
  and `Attestation::create` does not fail, because a `ButtonPress` payload always
  fits. Both happen in `Emission`.
- In `Firmware`, signing, key draw and print are one step that takes up to
  `SignMs`: they share no state that survives a power loss. A print cut short is
  in `Console`.
- True random bytes never repeat: a drawn seed is the number of its draw. Ed25519
  is abstract: a public key stands for its seed, a signature for the key and the
  bytes it covers, and nobody else makes one.
- On the console a value is the bytes it stands for and what a cut left of it
  (`Remains`); the tool's words all stand at the beginning of their lines.
- The `f32` figures of `power.rs` are whole numbers, and so the products and
  differences exact below 2^24; above it a product is beyond the battery anyway. The
  quotients round, and every answer the rounding may give is considered. Figures
  with a fraction are not modelled.
- The status bits beside the stop flag change only when something writes them: an
  alarm flag that the part raises between the status read and the acknowledgement,
  and the acknowledgement then clears, is not in `Ds3231`. The firmware has no
  alarms.

## 7. Plan

Done: all the modules of section 2, and every safety property and refinement that
a run checks, proved.

Next, in this order:

1. That the firmware's reduced clock (`osf`, `lag`, `stuck`) is implemented by the
   clock protocol of `Ds3231`, checked first and then proved.
2. The ledger's own consequences as theorems of `AttestationLedger`: counters
   without gap, stamps in order, and from there the firmware's by refinement.
3. That the limiter's window over all grants bounds the number of grants in any
   span of time.

## 8. Not modelled

- `auth.rs`: documentation only; the rule it states, that nothing emitted may tell
  the device, is `NoDeviceMark`. `sleep_bench.rs`: a straight line into deep
  sleep, which is a `PowerLoss`. `build.rs`, `kat.rs`: build and test vectors.
- `is_fully_measured` and the provenance tags of the power budget: a conjunction of
  two tags that nothing else reads.
- The wording of errors and boot lines, the causes a refusal prints, and the
  formatting of times (`IsoTime`, `Display`): no property is about them.
- `EntropySource`'s `Drop`: `main` keeps the source until the power goes.
- The tokens and beacons of the design documents have no code.
