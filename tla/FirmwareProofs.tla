----------------------------- MODULE FirmwareProofs ----------------------------
(***************************************************************************)
(* The firmware proved for every interval, timeout and length of run: its  *)
(* types, the cooldown that is never spent on a refusal, the silence of a  *)
(* trigger held at boot, the order of the timestamps, the spacing of the   *)
(* signatures, and the attestation ledger it implements.                   *)
(***************************************************************************)
EXTENDS Firmware, TLAPS

Handling == {"status", "time", "gate", "attest"}

\* How far the pass under way can have come since its sample.
InTime == /\ pc # "off" => polled <= now
          /\ pc = "status" => now = polled
          /\ pc = "time" => now <= polled + TimeoutMs
          /\ pc \in {"gate", "attest"} => now <= polled + 2 * TimeoutMs

\* The entries of this power cycle are numbered from 0 to the counter.
Numbered == /\ \A e \in log : e.session <= boot
            /\ pc # "off" => /\ boot >= 1
                             /\ \A e \in ThisBoot : e.counter < counter
                             /\ \A n \in 0 .. counter - 1 : \E e \in ThisBoot : e.counter = n

\* Every entry is the outcome of one pass, finished before anything that follows.
LogIsPast == /\ \A e \in log : e.made <= now
             /\ pc \in Handling => \A e \in log : e.made <= polled
             /\ \A e, f \in log : e = f \/ e.made <= f.polled \/ f.made <= e.polled
EntriesAreHonest == \A e \in log : /\ e.made - e.polled \in 0..HandlingMs
                                   /\ \E t \in e.polled..e.made : e.stamp = Second(t)
PolledSpaced == \A e, f \in log : e.session = f.session /\ e.counter < f.counter
                                      => f.polled - e.polled >= IntervalMs

\* The recorded cooldown covers every press of this power cycle, and the press
\* being signed has waited for all of them.
CooldownCovers ==
    /\ pc = "boot" => last_ms = Never
    /\ pc # "off" /\ last_ms = Never => ThisBoot = {}
    /\ pc # "off" /\ last_ms # Never
          => /\ last_ms <= uptime
             /\ \A e \in ThisBoot : e.polled <= bootAt + last_ms
    /\ pc = "attest" => /\ last_ms = uptime
                        /\ \A e \in ThisBoot : polled - e.polled >= IntervalMs

\* What the flag vouches for, and the second a press is stamped with.
FlagVouches == /\ ~ osf => lag = 0
               /\ pc = "time" /\ ~ stopSeen => polled <= now - lag
               /\ pc \in {"gate", "attest"} => \E t \in polled..now : stamp = Second(t)

\* A trigger held since boot is debounced as pressed, and no press was reported.
HeldIsPressed == pc # "off" /\ heldSinceBoot
                    => /\ ThisBoot = {}
                       /\ pc \notin Handling
                       /\ pc # "boot" => pressed

Log == EntriesAreHonest /\ PolledSpaced

IInv == /\ TypeOK /\ InTime /\ Numbered /\ LogIsPast /\ Log
        /\ CooldownCovers /\ CooldownIsOwed /\ FlagVouches /\ HeldIsPressed

USE DebounceAssumption, IntervalAssumption, NeverAssumption, FirmwareAssumption

LEMMA SecondBelow == \A t \in Nat : Second(t) \in 0..t
  BY DEF Second

LEMMA SecondMonotone == \A t, u \in Nat : t <= u => Second(t) <= Second(u)
  BY DEF Second

LEMMA InitIInv == Init => IInv
<1> SUFFICES ASSUME Init PROVE IInv
  OBVIOUS
<1>1. TypeOK
  <2>1. TimesTyped /\ PlaceTyped /\ LogTyped
    BY DEF Init, TimesTyped, PlaceTyped, LogTyped
  <2>2. FlagsTyped
    BY DEF Init, FlagsTyped
  <2> QED BY <2>1, <2>2 DEF TypeOK
<1>2. InTime /\ Numbered /\ LogIsPast /\ Log
  BY DEF Init, InTime, Numbered, LogIsPast, Log, EntriesAreHonest, PolledSpaced, Handling
<1>3. CooldownCovers /\ CooldownIsOwed /\ FlagVouches /\ HeldIsPressed
  BY DEF Init, CooldownCovers, CooldownIsOwed, FlagVouches, HeldIsPressed
<1> QED BY <1>1, <1>2, <1>3 DEF IInv

\* What happens outside the program: power, coin cell and line touch no variable
\* of a pass, and the clock only between passes or with the flag raised.
LEMMA WorldKeeps ==
    IInv /\ (PowerLoss \/ Unpowered \/ OscillatorStops \/ Serviced \/ LineMoves \/ UNCHANGED vars)
        => IInv'
<1> SUFFICES ASSUME IInv, PowerLoss \/ Unpowered \/ OscillatorStops \/ Serviced \/ LineMoves
                                    \/ UNCHANGED vars
             PROVE  IInv'
  OBVIOUS
<1> USE DEF IInv, PowerLoss, Unpowered, OscillatorStops, Serviced, LineMoves, Elapse,
            ram, locals, chip, vars, polled
<1>1. TypeOK'
  <2>1. TimesTyped'
    BY DEF TypeOK, TimesTyped
  <2>2. PlaceTyped'
    BY DEF TypeOK, TimesTyped, PlaceTyped
  <2>3. FlagsTyped'
    BY DEF TypeOK, FlagsTyped
  <2>4. LogTyped'
    BY DEF TypeOK, TimesTyped, LogTyped
  <2> QED BY <2>1, <2>2, <2>3, <2>4 DEF TypeOK
<1>2. InTime' /\ Numbered' /\ LogIsPast' /\ Log'
  BY DEF TypeOK, TimesTyped, PlaceTyped, LogTyped, InTime, Numbered, LogIsPast, Log, EntriesAreHonest, PolledSpaced,
         Handling, ThisBoot
<1>3. CooldownCovers' /\ CooldownIsOwed' /\ HeldIsPressed'
  BY DEF CooldownCovers, CooldownIsOwed, HeldIsPressed, Handling, ThisBoot
<1>4. FlagVouches'
  BY DEF FlagVouches
<1> QED BY <1>1, <1>2, <1>3, <1>4

LEMMA PowerOnKeeps == IInv /\ PowerOn => IInv'
<1> SUFFICES ASSUME IInv, PowerOn PROVE IInv'
  OBVIOUS
<1> USE DEF IInv, PowerOn, chip, button, polled
<1>0. ThisBoot' = {}
  <2> SUFFICES ASSUME NEW e \in log, e.session = boot + 1 PROVE FALSE
    BY DEF ThisBoot
  <2> QED BY DEF Numbered, TypeOK, PlaceTyped, LogTyped
<1>1. TypeOK'
  <2>1. TimesTyped'
    BY DEF TypeOK, TimesTyped
  <2>2. PlaceTyped'
    BY DEF TypeOK, TimesTyped, PlaceTyped
  <2>3. FlagsTyped'
    BY DEF TypeOK, FlagsTyped
  <2>4. LogTyped'
    BY DEF TypeOK, TimesTyped, LogTyped
  <2> QED BY <2>1, <2>2, <2>3, <2>4 DEF TypeOK
<1>2. InTime' /\ LogIsPast' /\ Log'
  BY DEF TypeOK, TimesTyped, PlaceTyped, LogTyped, InTime, LogIsPast, Log, EntriesAreHonest, PolledSpaced, Handling
<1>3. Numbered'
  BY <1>0 DEF TypeOK, PlaceTyped, LogTyped, Numbered
<1>4. CooldownCovers' /\ CooldownIsOwed' /\ FlagVouches' /\ HeldIsPressed'
  BY <1>0 DEF CooldownCovers, CooldownIsOwed, FlagVouches, HeldIsPressed, Handling
<1> QED BY <1>1, <1>2, <1>3, <1>4

LEMMA StartKeeps ==
    ASSUME IInv, NEW level \in BOOLEAN, NEW d \in 0..2 * TimeoutMs, Start(level, d) PROVE IInv'
<1> USE DEF IInv, Start, Elapse, Seed, Goto, locals, polled
<1>1. TypeOK'
  <2>1. TimesTyped'
    BY DEF TypeOK, TimesTyped
  <2>2. PlaceTyped'
    BY DEF TypeOK, TimesTyped, PlaceTyped
  <2>3. FlagsTyped'
    BY DEF TypeOK, FlagsTyped
  <2>4. LogTyped'
    BY DEF TypeOK, TimesTyped, LogTyped
  <2> QED BY <2>1, <2>2, <2>3, <2>4 DEF TypeOK
<1>2. InTime'
  BY DEF TypeOK, TimesTyped, InTime
<1>3. Numbered' /\ LogIsPast' /\ Log'
  BY DEF TypeOK, TimesTyped, LogTyped, InTime, Numbered, LogIsPast, Log,
         EntriesAreHonest, PolledSpaced, Handling, ThisBoot
<1>4. CooldownCovers' /\ CooldownIsOwed' /\ HeldIsPressed'
  BY DEF TypeOK, TimesTyped, InTime, CooldownCovers, CooldownIsOwed, HeldIsPressed,
         Handling, ThisBoot
<1>5. FlagVouches'
  BY DEF TypeOK, TimesTyped, InTime, FlagVouches
<1> QED BY <1>1, <1>2, <1>3, <1>4, <1>5

LEMMA SampleKeeps ==
    ASSUME IInv, NEW raw \in BOOLEAN, Sample(raw) PROVE IInv'
<1> USE DEF IInv, Sample, Update, button, Goto, locals, chip, polled
<1>1. TypeOK'
  <2>1. TimesTyped'
    BY DEF TypeOK, TimesTyped
  <2>2. PlaceTyped'
    BY DEF TypeOK, TimesTyped, PlaceTyped
  <2>3. FlagsTyped'
    BY DEF TypeOK, FlagsTyped
  <2>4. LogTyped'
    BY DEF TypeOK, TimesTyped, LogTyped
  <2> QED BY <2>1, <2>2, <2>3, <2>4 DEF TypeOK
<1>2. InTime'
  BY DEF TypeOK, TimesTyped, InTime
<1>3. Numbered' /\ LogIsPast' /\ Log'
  BY DEF TypeOK, TimesTyped, LogTyped, InTime, Numbered, LogIsPast, Log,
         EntriesAreHonest, PolledSpaced, Handling, ThisBoot
<1>4. CooldownCovers' /\ CooldownIsOwed' /\ HeldIsPressed'
  <2>1. ThisBoot' = ThisBoot
    BY DEF ThisBoot
  <2>2. uptime <= uptime'
    BY DEF TypeOK, TimesTyped, InTime
  <2>3. CooldownCovers'
    BY <2>1, <2>2 DEF TypeOK, TimesTyped, CooldownCovers
  <2>4. CooldownIsOwed'
    BY <2>1 DEF CooldownIsOwed
  <2>5. HeldIsPressed'
    BY <2>1 DEF HeldIsPressed, Handling, Accepts, TypeOK, FlagsTyped
  <2> QED BY <2>3, <2>4, <2>5
<1>5. FlagVouches'
  BY DEF TypeOK, TimesTyped, InTime, FlagVouches
<1> QED BY <1>1, <1>2, <1>3, <1>4, <1>5

LEMMA ReadStatusKeeps ==
    ASSUME IInv, NEW d \in 0..TimeoutMs, ReadStatus(d) PROVE IInv'
<1> USE DEF IInv, ReadStatus, Elapse, Goto, polled
<1>1. TypeOK'
  <2>1. TimesTyped'
    BY DEF TypeOK, TimesTyped
  <2>2. PlaceTyped'
    BY DEF TypeOK, TimesTyped, PlaceTyped
  <2>3. FlagsTyped'
    BY DEF TypeOK, FlagsTyped
  <2>4. LogTyped'
    BY DEF TypeOK, TimesTyped, LogTyped
  <2> QED BY <2>1, <2>2, <2>3, <2>4 DEF TypeOK
<1>2. InTime'
  BY DEF TypeOK, TimesTyped, InTime
<1>3. Numbered' /\ LogIsPast' /\ Log'
  BY DEF TypeOK, TimesTyped, LogTyped, InTime, Numbered, LogIsPast, Log,
         EntriesAreHonest, PolledSpaced, Handling, ThisBoot
<1>4. CooldownCovers' /\ CooldownIsOwed' /\ HeldIsPressed'
  BY DEF TypeOK, TimesTyped, InTime, CooldownCovers, CooldownIsOwed, HeldIsPressed,
         Handling, ThisBoot
<1>5. FlagVouches'
  BY DEF TypeOK, TimesTyped, InTime, FlagVouches
<1> QED BY <1>1, <1>2, <1>3, <1>4, <1>5

LEMMA ReadTimeKeeps ==
    ASSUME IInv, NEW d \in 0..TimeoutMs, ReadTime(d) PROVE IInv'
<1> USE DEF IInv, ReadTime, Elapse, Goto, polled
<1>1. TypeOK'
  <2>1. TimesTyped'
    <3>1. now' \in Nat /\ lag' \in 0..now'
      BY DEF TypeOK, TimesTyped
    <3>2. stamp' \in 0..now'
      BY <3>1, SecondBelow DEF TypeOK, TimesTyped
    <3> QED BY <3>1, <3>2 DEF TypeOK, TimesTyped
  <2>2. PlaceTyped'
    BY DEF TypeOK, TimesTyped, PlaceTyped
  <2>3. FlagsTyped'
    BY DEF TypeOK, FlagsTyped
  <2>4. LogTyped'
    BY DEF TypeOK, TimesTyped, LogTyped
  <2> QED BY <2>1, <2>2, <2>3, <2>4 DEF TypeOK
<1>2. InTime'
  BY DEF TypeOK, TimesTyped, InTime
<1>3. Numbered' /\ LogIsPast' /\ Log'
  BY DEF TypeOK, TimesTyped, LogTyped, InTime, Numbered, LogIsPast, Log,
         EntriesAreHonest, PolledSpaced, Handling, ThisBoot
<1>4. CooldownCovers' /\ CooldownIsOwed' /\ HeldIsPressed'
  BY DEF TypeOK, TimesTyped, InTime, CooldownCovers, CooldownIsOwed, HeldIsPressed,
         Handling, ThisBoot
<1>5. FlagVouches'
  BY DEF TypeOK, TimesTyped, InTime, FlagVouches
<1> QED BY <1>1, <1>2, <1>3, <1>4, <1>5

LEMMA BusErrorKeeps ==
    ASSUME IInv, NEW d \in 0..TimeoutMs, BusError(d) PROVE IInv'
<1> USE DEF IInv, BusError, Elapse, Goto, ram, locals, polled
<1>1. TypeOK'
  <2>1. TimesTyped'
    BY DEF TypeOK, TimesTyped
  <2>2. PlaceTyped'
    BY DEF TypeOK, TimesTyped, PlaceTyped
  <2>3. FlagsTyped'
    BY DEF TypeOK, FlagsTyped
  <2>4. LogTyped'
    BY DEF TypeOK, TimesTyped, LogTyped
  <2> QED BY <2>1, <2>2, <2>3, <2>4 DEF TypeOK
<1>2. InTime'
  BY DEF TypeOK, TimesTyped, InTime
<1>3. Numbered' /\ LogIsPast' /\ Log'
  BY DEF TypeOK, TimesTyped, LogTyped, InTime, Numbered, LogIsPast, Log,
         EntriesAreHonest, PolledSpaced, Handling, ThisBoot
<1>4. CooldownCovers' /\ CooldownIsOwed' /\ HeldIsPressed'
  BY DEF TypeOK, TimesTyped, InTime, CooldownCovers, CooldownIsOwed, HeldIsPressed,
         Handling, ThisBoot
<1>5. FlagVouches'
  BY DEF TypeOK, TimesTyped, InTime, FlagVouches
<1> QED BY <1>1, <1>2, <1>3, <1>4, <1>5

LEMMA DelayKeeps ==
    ASSUME IInv, DelayMillis PROVE IInv'
<1> USE DEF IInv, DelayMillis, Elapse, Goto, ram, locals, polled
<1>1. TypeOK'
  <2>1. TimesTyped'
    BY DEF TypeOK, TimesTyped
  <2>2. PlaceTyped'
    BY DEF TypeOK, TimesTyped, PlaceTyped
  <2>3. FlagsTyped'
    BY DEF TypeOK, FlagsTyped
  <2>4. LogTyped'
    BY DEF TypeOK, TimesTyped, LogTyped
  <2> QED BY <2>1, <2>2, <2>3, <2>4 DEF TypeOK
<1>2. InTime'
  BY DEF TypeOK, TimesTyped, InTime
<1>3. Numbered' /\ LogIsPast' /\ Log'
  BY DEF TypeOK, TimesTyped, LogTyped, InTime, Numbered, LogIsPast, Log,
         EntriesAreHonest, PolledSpaced, Handling, ThisBoot
<1>4. CooldownCovers' /\ CooldownIsOwed' /\ HeldIsPressed'
  BY DEF TypeOK, TimesTyped, InTime, CooldownCovers, CooldownIsOwed, HeldIsPressed,
         Handling, ThisBoot
<1>5. FlagVouches'
  BY DEF TypeOK, TimesTyped, InTime, FlagVouches
<1> QED BY <1>1, <1>2, <1>3, <1>4, <1>5

LEMMA GateKeeps ==
    ASSUME IInv, Gate PROVE IInv'
<1> USE DEF IInv, Gate, GateOpens, GateRefuses, Ready, Record, Goto, chip, locals, polled
<1>1. TypeOK'
  <2>1. TimesTyped'
    BY DEF TypeOK, TimesTyped
  <2>2. PlaceTyped'
    BY DEF TypeOK, TimesTyped, PlaceTyped
  <2>3. FlagsTyped'
    BY DEF TypeOK, FlagsTyped
  <2>4. LogTyped'
    BY DEF TypeOK, TimesTyped, LogTyped
  <2> QED BY <2>1, <2>2, <2>3, <2>4 DEF TypeOK
<1>2. InTime'
  BY DEF TypeOK, TimesTyped, InTime
<1>3. Numbered' /\ LogIsPast' /\ Log'
  BY DEF TypeOK, TimesTyped, LogTyped, InTime, Numbered, LogIsPast, Log,
         EntriesAreHonest, PolledSpaced, Handling, ThisBoot
<1>4. CooldownCovers' /\ CooldownIsOwed' /\ HeldIsPressed'
  <2>1. ThisBoot' = ThisBoot
    BY DEF ThisBoot
  <2>2. CASE GateOpens(uptime)
    <3>1. \A e \in ThisBoot : polled - e.polled >= IntervalMs
      BY <2>2 DEF TypeOK, TimesTyped, LogTyped, CooldownCovers, ThisBoot
    <3>2. CooldownCovers'
      BY <2>1, <2>2, <3>1 DEF TypeOK, TimesTyped, LogTyped, CooldownCovers, ThisBoot
    <3>3. CooldownIsOwed'
      BY <2>2 DEF CooldownIsOwed
    <3> QED BY <2>1, <3>2, <3>3 DEF HeldIsPressed, Handling
  <2>3. CASE GateRefuses(uptime)
    BY <2>1, <2>3 DEF CooldownCovers, CooldownIsOwed, HeldIsPressed, Handling
  <2> QED BY <2>2, <2>3
<1>5. FlagVouches'
  BY DEF TypeOK, TimesTyped, InTime, FlagVouches
<1> QED BY <1>1, <1>2, <1>3, <1>4, <1>5

\* The attestation being made, before it is printed.
Made == [session |-> boot, counter |-> counter, stamp |-> stamp,
         polled |-> polled, made |-> now']

LEMMA MadeFields == /\ Made.session = boot
                    /\ Made.counter = counter
                    /\ Made.stamp = stamp
                    /\ Made.polled = polled
                    /\ Made.made = now'
  BY DEF Made

LEMMA MadeIsHonest ==
    ASSUME IInv, NEW d \in 0..SignMs, Attest(d)
    PROVE  /\ Made.made - Made.polled \in 0..HandlingMs
           /\ \E t \in Made.polled..Made.made : Made.stamp = Second(t)
<1> USE MadeFields DEF IInv, Attest, Elapse
<1>1. polled \in Nat /\ now' \in Nat
  BY DEF TypeOK, TimesTyped, polled
<1>2. now' - polled \in 0..HandlingMs
  BY <1>1 DEF TypeOK, TimesTyped, InTime, HandlingMs
<1>3. \E t \in polled..now' : stamp = Second(t)
  BY <1>1 DEF TypeOK, TimesTyped, FlagVouches
<1> QED BY <1>2, <1>3

LEMMA AttestKeeps ==
    ASSUME IInv, NEW d \in 0..SignMs, Attest(d) PROVE IInv'
<1> USE MadeFields DEF IInv, Attest, Elapse, Goto, locals
<1>a. /\ now' \in Nat /\ now <= now'
      /\ polled \in 0..now /\ polled' = polled
  BY DEF TypeOK, TimesTyped, InTime, polled
<1>b. log' = log \union {Made}
  BY DEF Made
<1>c. ThisBoot' = ThisBoot \union {Made}
  BY <1>b DEF ThisBoot
<1>d. Made \in [session : 1..MaxBoots, counter : Nat,
                stamp : 0..now', polled : 0..now', made : 0..now']
  BY <1>a DEF TypeOK, TimesTyped, PlaceTyped, Numbered, Made
<1>1. TypeOK'
  <2>1. TimesTyped'
    BY DEF TypeOK, TimesTyped
  <2>2. PlaceTyped'
    BY DEF TypeOK, PlaceTyped
  <2>3. FlagsTyped'
    BY DEF TypeOK, FlagsTyped
  <2>4. LogTyped'
    BY <1>a, <1>b, <1>d DEF TypeOK, TimesTyped, LogTyped
  <2> QED BY <2>1, <2>2, <2>3, <2>4 DEF TypeOK
<1>2. InTime'
  BY <1>a DEF InTime, TypeOK, TimesTyped
<1>3. Numbered'
  <2>1. \A e \in log' : e.session <= boot'
    BY <1>b DEF Numbered, TypeOK, PlaceTyped
  <2>2. boot' >= 1 /\ \A e \in ThisBoot' : e.counter < counter'
    BY <1>c DEF Numbered, TypeOK, PlaceTyped, LogTyped, ThisBoot
  <2>3. ASSUME NEW n \in 0 .. counter' - 1
        PROVE  \E e \in ThisBoot' : e.counter = n
    <3>1. CASE n = counter
      BY <3>1, <1>c
    <3>2. CASE n # counter
      BY <3>2, <1>c DEF Numbered, TypeOK, PlaceTyped
    <3> QED BY <3>1, <3>2
  <2> QED BY <2>1, <2>2, <2>3 DEF Numbered
<1>4. LogIsPast'
  <2>1. \A e \in log : e.made <= polled
    BY DEF LogIsPast, Handling
  <2>2. \A e \in log' : e.made <= now'
    BY <1>a, <1>b DEF LogIsPast, TypeOK, TimesTyped, LogTyped
  <2>3. \A e, f \in log' : e = f \/ e.made <= f.polled \/ f.made <= e.polled
    BY <2>1, <1>b DEF LogIsPast
  <2> QED BY <2>2, <2>3 DEF LogIsPast, Handling
<1>5. Log'
  <2>1. EntriesAreHonest'
    BY <1>b, MadeIsHonest DEF Log, EntriesAreHonest
  <2>2. ASSUME NEW e \in log', NEW f \in log', e.session = f.session, e.counter < f.counter
        PROVE  f.polled - e.polled >= IntervalMs
    <3>1. CASE e \in log /\ f \in log
      BY <3>1, <2>2 DEF Log, PolledSpaced
    \* No entry of this boot has a number above the new one's.
    <3>2. CASE e = Made
      <4>1. f # Made
        BY <3>2, <2>2 DEF TypeOK, PlaceTyped
      <4>2. f \in ThisBoot /\ f.counter \in Nat
        BY <4>1, <3>2, <2>2, <1>b DEF ThisBoot, TypeOK, LogTyped
      <4>3. f.counter < counter
        BY <4>2 DEF Numbered
      <4> QED BY <4>2, <4>3, <3>2, <2>2 DEF TypeOK, PlaceTyped
    \* Every press of this boot was an interval before the new one.
    <3>3. CASE f = Made /\ e \in log
      <4>1. e \in ThisBoot
        BY <3>3, <2>2 DEF ThisBoot
      <4> QED BY <4>1, <3>3 DEF CooldownCovers
    <3> QED BY <3>1, <3>2, <3>3, <1>b
  <2> QED BY <2>1, <2>2 DEF Log, PolledSpaced
<1>6. CooldownCovers'
  <2>1. last_ms' = uptime' /\ last_ms' # Never
    BY DEF CooldownCovers, TypeOK, TimesTyped
  <2>2. \A e \in ThisBoot' : e.polled <= bootAt' + last_ms'
    BY <2>1, <1>a, <1>c DEF CooldownCovers, TypeOK, TimesTyped, polled
  <2> QED BY <2>1, <2>2 DEF CooldownCovers, TypeOK, TimesTyped
<1>7. CooldownIsOwed'
  BY <1>c DEF CooldownIsOwed, CooldownCovers, polled
<1>8. FlagVouches'
  BY DEF FlagVouches
<1>9. HeldIsPressed'
  BY DEF HeldIsPressed, Handling
<1> QED BY <1>1, <1>2, <1>3, <1>4, <1>5, <1>6, <1>7, <1>8, <1>9

LEMMA NextKeeps == IInv /\ [Next]_vars => IInv'
<1> SUFFICES ASSUME IInv, [Next]_vars PROVE IInv'
  OBVIOUS
<1>1. CASE Program
  BY <1>1, SampleKeeps, StartKeeps, ReadStatusKeeps, ReadTimeKeeps, BusErrorKeeps,
     GateKeeps, AttestKeeps, DelayKeeps DEF Program
<1>2. CASE ~ Program
  BY <1>2, PowerOnKeeps, WorldKeeps DEF Next
<1> QED BY <1>1, <1>2

LEMMA Inductive == Spec => []IInv
  BY InitIInv, NextKeeps, PTL DEF Spec

\* The firmware keeps its types, and no time it holds lies in the future: not
\* the debounce window, the cooldown, or the timestamp (main.rs).
THEOREM TypeCorrect == Spec => []TypeOK
<1>1. IInv => TypeOK
  BY DEF IInv
<1> QED BY <1>1, Inductive, PTL

\* A recorded cooldown belongs to an attestation printed or being signed: no
\* refusal by the clock spends it (main.rs, the read before the gate).
THEOREM CooldownOwed == Spec => []CooldownIsOwed
<1>1. IInv => CooldownIsOwed
  BY DEF IInv
<1> QED BY <1>1, Inductive, PTL

\* A device booted with its trigger held prints nothing until it has been let
\* go (Button::new).
THEOREM HeldSilent == Spec => []HeldAtBootIsSilent
<1>1. IInv => HeldAtBootIsSilent
  BY DEF IInv, HeldIsPressed, HeldAtBootIsSilent
<1> QED BY <1>1, Inductive, PTL

\* The printed timestamps follow the order of the signatures, over all power
\* cycles and stopped oscillators (read_clock_civil before every signature).
THEOREM StampsInOrder == Spec => []StampsOrdered
<1>1. IInv => StampsOrdered
  <2> SUFFICES ASSUME IInv, NEW e \in log, NEW f \in log, e.made < f.made
               PROVE  e.stamp <= f.stamp
    BY DEF StampsOrdered
  <2> USE DEF IInv, TypeOK, TimesTyped, LogTyped
  <2>1. PICK t \in e.polled..e.made : e.stamp = Second(t)
    BY DEF Log, EntriesAreHonest
  <2>2. PICK u \in f.polled..f.made : f.stamp = Second(u)
    BY DEF Log, EntriesAreHonest
  <2>3. e.made <= f.polled
    BY <2>1, <2>2 DEF LogIsPast
  <2>4. t \in Nat /\ u \in Nat /\ t <= u
    BY <2>3
  <2> QED BY <2>1, <2>2, <2>4, SecondMonotone
<1> QED BY <1>1, Inductive, PTL

\* Signatures of one power cycle are an interval apart, less the longest time a
\* press is handled: the gate's times are, and each signature follows its own
\* by at most that (cooldown.gate(uptime), attest).
THEOREM SignaturesSpaced == Spec => []MadeSpaced
<1>1. IInv => MadeSpaced
  <2> SUFFICES ASSUME IInv, NEW e \in log, NEW f \in log,
                      e.session = f.session, e.counter < f.counter
               PROVE  f.made - e.made >= IntervalMs - HandlingMs
    BY DEF MadeSpaced
  <2> USE DEF IInv, TypeOK, TimesTyped, LogTyped
  <2>1. f.polled - e.polled >= IntervalMs
    BY DEF Log, PolledSpaced
  <2>2. f.made >= f.polled /\ e.made - e.polled <= HandlingMs
    BY DEF Log, EntriesAreHonest, HandlingMs
  <2>3. HandlingMs \in Nat
    BY DEF HandlingMs
  <2> QED BY <2>1, <2>2, <2>3
<1> QED BY <1>1, Inductive, PTL

\* What separates the power cycles: an earlier one ended before this one began,
\* and no press of this one was sampled within a debounce window of its start.
Restarts == /\ \A e \in log : e.session < boot => e.made <= bootAt
            /\ pc \in Handling => uptime >= DebounceMs
            /\ RestartSpaced

LEMMA RestartsKept == IInv /\ Restarts /\ [Next]_vars => Restarts'
<1> SUFFICES ASSUME IInv, Restarts, [Next]_vars PROVE Restarts'
  OBVIOUS
<1> USE DEF IInv, Restarts
<1>1. CASE PowerOn
  <2>1. \A e \in log : e.made <= now
    BY DEF LogIsPast
  <2> QED BY <1>1, <2>1 DEF PowerOn, Handling, RestartSpaced
<1>2. ASSUME NEW raw \in BOOLEAN, Sample(raw) PROVE Restarts'
  \* An accepted press is a window after the seed, which is no earlier than boot.
  <2>1. pc' = "status" => uptime' >= DebounceMs
    BY <1>2 DEF Sample, Update, Accepts, Locked, Elapsed, Goto, button, TypeOK, TimesTyped,
                FlagsTyped
  <2> QED BY <1>2, <2>1 DEF Sample, Goto, Handling, RestartSpaced
<1>3. ASSUME NEW d \in 0..SignMs, Attest(d) PROVE Restarts'
  <2> USE MadeFields
  <2>1. log' = log \union {Made} /\ boot' = boot /\ bootAt' = bootAt /\ pc' = "delay"
    BY <1>3 DEF Attest, Made, Goto
  <2>2. polled >= bootAt + DebounceMs
    BY <1>3 DEF Attest, Handling, polled, TypeOK, TimesTyped
  <2>3. \A e \in log : e.session <= boot /\ e.made \in Nat /\ e.session \in Nat
    BY DEF Numbered, TypeOK, LogTyped, TimesTyped
  <2>4. \A e \in log' : e.session < boot' => e.made <= bootAt'
    BY <2>1 DEF TypeOK, PlaceTyped
  <2>5. ASSUME NEW e \in log', NEW f \in log', e.session < f.session
        PROVE  f.polled - e.made >= DebounceMs
    <3>1. e # Made
      BY <2>1, <2>3, <2>5 DEF TypeOK, PlaceTyped
    <3>2. CASE f = Made
      <4>1. e \in log /\ e.session < boot
        BY <2>1, <2>5, <3>1, <3>2
      <4>2. e.made <= bootAt
        BY <4>1
      <4> QED BY <2>2, <2>3, <3>2, <4>1, <4>2 DEF TypeOK, TimesTyped, polled
    <3>3. CASE f # Made
      BY <2>1, <2>5, <3>1, <3>3 DEF RestartSpaced
    <3> QED BY <3>2, <3>3
  <2> QED BY <2>1, <2>4, <2>5 DEF Handling, RestartSpaced
<1>4. CASE /\ UNCHANGED <<log, boot, bootAt>>
           /\ pc' \in Handling => pc \in Handling /\ UNCHANGED uptime
  BY <1>4 DEF RestartSpaced
<1>5. \/ PowerOn
      \/ \E raw \in BOOLEAN : Sample(raw)
      \/ \E d \in 0..SignMs : Attest(d)
      \/ /\ UNCHANGED <<log, boot, bootAt>>
         /\ pc' \in Handling => pc \in Handling /\ UNCHANGED uptime
  BY DEF Next, Program, Start, ReadStatus, ReadTime, BusError, Gate, DelayMillis,
         PowerLoss, Unpowered, OscillatorStops, Serviced, LineMoves, Goto, Handling, ram, vars
<1> QED BY <1>1, <1>2, <1>3, <1>4, <1>5

\* Attestations of two power cycles are a debounce window apart, at least: the
\* cooldown is erased by a restart, the seed of the debouncer is not (Button::new
\* at boot, Cooldown::new without a record).
THEOREM RestartsSpaced == Spec => []RestartSpaced
<1>1. Init => Restarts
  BY DEF Init, Restarts, RestartSpaced, Handling
<1>2. Restarts => RestartSpaced
  BY DEF Restarts
<1> QED BY <1>1, <1>2, RestartsKept, Inductive, PTL DEF Spec

\* The firmware implements the ledger: a power-on is a restart, a signature is
\* the next entry of its session, and every other step leaves the log alone.
THEOREM Implements == Spec => ImplementsLedger
<1>1. Init => Ledger!Init
  BY DEF Init, Ledger!Init
<1>2. IInv /\ [Next]_vars => [Ledger!Next]_(Ledger!vars)
  <2> SUFFICES ASSUME IInv, [Next]_vars PROVE [Ledger!Next]_(Ledger!vars)
    OBVIOUS
  <2>1. CASE PowerOn
    BY <2>1 DEF PowerOn, Ledger!Restart, Ledger!Next
  <2>2. ASSUME NEW d \in 0..SignMs, Attest(d) PROVE Ledger!Next \/ UNCHANGED Ledger!vars
    <3> USE MadeFields DEF IInv
    <3>1. log' = log \union {Made} /\ boot' = boot
      BY <2>2 DEF Attest, Made, Goto
    <3>2. Ledger!ThisSession = ThisBoot
      BY DEF Ledger!ThisSession, ThisBoot
    <3>3. {x.counter : x \in ThisBoot} = 0 .. counter - 1
      <4>1. \A x \in ThisBoot : x.counter \in 0 .. counter - 1
        BY <2>2 DEF Attest, Numbered, TypeOK, PlaceTyped, LogTyped, ThisBoot
      <4>2. \A n \in 0 .. counter - 1 : \E x \in ThisBoot : x.counter = n
        BY <2>2 DEF Attest, Numbered
      <4> QED BY <4>1, <4>2
    <3>4. \A x \in log : x.made <= polled
      BY <2>2 DEF Attest, LogIsPast, Handling
    <3>5. \A x \in ThisBoot : polled - x.polled >= IntervalMs
      BY <2>2 DEF Attest, CooldownCovers
    <3>6. /\ Made.made - Made.polled \in 0..HandlingMs
          /\ \E t \in Made.polled..Made.made : Made.stamp = Ledger!Second(t)
      BY <2>2, MadeIsHonest DEF Second, Ledger!Second
    <3>7. Ledger!Issue(Made)
      BY <3>1, <3>2, <3>3, <3>4, <3>5, <3>6 DEF Ledger!Issue
    <3>8. CASE Made \in log
      BY <3>1, <3>8 DEF Ledger!vars
    <3>9. CASE Made \notin log
      BY <3>1, <3>7, <3>9 DEF Ledger!Next
    <3> QED BY <3>8, <3>9
  <2>3. CASE UNCHANGED <<boot, log>>
    BY <2>3 DEF Ledger!vars
  <2>4. \/ PowerOn
        \/ \E d \in 0..SignMs : Attest(d)
        \/ UNCHANGED <<boot, log>>
    BY DEF Next, Program, Start, Sample, ReadStatus, ReadTime, BusError, Gate, DelayMillis,
           PowerLoss, Unpowered, OscillatorStops, Serviced, LineMoves, Goto, vars
  <2> QED BY <2>1, <2>2, <2>3, <2>4
<1> QED BY <1>1, <1>2, Inductive, PTL DEF Spec, ImplementsLedger, Ledger!Spec
================================================================================
