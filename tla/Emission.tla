-------------------------------- MODULE Emission -------------------------------
(***************************************************************************)
(* The life of a signing key: entropy.rs (the source that must be live),   *)
(* attest of main.rs (the draw and the counter), Attestation::create (the  *)
(* seed is consumed) and emission.rs (what goes on the air, if anything).  *)
(* Several devices, power cycles, and an observer who keeps every frame.   *)
(* The firmware has no transport yet: emit is called as its tests call it. *)
(***************************************************************************)
EXTENDS Attestation, FiniteSets

CONSTANTS Devices,
          Inputs,          \* what an attestation is made of: an event and a time
          CounterMod,      \* COUNTER wraps here (2^32 in the code)
          Counts,          \* what COUNTER has come to after many attestations
          MaxDraws         \* bound: draws from all entropy sources

\* What a frame may measure: D5's tier, and the narrowest transport's packet.
FRAME_LEN == 32 + 64 + PayloadLen
PADDING_TIER == 224
SINGLE_PACKET_CEILING == 255
LORA_HEADER_AND_CRC == 21

\* The two const assertions of emission.rs.
ASSUME FrameBound == /\ FRAME_LEN <= PADDING_TIER
                     /\ PADDING_TIER + LORA_HEADER_AND_CRC <= SINGLE_PACKET_CEILING

\* COUNTER is a u32, so that four bits are left for the last of five digits.
ASSUME EmissionAssumption == /\ CounterMod \in Nat \ {0} /\ MaxDraws \in Nat
                             /\ (CounterMod - 1) \div Places[5] <= 15
                             /\ Counts \subseteq 0..CounterMod - 1

Events == {i.event : i \in Inputs}
Times == {i.time : i \in Inputs}

ASSUME InputAssumption ==
    /\ Events \subseteq {ButtonPress(gpio) : gpio \in 0..255} \union {Unknown}
    /\ \A time \in Times : time \in Seq(0..127) /\ time # <<>>

VARIABLES phase,           \* per device: "off", "dark" (no source), "live", "drawn"
          seed,            \* per device: the seed buffer of attest
          counter,         \* per device: COUNTER
          held,            \* per device: the attestation create returned, as a set
          draws,           \* draws so far: true random bytes never repeat
          made,            \* history: how many attestations were begun
          about,           \* history: per device, what the one held is to say
          air              \* history: per device, the frames and what each is about

history == <<made, about, air>>
vars == <<phase, seed, counter, held, draws, history>>

Zeroized == 0
Pseudo == -1               \* what the RNG returns before it has an entropy source

Init == /\ phase = [d \in Devices |-> "off"]
        /\ seed = [d \in Devices |-> Zeroized]
        /\ counter = [d \in Devices |-> 0]
        /\ held = [d \in Devices |-> {}]
        /\ draws = 0
        /\ made = 0
        /\ about = [d \in Devices |-> <<>>]
        /\ air = [d \in Devices |-> {}]

\* Reset: no entropy source, the counter at zero.
Boot(d) == /\ phase[d] = "off"
           /\ phase' = [phase EXCEPT ![d] = "dark"]
           /\ counter' = [counter EXCEPT ![d] = 0]
           /\ UNCHANGED <<seed, held, draws, history>>

\* EntropySource::new: both peripherals are consumed, the source stays.
NewSource(d) == /\ phase[d] = "dark"
                /\ phase' = [phase EXCEPT ![d] = "live"]
                /\ UNCHANGED <<seed, counter, held, draws, history>>

\* Mutant: a Trng handle is to be had without the source it borrows from.
entropy_ungated(d) == phase[d] \in {"dark", "live"}

\* EntropySource::entropy: there is a handle only while a source is live.
entropy(d) == phase[d] = "live"

\* Entropy::read into the seed buffer of attest.
Draw(d) == /\ entropy(d)
           /\ draws < MaxDraws
           /\ draws' = draws + 1
           /\ seed' = [seed EXCEPT ![d] = IF phase[d] = "live" THEN draws' ELSE Pseudo]
           /\ phase' = [phase EXCEPT ![d] = "drawn"]
           /\ UNCHANGED <<counter, held, history>>

\* The bytes on the wire: key, signature and payload one after the other; the
\* 32 bytes of the key are one element here, and the 64 of the signature.
Frame(a) == <<a.public_key, a.signature>> \o a.signed_payload

Key(frame) == frame[1]
Signature(frame) == frame[2]
SignedPayload(frame) == SubSeq(frame, 3, Len(frame))

Frames(d) == {s.frame : s \in air[d]}

\* Mutant: the device keeps the first key it has used on the air.
CreateReusing(d, payload) ==
    LET kept == {Key(f) : f \in Frames(d)}
        key  == IF kept = {} THEN seed[d] ELSE CHOOSE k \in kept : TRUE
    IN  /\ seed' = [seed EXCEPT ![d] = Zeroized]
        /\ held' = [held EXCEPT ![d] = IF Fits(payload) THEN {Attested(key, payload)} ELSE {}]

\* Mutant: the early return on PayloadTooLong leaves the seed where it is.
CreateLeaving(d, payload) ==
    IF Fits(payload)
    THEN /\ held' = [held EXCEPT ![d] = {Attested(seed[d], payload)}]
         /\ seed' = [seed EXCEPT ![d] = Zeroized]
    ELSE UNCHANGED <<held, seed>>

\* Mutant: the seed is cleared before the key is made of it.
CreateClearingFirst(d, payload) ==
    /\ seed' = [seed EXCEPT ![d] = Zeroized]
    /\ held' = [held EXCEPT ![d] = IF Fits(payload) THEN {Attested(seed'[d], payload)} ELSE {}]

\* Mutant: the counter is cut to the first of its digits on the way in.
CreateNarrowing(d, payload) ==
    LET narrow == [payload EXCEPT !.counter = SubSeq(@, 1, 1)]
    IN  /\ seed' = [seed EXCEPT ![d] = Zeroized]
        /\ held' = [held EXCEPT ![d] = IF Fits(narrow) THEN {Attested(seed[d], narrow)} ELSE {}]

\* Attestation::create: the seed is gone when it returns, either way.
Create(d, payload) ==
    /\ seed' = [seed EXCEPT ![d] = Zeroized]
    /\ held' = [held EXCEPT ![d] = IF Fits(payload) THEN {Attested(seed[d], payload)} ELSE {}]

\* attest after its draw: COUNTER.fetch_add, then create. The attestation before
\* is dropped.
Attest(d, event, time) ==
    /\ phase[d] = "drawn"
    /\ Create(d, Payload(event, time, Digits(counter[d])))
    /\ counter' = [counter EXCEPT ![d] = (@ + 1) % CounterMod]
    /\ phase' = [phase EXCEPT ![d] = "live"]
    /\ made' = made + 1
    /\ about' = [about EXCEPT ![d] = IF held'[d] = {} THEN <<>>
                                     ELSE [number |-> made', event |-> event,
                                           timestamp_ms |-> time, counter |-> counter[d]]]
    /\ UNCHANGED <<draws, air>>

\* Draws and attests, one after the other, until COUNTER stands at n: steps of the
\* two actions above in which nothing is emitted and the last create declines, so
\* that no seed and no attestation of theirs is left. They are not counted as draws.
AttestMany(d, n) ==
    /\ entropy(d)
    /\ counter[d] < n
    /\ counter' = [counter EXCEPT ![d] = n]
    /\ held' = [held EXCEPT ![d] = {}]
    /\ about' = [about EXCEPT ![d] = <<>>]
    /\ UNCHANGED <<phase, seed, draws, made, air>>

\* Policy: SILENT, or permitting_radio, named deliberately.
Policies == {"SILENT", "PERMITTED"}

\* emit: nothing under a silent policy. The attestation is borrowed: it may be
\* emitted again, under the same policy or another.
Emit(d, policy) ==
    /\ held[d] # {}
    /\ IF policy = "SILENT"
       THEN UNCHANGED air
       ELSE air' = [air EXCEPT ![d] =
                       @ \union {[of |-> about[d], frame |-> Frame(a)] : a \in held[d]}]
    /\ UNCHANGED <<phase, seed, counter, held, draws, made, about>>

\* RAM is lost, the seed buffer and an attestation not yet sent with it.
PowerLoss(d) == /\ phase[d] # "off"
                /\ phase' = [phase EXCEPT ![d] = "off"]
                /\ seed' = [seed EXCEPT ![d] = Zeroized]
                /\ held' = [held EXCEPT ![d] = {}]
                /\ about' = [about EXCEPT ![d] = <<>>]
                /\ UNCHANGED <<counter, draws, made, air>>

Next == \E d \in Devices :
           \/ Boot(d) \/ NewSource(d) \/ Draw(d) \/ PowerLoss(d)
           \/ \E i \in Inputs : Attest(d, i.event, i.time)
           \/ \E n \in Counts : AttestMany(d, n)
           \/ \E policy \in Policies : Emit(d, policy)

Spec == Init /\ [][Next]_vars

--------------------------------------------------------------------------------
OnAir == UNION {air[d] : d \in Devices}
\* fixed_value: what a device shows at a position, if always the same.
Fixed(d, p) == {v \in {f[p] : f \in Frames(d)} : \A f \in Frames(d) : f[p] = v}
Said(d) == {SignedPayload(f) : f \in Frames(d)}

\* The number that base-128 digits stand for, five at the most.
Number(digits) ==
    LET At(i) == IF i <= Len(digits) THEN digits[i] ELSE 0
    IN  At(1) + 128 * (At(2) + 128 * (At(3) + 128 * (At(4) + 128 * At(5))))

TypeOK == /\ phase \in [Devices -> {"off", "dark", "live", "drawn"}]
          /\ seed \in [Devices -> Zeroized..draws]
          /\ counter \in [Devices -> 0..CounterMod - 1]
          /\ draws \in 0..MaxDraws
          /\ made \in Nat
          /\ \A d \in Devices : Cardinality(held[d]) <= 1

\* The seed buffer holds a seed only between the draw and create, whether
\* create signs or declines to, and over power cycles: no key outlives its one
\* signature.
SeedForgotten == /\ \A d \in Devices : phase[d] # "drawn" => seed[d] = Zeroized
                 /\ \A d \in Devices, s \in OnAir : Key(s.frame) # seed[d]

\* Two attestations never make the same frame, of one device or of two, also
\* when what they say is the same: after a power cycle, when the counter has
\* wrapped, on two devices at the same time. And one attestation makes one frame,
\* however often it is emitted. A receiver may take attestations apart by the
\* bytes (identical_events_from_different_devices_differ, emission_is_pure).
FramesDistinct ==
    \A r, s \in OnAir : r.frame = s.frame <=> r.of.number = s.of.number

\* Two devices that said the same things cannot be told apart: no position has
\* one value in every frame of one and another in every frame of the other
\* (device_distinguishing_byte; one frame each is no repetition).
NoDeviceMark ==
    \A c, d \in Devices : \A p \in 1..PayloadLen + 2 :
        Said(c) = Said(d) /\ Cardinality(Frames(c)) > 1 /\ Cardinality(Frames(d)) > 1
            => \A v \in Fixed(c, p), w \in Fixed(d, p) : v = w

\* Every frame is equally long, reads back as the event, the time and the counter
\* its own attestation was made of, however many bytes they take, and is padded
\* with zeros under the signature: length tells nothing, padding carries nothing.
FramesUniform ==
    \A s \in OnAir : LET read == take_from_bytes(SignedPayload(s.frame))
                     IN  /\ Len(s.frame) = PayloadLen + 2
                         /\ Signature(s.frame)
                                = [key |-> Key(s.frame), over |-> SignedPayload(s.frame)]
                         /\ read.payload.event = s.of.event
                         /\ read.payload.timestamp_ms = s.of.timestamp_ms
                         /\ Number(read.payload.counter) = s.of.counter
                         /\ \A i \in DOMAIN read.remainder : read.remainder[i] = 0
================================================================================
