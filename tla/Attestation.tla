------------------------------ MODULE Attestation ------------------------------
(***************************************************************************)
(* crates/icesickle-core/src/lib.rs: the payload, its postcard encoding,   *)
(* and what create signs. A number of any width is the sequence of its     *)
(* base-128 digits, the lowest first; a byte is a number. Ed25519 is       *)
(* abstract: the public key stands for the seed it was derived from, the   *)
(* signature for the seed and the bytes it covers.                         *)
(***************************************************************************)
EXTENDS Integers, Sequences

CONSTANT PayloadLen            \* ATTESTATION_PAYLOAD_LEN

ASSUME PayloadAssumption == PayloadLen \in Nat

PAYLOAD_VERSION == 1

\* AttestationEvent
ButtonPress(gpio) == [kind |-> "ButtonPress", gpio |-> gpio]
Unknown == [kind |-> "Unknown"]

\* AttestationPayload
Payload(event, timestamp_ms, counter) ==
    [version |-> PAYLOAD_VERSION, event |-> event,
     timestamp_ms |-> timestamp_ms, counter |-> counter]

\* The base-128 digits of a u32, as many as it has.
Places == <<1, 128, 16384, 2097152, 268435456>>
Width(n) == CHOOSE w \in 1..5 : \A i \in 2..5 : i <= w <=> Places[i] <= n
Digits(n) == [i \in 1..Width(n) |-> (n \div Places[i]) % 128]

\* Seven bits to the byte, the eighth set while more follow.
varint(number) ==
    [i \in DOMAIN number |-> number[i] + IF i < Len(number) THEN 128 ELSE 0]

encode_event(event) == IF event.kind = "ButtonPress" THEN <<0, event.gpio>> ELSE <<1>>

\* postcard::to_slice: the fields in order, u8 as it is, wider as varints.
encode(payload) == <<payload.version>> \o encode_event(payload.event)
                       \o varint(payload.timestamp_ms) \o varint(payload.counter)

\* The zero-filled canvas with the encoding at its front.
padded(bytes) == [i \in 1..PayloadLen |-> IF i <= Len(bytes) THEN bytes[i] ELSE 0]

\* Error::PayloadTooLong
Fits(payload) == Len(encode(payload)) <= PayloadLen

\* A number from its first byte at position i, and the position after it.
VarintAt(bytes, i) ==
    LET last == CHOOSE j \in i..Len(bytes) : /\ bytes[j] < 128
                                             /\ \A k \in i..j - 1 : bytes[k] >= 128
    IN  [number |-> [k \in 1..last - i + 1 |-> bytes[i + k - 1] % 128], next |-> last + 1]

\* postcard::take_from_bytes: the payload, and the remainder it hands back.
take_from_bytes(bytes) ==
    LET event == IF bytes[2] = 0 THEN ButtonPress(bytes[3]) ELSE Unknown
        time  == VarintAt(bytes, IF bytes[2] = 0 THEN 4 ELSE 3)
        count == VarintAt(bytes, time.next)
    IN  [payload |-> [Payload(event, time.number, count.number) EXCEPT !.version = bytes[1]],
         remainder |-> SubSeq(bytes, count.next, Len(bytes))]

\* What signing `payload` with the key of `seed` makes public.
Attested(seed, payload) == [public_key     |-> seed,
                            signature      |-> [key |-> seed, over |-> padded(encode(payload))],
                            signed_payload |-> padded(encode(payload))]

\* The widest values of a payload, and the 18 bytes they take.
U64_MAX == [i \in 1..10 |-> IF i < 10 THEN 127 ELSE 1]
U32_MAX == [i \in 1..5 |-> IF i < 5 THEN 127 ELSE 15]

ASSUME WorstCase == Len(encode(Payload(ButtonPress(255), U64_MAX, U32_MAX))) = 18
================================================================================
