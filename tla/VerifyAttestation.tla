--------------------------- MODULE VerifyAttestation ---------------------------
(***************************************************************************)
(* tools/verify-attestation: what the host tool makes of a captured log.   *)
(* A log is a sequence of lines, of which the tool sees which of its words *)
(* stands on a line and what is left of the value after a label. The words *)
(* all begin their lines, so a line that lost its beginning says nothing;  *)
(* of a character received in part is left a byte that is no text.         *)
(* A value is a short sequence that stands for its bytes, and an Ed25519   *)
(* signature is the key and what it signed, one after the other.           *)
(***************************************************************************)
EXTENDS Integers, SequencesExt

Labels == {"payload", "pubkey", "signature"}
GateWords == {"gateHolds", "gateOpen", "UNEXPECTED"}
Words == Labels \union GateWords \union {"nothing", "noise"}

\* What a cut leaves of the digits of a value: all of them, an even or an odd
\* number, none, or some with the text of the next boot run on behind them.
Remains == {"whole", "short", "odd", "none", "runOn"}

NoValue == [of |-> <<>>, left |-> "none"]
Line(word, value) == [says |-> word, value |-> [of |-> value, left |-> "whole"]]
Plain(word) == [says |-> word, value |-> NoValue]

NotAPoint == <<0>>                 \* 32 bytes that are no Ed25519 public key
Sign(key, payload) == key \o payload

\* The first line with the word, where str::find and find_map stop; 0 if none.
FirstWith(log, word) == SelectInSeq(log, LAMBDA line : line.says = word)

\* Mutant: the last line with the label.
field_last(log, label) ==
    LET i == SelectLastInSeq(log, LAMBDA line : line.says = label)
    IN  IF i = 0 THEN {} ELSE {v \in {log[i].value} : v.left # "none"}

\* The value on the first line with the label; none if nothing follows it.
field(log, label) == LET i == FirstWith(log, label)
                     IN  IF i = 0 THEN {} ELSE {v \in {log[i].value} : v.left # "none"}

unhex(value) == value.left \notin {"odd", "runOn"}

\* A check is "ok" or the error it names; after an error nothing else is looked
\* at, which is the `?` of the code.
Check(error, holds) == IF holds THEN "ok" ELSE error
a ?? b == IF a = "ok" THEN b ELSE a

\* Mutant: the last line of the gate that held, before the first that opened.
check_gate_latest(log) ==
    Check("UNEXPECTED", FirstWith(log, "UNEXPECTED") = 0)
    ?? Check("noGateHolds", FirstWith(log, "gateHolds") # 0)
    ?? Check("noGateOpen", FirstWith(log, "gateOpen") # 0)
    ?? Check("gateOrder", SelectLastInSeq(log, LAMBDA line : line.says = "gateHolds")
                              < FirstWith(log, "gateOpen"))

\* Mutant: a line the firmware printed as UNEXPECTED is passed over.
check_gate_expecting(log) ==
    Check("noGateHolds", FirstWith(log, "gateHolds") # 0)
    ?? Check("noGateOpen", FirstWith(log, "gateOpen") # 0)
    ?? Check("gateOrder", FirstWith(log, "gateHolds") < FirstWith(log, "gateOpen"))

check_gate(log) ==
    Check("UNEXPECTED", FirstWith(log, "UNEXPECTED") = 0)
    ?? Check("noGateHolds", FirstWith(log, "gateHolds") # 0)
    ?? Check("noGateOpen", FirstWith(log, "gateOpen") # 0)
    ?? Check("gateOrder", FirstWith(log, "gateHolds") < FirstWith(log, "gateOpen"))

Present(log, label) == Check("MissingField", field(log, label) # {})
Hex(log, label) == Check("BadHex", \A v \in field(log, label) : unhex(v))
Length(log, label) == Check("BadLength", \A v \in field(log, label) : v.left = "whole")

\* All three values are decoded before the length of any is looked at.
parse_log(log) ==
    Present(log, "payload") ?? Hex(log, "payload")
    ?? Present(log, "pubkey") ?? Hex(log, "pubkey")
    ?? Present(log, "signature") ?? Hex(log, "signature")
    ?? Length(log, "pubkey") ?? Length(log, "signature")

check_payload_len(log) == Length(log, "payload")

\* Mutant: the key is decoded and the signature is not checked.
verify_key_only(log) ==
    Check("BadPublicKey", \A k \in field(log, "pubkey") : k.of # NotAPoint)

verify(log) ==
    Check("BadPublicKey", \A k \in field(log, "pubkey") : k.of # NotAPoint)
    ?? Check("SignatureInvalid",
             \A p \in field(log, "payload"), k \in field(log, "pubkey"),
                s \in field(log, "signature") : s.of = Sign(k.of, p.of))

check_all(log) == check_gate(log) ?? parse_log(log) ?? check_payload_len(log) ?? verify(log)

\* read_to_string takes a file for text as a whole, or not at all.
Readable(log) == FirstWith(log, "noise") = 0

\* main: a file that is no text or is empty is refused, any other is checked.
Verdict(log) == IF ~ Readable(log) THEN "unreadable"
                ELSE IF log = <<>> THEN "empty" ELSE check_all(log)
================================================================================
