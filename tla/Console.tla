--------------------------------- MODULE Console --------------------------------
(***************************************************************************)
(* The console of the firmware over its power cycles, a capture of it, and *)
(* the host tool reading the capture (module VerifyAttestation). The port  *)
(* is opened at any time, in the middle of a line too; the power fails at  *)
(* any time, in the middle of a line too, and the text of the next boot    *)
(* runs on behind what was cut. Every state is the end of a capture.       *)
(***************************************************************************)
EXTENDS VerifyAttestation, FiniteSets

CONSTANTS MaxBoots,       \* bound: power cycles
          MaxPresses      \* bound: attestations, over all power cycles

ASSUME ConsoleAssumption == {MaxBoots, MaxPresses} \subseteq Nat

VARIABLES pc,             \* where main stands
          boot,           \* power cycles so far
          counter,        \* COUNTER: what the payloads of a boot differ in
          source,         \* an EntropySource is live
          gates,          \* history: the gate lines each boot printed
          made,           \* history: the attestations created
          port,           \* the capture: how it began, or "closed"
          since,          \* the first boot the capture holds from its start
          cut,            \* the console stands in the middle of a line
          log             \* the capture

device == <<boot, counter, source, gates, made>>
capture == <<port, since>>
vars == <<pc, device, capture, cut, log>>

Other == Plain("nothing")
Noise == Plain("noise")

\* What the capture is after a further line: unless the line before it was cut,
\* in which case it runs on behind that one.
Heard(line) == IF port = "closed" THEN log
               ELSE IF cut /\ log # <<>>
                    THEN [log EXCEPT ![Len(log)].value.left = "runOn"]
                    ELSE Append(log, line)

\* What is on the console when the power fails within a line.
CutShort(line) == {Other} \union {[line EXCEPT !.value.left = left] :
                                     left \in IF line.says \in Labels
                                              THEN Remains \ {"runOn"} ELSE {"none"}}

\* One println!, to its end or to the end of the power.
Println(line, next) ==
    \/ /\ log' = Heard(line)
       /\ cut' = FALSE
       /\ pc' = next
    \/ /\ \E rest \in CutShort(line) : log' = Heard(rest)
       /\ cut' = TRUE
       /\ pc' = "off"

Init == /\ pc = "off"
        /\ boot = 0
        /\ counter = 0
        /\ source = FALSE
        /\ gates = [b \in 1..MaxBoots |-> <<>>]
        /\ made = {}
        /\ port = "closed"
        /\ since = 0
        /\ cut = FALSE
        /\ log = <<>>

\* Reset: the statics start over, no entropy source exists, and the banner is
\* printed. The firmware's other lines hold none of the tool's words and change
\* nothing it finds: they are left out.
PowerOn == /\ pc = "off"
           /\ boot < MaxBoots
           /\ boot' = boot + 1
           /\ counter' = 0
           /\ source' = FALSE
           /\ Println(Other, "gateBefore")
           /\ UNCHANGED <<gates, made, capture>>

\* trng_available() is what esp-hal answers: the two lines are printed because
\* it could answer otherwise than expected.
Gate(word, next) == /\ Println(Plain(word), next)
                    /\ gates' = [gates EXCEPT ![boot] = Append(@, word)]
                    /\ UNCHANGED <<boot, counter, made, capture>>

GateBeforeSource(available) ==
    /\ pc = "gateBefore"
    /\ Gate(IF available THEN "UNEXPECTED" ELSE "gateHolds", "gateAfter")
    /\ UNCHANGED source

\* EntropySource::new, its line, and the second answer.
GateAfterSource(available) ==
    /\ pc = "gateAfter"
    /\ source' = available
    /\ Gate(IF available THEN "gateOpen" ELSE "UNEXPECTED", "loop")

\* attest: entropy() insists on a live source; the key is fresh, the counter
\* is not, over power cycles.
Attest == /\ pc = "loop"
          /\ source
          /\ Cardinality(made) < MaxPresses
          /\ LET key == Cardinality(made) + 1
             IN  made' = made \union {[boot |-> boot, payload |-> <<counter>>,
                                       pubkey |-> <<key>>,
                                       signature |-> Sign(<<key>>, <<counter>>)]}
          /\ counter' = counter + 1
          /\ pc' = "payload"
          /\ UNCHANGED <<boot, source, gates, capture, cut, log>>

\* The expect of entropy(): the firmware stops until the next reset.
Panic == /\ pc = "loop"
         /\ ~ source
         /\ pc' = "halted"
         /\ UNCHANGED <<device, capture, cut, log>>

\* The attestation under way: the last one created.
Current == CHOOSE a \in made : a.pubkey = <<Cardinality(made)>>

PrintPayload == /\ pc = "payload"
                /\ Println(Line("payload", Current.payload), "pubkey")
                /\ UNCHANGED <<device, capture>>
PrintPubkey == /\ pc = "pubkey"
               /\ Println(Line("pubkey", Current.pubkey), "signature")
               /\ UNCHANGED <<device, capture>>

\* Mutant: the key's digits are printed under the label of the signature.
PrintSignatureOfKey == /\ pc = "signature"
                       /\ Println(Line("signature", Current.pubkey), "loop")
                       /\ UNCHANGED <<device, capture>>

PrintSignature == /\ pc = "signature"
                  /\ Println(Line("signature", Current.signature), "loop")
                  /\ UNCHANGED <<device, capture>>

\* The power fails between two lines.
PowerLoss == /\ pc # "off"
             /\ pc' = "off"
             /\ UNCHANGED <<device, capture, cut, log>>

\* The port is opened: before a power-on, between two lines, within one, or
\* within one of its characters.
OpenPort == /\ port = "closed"
            /\ IF pc = "off" THEN /\ port' = "fromPowerOn"
                                  /\ since' = boot + 1
                                  /\ log' = <<>>
                             ELSE /\ port' = "fromTheMiddle"
                                  /\ since' = boot
                                  /\ log' \in {<<>>, <<Other>>, <<Noise>>}
            /\ UNCHANGED <<pc, device, cut>>

Accepted == Verdict(log) = "ok"

\* The alterations the tool's own tests make of a good log: a line gone, a value changed or
\* shortened, a gate line turned into its opposite, two lines exchanged.
Altered(l) ==
    {RemoveAt(l, i) : i \in DOMAIN l}
    \union {[l EXCEPT ![i].value.of = NotAPoint] : i \in DOMAIN l}
    \union {[l EXCEPT ![i].value.left = "short"] : i \in DOMAIN l}
    \union {[l EXCEPT ![i].says = "UNEXPECTED"] : i \in {j \in DOMAIN l : l[j].says \in GateWords}}
    \union {[l EXCEPT ![i] = l[i + 1], ![i + 1] = l[i]] : i \in 1..Len(l) - 1}

Alter == /\ Accepted
         /\ port' = "altered"
         /\ log' \in Altered(log)
         /\ UNCHANGED <<pc, device, since, cut>>

\* Altering ends a capture, and with it the behaviour.
Next == /\ port # "altered"
        /\ \/ PowerOn \/ PowerLoss
           \/ \E available \in BOOLEAN : GateBeforeSource(available) \/ GateAfterSource(available)
           \/ Attest \/ Panic
           \/ PrintPayload \/ PrintPubkey \/ PrintSignature
           \/ OpenPort \/ Alter

Spec == Init /\ [][Next]_vars

--------------------------------------------------------------------------------
\* The value the tool recovers for a label of an accepted log.
Recovered(label) == (CHOOSE v \in field(log, label) : TRUE).of

TypeOK == /\ pc \in {"off", "gateBefore", "gateAfter", "loop", "halted",
                     "payload", "pubkey", "signature"}
          /\ boot \in 0..MaxBoots
          /\ counter \in 0..MaxPresses
          /\ port \in {"closed", "fromPowerOn", "fromTheMiddle", "altered"}
          /\ since \in 0..MaxBoots + 1
          /\ {source, cut} \subseteq BOOLEAN
          /\ \A a \in made : a.boot \in 1..boot /\ a.pubkey \in {<<k>> : k \in 1..Cardinality(made)}
          /\ \A i \in DOMAIN log : log[i].says \in Words /\ log[i].value.left \in Remains
          /\ port # "altered" => \A i \in DOMAIN log :
                Len(log[i].value.of) = CASE log[i].says \in {"payload", "pubkey"} -> 1
                                         [] log[i].says = "signature" -> 2
                                         [] OTHER -> 0

\* However a capture was begun, cut, run over power cycles or altered by one
\* line, what the tool accepts is, value for value, one attestation the device
\* made: fields of two are never mixed into a third (check_all, verify).
AcceptedWasMade ==
    Accepted => \E a \in made : /\ Recovered("payload") = a.payload
                                /\ Recovered("pubkey") = a.pubkey
                                /\ Recovered("signature") = a.signature

\* In a capture that begins at a power-on, the boot that made the accepted
\* attestation is one whose own gate held and then opened, whichever of the
\* captured boots it was (check_gate looks at the first of each line only).
GateOfItsBoot ==
    Accepted /\ port = "fromPowerOn"
        => \A a \in made : a.pubkey = Recovered("pubkey")
                              => gates[a.boot] = <<"gateHolds", "gateOpen">>

\* A capture from a power-on, in which no gate was UNEXPECTED and no line of
\* another attestation stands before the three of one printed to its end, is
\* accepted, wherever the boots before were cut and whatever follows: the tool
\* rejects no such log. (It does reject one whose first attestation was cut, the
\* ones after it notwithstanding.)
GenuineAccepted ==
    /\ port = "fromPowerOn"
    /\ \A b \in since..boot : \A n \in DOMAIN gates[b] : gates[b][n] # "UNEXPECTED"
    /\ \E a \in made, i \in DOMAIN log :
          /\ log[i] = Line("signature", a.signature)
          /\ \A j \in 1..i - 3 : log[j].says \notin Labels
    => Accepted

\* Going on with a capture never takes back an acceptance, unless the next boot
\* reports its gate or runs on behind a line the power cut.
AcceptanceStands ==
    [][Accepted /\ ~ cut /\ port' = port
          => Accepted' \/ Verdict(log') = "UNEXPECTED"]_<<port, log>>

\* What the tool says it checks: the gate was demonstrated in order at the boot
\* of the attestation it accepts (lib.rs:9), wherever the capture began.
GateDemonstrated ==
    Accepted /\ port # "altered"
        => \A a \in made : a.pubkey = Recovered("pubkey")
                              => gates[a.boot] = <<"gateHolds", "gateOpen">>
================================================================================
