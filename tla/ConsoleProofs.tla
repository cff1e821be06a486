----------------------------- MODULE ConsoleProofs -----------------------------
(***************************************************************************)
(* The console and the host tool, proved for any number of power cycles,   *)
(* of attestations and of lines.                                           *)
(***************************************************************************)
EXTENDS Console, FiniteSetTheorems, SequenceTheorems, TLAPS

\* Among naturals there is a smallest, so a first line and a first failed check
\* are well defined.
LEMMA Smallest ==
    ASSUME NEW S, S \subseteq Nat, S # {}
    PROVE  /\ Min(S) \in S
           /\ \A n \in S : Min(S) <= n
<1>1. IsWellFoundedOn(OpToRel(<, Nat), Nat)
  BY NatLessThanWellFounded
<1>2. \A x, y \in Nat : x < y => <<x, y>> \in OpToRel(<, Nat)
  BY DEF OpToRel
<1>3. PICK R : IsWellFoundedOn(R, Nat) /\ \A x, y \in Nat : x < y => <<x, y>> \in R
  BY <1>1, <1>2, Zenon
<1>4. IsWellFoundedOn(R, Nat)
  BY <1>3
<1>5. \A x, y \in Nat : x < y => <<x, y>> \in R
  BY <1>3
<1>6. \E m \in S : \A n \in S : ~ (<<n, m>> \in R)
  BY <1>4, WFMin
<1>7. PICK m \in S : \A n \in S : ~ (<<n, m>> \in R)
  BY <1>6
<1>8. m \in Nat
  OBVIOUS
<1>9. ASSUME NEW n \in S PROVE ~ (n < m)
  BY <1>5, <1>7, <1>8
<1>10. \A n \in S : m <= n
  BY <1>8, <1>9
<1> QED
  BY <1>10 DEF Min

LogLine == [says : Words, value : [of : Seq(Nat), left : Remains]]

\* FirstWith is the first line with the word, or 0.
LEMMA FirstLine ==
    ASSUME NEW l \in Seq(LogLine), NEW word
    PROVE  LET i == FirstWith(l, word)
           IN  \/ i = 0 /\ \A j \in 1..Len(l) : l[j].says # word
               \/ /\ i \in 1..Len(l)
                  /\ l[i].says = word
                  /\ \A j \in 1..i - 1 : l[j].says # word
<1> DEFINE I == {j \in 1..Len(l) : l[j].says = word}
<1>1. FirstWith(l, word) = IF I # {} THEN Min(I) ELSE 0
  BY DEF FirstWith, SelectInSeq
<1>2. CASE I = {}
  <2>1. \A j \in 1..Len(l) : l[j].says # word
    BY <1>2
  <2>2. FirstWith(l, word) = 0
    BY <1>1, <1>2
  <2> QED
    BY <2>1, <2>2
<1>3. CASE I # {}
  <2> I \subseteq Nat
    BY LenProperties
  <2>1. Min(I) \in I /\ \A n \in I : Min(I) <= n
    BY <1>3, Smallest
  <2>2. FirstWith(l, word) = Min(I)
    BY <1>1, <1>3
  <2>3. \A j \in 1..Min(I) - 1 : l[j].says # word
    BY <2>1, LenProperties
  <2> QED
    BY <2>1, <2>2, <2>3
<1> QED
  BY <1>2, <1>3

\* What check_gate wants, and what parse_log, check_payload_len and verify want.
GateHolds(l) ==
    /\ FirstWith(l, "UNEXPECTED") = 0
    /\ FirstWith(l, "gateHolds") # 0
    /\ FirstWith(l, "gateOpen") # 0
    /\ FirstWith(l, "gateHolds") < FirstWith(l, "gateOpen")

ValuesHold(l) ==
    /\ \A label \in Labels : field(l, label) # {}
    /\ \A label \in Labels : \A v \in field(l, label) : unhex(v) /\ v.left = "whole"
    /\ \A k \in field(l, "pubkey") : k.of # NotAPoint
    /\ \A p \in field(l, "payload"), k \in field(l, "pubkey"), s \in field(l, "signature") :
          s.of = Sign(k.of, p.of)

LEMMA CheckOk == ASSUME NEW e, NEW h \in BOOLEAN, e # "ok" PROVE Check(e, h) = "ok" <=> h
BY DEF Check

LEMMA GateOk == ASSUME NEW l PROVE check_gate(l) = "ok" <=> GateHolds(l)
BY DEF check_gate, GateHolds, Check, ??

LEMMA ParseOk ==
    ASSUME NEW l
    PROVE  parse_log(l) = "ok"
               <=> /\ \A label \in Labels : field(l, label) # {}
                   /\ \A label \in Labels : \A v \in field(l, label) : unhex(v)
                   /\ \A v \in field(l, "pubkey") : v.left = "whole"
                   /\ \A v \in field(l, "signature") : v.left = "whole"
<1>1. parse_log(l) = "ok"
          <=> /\ Present(l, "payload") = "ok" /\ Hex(l, "payload") = "ok"
              /\ Present(l, "pubkey") = "ok" /\ Hex(l, "pubkey") = "ok"
              /\ Present(l, "signature") = "ok" /\ Hex(l, "signature") = "ok"
              /\ Length(l, "pubkey") = "ok" /\ Length(l, "signature") = "ok"
  BY DEF parse_log, ??
<1>2. ASSUME NEW label
      PROVE  /\ Present(l, label) = "ok" <=> field(l, label) # {}
             /\ Hex(l, label) = "ok" <=> \A v \in field(l, label) : unhex(v)
             /\ Length(l, label) = "ok" <=> \A v \in field(l, label) : v.left = "whole"
  BY CheckOk, Zenon DEF Present, Hex, Length
<1> QED
  BY <1>1, <1>2 DEF Labels

LEMMA PayloadOk ==
    ASSUME NEW l
    PROVE  check_payload_len(l) = "ok" <=> \A v \in field(l, "payload") : v.left = "whole"
BY CheckOk, Zenon DEF check_payload_len, Length

LEMMA VerifyOk ==
    ASSUME NEW l
    PROVE  verify(l) = "ok"
               <=> /\ \A k \in field(l, "pubkey") : k.of # NotAPoint
                   /\ \A p \in field(l, "payload"), k \in field(l, "pubkey"),
                         s \in field(l, "signature") : s.of = Sign(k.of, p.of)
<1> DEFINE A == \A k \in field(l, "pubkey") : k.of # NotAPoint
           B == \A p \in field(l, "payload"), k \in field(l, "pubkey"),
                   s \in field(l, "signature") : s.of = Sign(k.of, p.of)
<1>1. verify(l) = "ok" <=> Check("BadPublicKey", A) = "ok" /\ Check("SignatureInvalid", B) = "ok"
  BY DEF verify, ??
<1> QED
  BY <1>1, CheckOk, Zenon

\* The verdict is "ok" of a text whose checks all hold, and of a text names the
\* first gate check if that one fails.
LEMMA VerdictOf ==
    ASSUME NEW l, l # <<>>
    PROVE  /\ Verdict(l) = "ok" <=> Readable(l) /\ GateHolds(l) /\ ValuesHold(l)
           /\ Readable(l) /\ FirstWith(l, "UNEXPECTED") # 0 => Verdict(l) = "UNEXPECTED"
<1>1. Readable(l) => Verdict(l) = (check_gate(l) ?? parse_log(l) ?? check_payload_len(l)
                                       ?? verify(l))
  BY DEF Verdict, check_all
<1>2. Readable(l) => (Verdict(l) = "ok" <=> /\ check_gate(l) = "ok" /\ parse_log(l) = "ok"
                                            /\ check_payload_len(l) = "ok" /\ verify(l) = "ok")
  BY <1>1 DEF ??
<1>3. ~ Readable(l) => Verdict(l) # "ok"
  BY DEF Verdict
<1>4. Verdict(l) = "ok" <=> Readable(l) /\ GateHolds(l) /\ ValuesHold(l)
  BY <1>2, <1>3, GateOk, ParseOk, PayloadOk, VerifyOk DEF ValuesHold, Labels
<1>5. ASSUME Readable(l), FirstWith(l, "UNEXPECTED") # 0 PROVE Verdict(l) = "UNEXPECTED"
  BY <1>1, <1>5 DEF check_gate, Check, ??
<1> QED
  BY <1>4, <1>5

--------------------------------------------------------------------------------
Typed == /\ pc \in {"off", "gateBefore", "gateAfter", "loop", "halted",
                    "payload", "pubkey", "signature"}
         /\ boot \in 0..MaxBoots
         /\ since \in 0..MaxBoots + 1
         /\ port \in {"closed", "fromPowerOn", "fromTheMiddle", "altered"}
         /\ source \in BOOLEAN /\ cut \in BOOLEAN
         /\ gates \in [1..MaxBoots -> Seq(GateWords)]
         /\ log \in Seq(LogLine)
         /\ IsFiniteSet(made) /\ Cardinality(made) \in 0..MaxPresses
         /\ counter \in 0..Cardinality(made)

\* Keys are fresh, so that an attestation is known by its key; the last one made
\* is the one being printed.
Numbered == /\ \A a \in made :
                  \E b \in 1..boot, c \in 0..MaxPresses, k \in 1..Cardinality(made) :
                     a = [boot |-> b, payload |-> <<c>>, pubkey |-> <<k>>,
                          signature |-> Sign(<<k>>, <<c>>)]
            /\ \A a, b \in made : a.pubkey = b.pubkey => a = b
            /\ pc \in Labels => \E a \in made : a.pubkey = <<Cardinality(made)>> /\ a.boot = boot

\* A line that the firmware printed since the capture began.
Printed(line) == /\ line.says = "payload"
                       => \E a \in made : a.boot >= since /\ line.value.of = a.payload
                 /\ line.says = "pubkey"
                       => \E a \in made : a.boot >= since /\ line.value.of = a.pubkey
                 /\ line.says = "signature"
                       => \E a \in made : a.boot >= since /\ line.value.of = a.signature
                 /\ line.says \notin Labels => line.value.of = <<>>

\* Every line of the capture is one, but for a value that was altered.
LinesPrinted == \A i \in DOMAIN log :
    Printed(log[i]) \/ (port = "altered" /\ log[i].value.of = NotAPoint)

\* Where the capture begins.
Begun == /\ cut => pc = "off"
         /\ pc # "off" => boot >= 1
         /\ port = "closed" => log = <<>> /\ since = 0
         /\ boot < since => pc = "off" /\ log = <<>> /\ since = boot + 1

\* The gate lines that a boot with a live source has printed.
Opened == {<<"gateHolds", "gateOpen">>, <<"UNEXPECTED", "gateOpen">>}

\* Only a boot with a live source attests.
GatesInOrder ==
    /\ \A b \in boot + 1..MaxBoots : gates[b] = <<>>
    /\ pc = "gateBefore" => gates[boot] = <<>>
    /\ pc = "gateAfter" => gates[boot] \in {<<"gateHolds">>, <<"UNEXPECTED">>}
    /\ pc \in {"loop", "halted"} \union Labels
           => /\ Len(gates[boot]) = 2
              /\ source => gates[boot] \in Opened
    /\ \A a \in made : gates[a.boot] \in Opened

\* A gate that did not behave is on record in every capture from a power-on that
\* holds an attestation of its boot.
Heralded ==
    port = "fromPowerOn"
        => \A b \in 1..boot :
              /\ b >= since
              /\ (b = boot /\ pc # "off") \/ \E a \in made : a.boot = b
              /\ gates[b] # <<>> /\ gates[b][1] = "UNEXPECTED"
              => \E i \in DOMAIN log : log[i].says = "UNEXPECTED"

\* A capture from a power-on holds text, and UNEXPECTED only where a gate was.
Clean ==
    port = "fromPowerOn"
        => \A i \in 1..Len(log) :
              /\ log[i].says # "noise"
              /\ log[i].says = "UNEXPECTED"
                    => \E b \in 1..boot : /\ b >= since
                                          /\ \E n \in 1..Len(gates[b]) : gates[b][n] = "UNEXPECTED"

\* The line before the second answer of a gate is the first one.
GateWord == {"gateHolds", "UNEXPECTED"}
Paired ==
    port = "fromPowerOn"
        => /\ \A i \in 1..Len(log) :
                 log[i].says = "gateOpen" => i >= 2 /\ log[i - 1].says \in GateWord
           /\ pc = "gateAfter" => Len(log) >= 1 /\ log[Len(log)].says \in GateWord

\* A boot that attests, or has, is seen to have opened its gate.
Opens ==
    port = "fromPowerOn"
        => /\ pc \in {"loop"} \union Labels /\ source
                 => \E i \in 1..Len(log) : log[i].says = "gateOpen"
           /\ \A a \in made : a.boot >= since
                 => \E i \in 1..Len(log) : log[i].says = "gateOpen"

\* The two lines before a signature are whole, and those of its attestation.
Precede(l, n, a) == /\ n >= 2
                    /\ l[n - 1] = Line("payload", a.payload)
                    /\ l[n] = Line("pubkey", a.pubkey)
Grouped ==
    port = "fromPowerOn"
        => /\ \A i \in 1..Len(log) :
                 log[i].says = "signature"
                    => \E a \in made : /\ Precede(log, i - 1, a)
                                       /\ log[i].value.of = a.signature
           /\ pc = "pubkey"
                 => Len(log) >= 1 /\ log[Len(log)] = Line("payload", Current.payload)
           /\ pc = "signature" => Precede(log, Len(log), Current)

IInv == /\ Typed /\ Numbered /\ LinesPrinted /\ Begun
        /\ GatesInOrder /\ Heralded
        /\ Clean /\ Paired /\ Opens /\ Grouped

--------------------------------------------------------------------------------
USE ConsoleAssumption

\* A line that is cut, or run on, keeps its word and what its value was.
LEMMA Cut ==
    ASSUME NEW line \in LogLine, NEW left \in Remains
    PROVE  LET rest == [line EXCEPT !.value.left = left]
           IN  rest \in LogLine /\ rest.says = line.says /\ rest.value.of = line.value.of
<1>1. [line EXCEPT !.value.left = left]
          = [line EXCEPT !.value = [line.value EXCEPT !.left = left]]
  BY DEF LogLine
<1> QED
  BY <1>1 DEF LogLine

LEMMA PlainTyped ==
    ASSUME NEW word \in Words
    PROVE  /\ Plain(word) \in LogLine
           /\ Plain(word).says = word /\ Plain(word).value.of = <<>>
<1>1. NoValue \in [of : Seq(Nat), left : Remains] /\ NoValue.of = <<>>
  BY EmptySeq DEF NoValue, Remains
<1> QED
  BY <1>1 DEF Plain, LogLine

LEMMA CutShortKeeps ==
    ASSUME NEW line \in LogLine, NEW rest \in CutShort(line)
    PROVE  /\ rest \in LogLine
           /\ rest = Other \/ (rest.says = line.says /\ rest.value.of = line.value.of)
<1>1. Other \in LogLine
  BY PlainTyped DEF Other, Words
<1>2. CASE rest = Other
  BY <1>1, <1>2
<1>3. CASE rest # Other
  <2>1. PICK left \in Remains : rest = [line EXCEPT !.value.left = left]
    BY <1>3 DEF CutShort, Remains
  <2> QED
    BY <2>1, Cut
<1> QED
  BY <1>2, <1>3

\* What the capture holds after a line, or a part of one, is heard.
LEMMA Hears ==
    ASSUME log \in Seq(LogLine), NEW line \in LogLine
    PROVE  /\ Heard(line) \in Seq(LogLine)
           /\ port = "closed" => Heard(line) = log
           /\ port # "closed" /\ (~ cut \/ log = <<>>) => Heard(line) = Append(log, line)
           /\ \A i \in 1..Len(log) :
                 /\ i \in 1..Len(Heard(line))
                 /\ Heard(line)[i].says = log[i].says
                 /\ Heard(line)[i].value.of = log[i].value.of
                 /\ (i # Len(log) \/ ~ cut) => Heard(line)[i] = log[i]
           /\ Len(Heard(line)) \in {Len(log), Len(log) + 1}
           /\ \A i \in 1..Len(Heard(line)) : i \in 1..Len(log) \/ Heard(line)[i] = line
<1>1. CASE port = "closed"
  <2>1. Heard(line) = log
    BY <1>1 DEF Heard
  <2> QED
    BY <1>1, <2>1
<1>2. CASE port # "closed" /\ cut /\ log # <<>>
  <2> DEFINE n == Len(log)
             last == [log[n] EXCEPT !.value.left = "runOn"]
  <2>1. n \in 1..Len(log)
    BY <1>2, EmptySeq, LenProperties
  <2>2. log[n] \in LogLine
    BY <2>1, ElementOfSeq
  <2>3. last \in LogLine /\ last.says = log[n].says /\ last.value.of = log[n].value.of
    BY <2>2, Cut DEF Remains
  <2>4. Heard(line) = [log EXCEPT ![n] = last]
    BY <1>2 DEF Heard
  <2> HIDE DEF last
  <2>5. Heard(line) \in Seq(LogLine) /\ Len(Heard(line)) = Len(log)
    BY <2>1, <2>3, <2>4
  <2>6. \A i \in 1..Len(log) : Heard(line)[i] = IF i = n THEN last ELSE log[i]
    BY <2>1, <2>3, <2>4
  <2> QED
    BY <1>2, <2>3, <2>5, <2>6
<1>3. CASE port # "closed" /\ (~ cut \/ log = <<>>)
  <2>1. Heard(line) = Append(log, line)
    BY <1>3 DEF Heard
  <2> QED
    BY <1>3, <2>1
<1> QED
  BY <1>1, <1>2, <1>3

LEMMA Prints ==
    ASSUME log \in Seq(LogLine), NEW line \in LogLine, NEW next, next # "off",
           Println(line, next)
    PROVE  /\ log' \in Seq(LogLine) /\ cut' \in BOOLEAN
           /\ pc' \in {next, "off"} /\ (cut' => pc' = "off")
           /\ port = "closed" => log' = log
           /\ pc' # "off" /\ port # "closed" /\ (~ cut \/ log = <<>>)
                 => log' = Append(log, line)
           /\ \A i \in 1..Len(log) : /\ i \in 1..Len(log')
                                     /\ log'[i].says = log[i].says
                                     /\ log'[i].value.of = log[i].value.of
                                     /\ (i # Len(log) \/ ~ cut) => log'[i] = log[i]
           /\ Len(log') \in {Len(log), Len(log) + 1}
           /\ \A i \in 1..Len(log') :
                 \/ i \in 1..Len(log)
                 \/ log'[i] = Other
                 \/ log'[i].says = line.says /\ log'[i].value.of = line.value.of
<1>1. CASE log' = Heard(line) /\ cut' = FALSE /\ pc' = next
  BY <1>1, Hears
<1>2. CASE (\E rest \in CutShort(line) : log' = Heard(rest)) /\ cut' = TRUE /\ pc' = "off"
  <2>1. PICK rest \in CutShort(line) : log' = Heard(rest)
    BY <1>2
  <2>2. /\ rest \in LogLine
        /\ rest = Other \/ (rest.says = line.says /\ rest.value.of = line.value.of)
    BY CutShortKeeps
  <2> QED
    BY <1>2, <2>1, <2>2, Hears
<1> QED
  BY <1>1, <1>2 DEF Println

LEMMA MadeTyped ==
    ASSUME Numbered, boot \in Nat, Cardinality(made) \in Nat, NEW a \in made
    PROVE  /\ a.boot \in 1..boot
           /\ \E c \in 0..MaxPresses, k \in 1..Cardinality(made) :
                 a.payload = <<c>> /\ a.pubkey = <<k>> /\ a.signature = Sign(<<k>>, <<c>>)
           /\ {a.payload, a.pubkey, a.signature} \subseteq Seq(Nat)
<1>1. PICK b \in 1..boot, c \in 0..MaxPresses, k \in 1..Cardinality(made) :
              a = [boot |-> b, payload |-> <<c>>, pubkey |-> <<k>>,
                   signature |-> Sign(<<k>>, <<c>>)]
  BY DEF Numbered
<1>2. <<c>> \in Seq(Nat) /\ <<k>> \in Seq(Nat)
  OBVIOUS
<1>3. Sign(<<k>>, <<c>>) \in Seq(Nat)
  BY <1>2, ConcatProperties, Zenon DEF Sign
<1> QED
  BY <1>1, <1>2, <1>3

LEMMA CurrentMade ==
    ASSUME Numbered, pc \in Labels
    PROVE  Current \in made /\ Current.pubkey = <<Cardinality(made)>> /\ Current.boot = boot
<1>1. PICK a \in made : a.pubkey = <<Cardinality(made)>> /\ a.boot = boot
  BY DEF Numbered
<1>2. Current \in made /\ Current.pubkey = <<Cardinality(made)>>
  BY <1>1, Zenon DEF Current
<1>3. Current = a
  BY <1>1, <1>2 DEF Numbered
<1> QED
  BY <1>1, <1>2, <1>3

LEMMA LineTyped ==
    ASSUME NEW word \in Words, NEW value \in Seq(Nat)
    PROVE  /\ Line(word, value) \in LogLine
           /\ Line(word, value).says = word /\ Line(word, value).value.of = value
BY DEF Line, LogLine, Remains

\* What was printed stays printed; a line counts by its word and its value.
LEMMA PrintedSame ==
    ASSUME NEW k, NEW m, Printed(k), m.says = k.says, m.value.of = k.value.of,
           made \subseteq made', since' = since
    PROVE  Printed(m)'
<1>1. \A a \in made : a \in made'
  OBVIOUS
<1> QED
  BY <1>1 DEF Printed

LEMMA LinesKeep ==
    ASSUME log \in Seq(LogLine), LinesPrinted, port # "altered", NEW line \in LogLine,
           NEW next, next # "off", Println(line, next), Printed(line),
           made' = made, since' = since
    PROVE  LinesPrinted'
<1>1. log' \in Seq(LogLine)
  BY Prints
<1>2. Printed(Other)
  BY PlainTyped DEF Printed, Other, Words, Labels
<1>3. SUFFICES ASSUME NEW i \in 1..Len(log') PROVE Printed(log[i])'
  BY <1>1, LenProperties DEF LinesPrinted
<1>4. CASE i \in 1..Len(log)
  <2>1. Printed(log[i])
    BY <1>4, LenProperties DEF LinesPrinted
  <2>2. log'[i].says = log[i].says /\ log'[i].value.of = log[i].value.of
    BY <1>4, Prints
  <2> QED
    BY <2>1, <2>2, PrintedSame
<1>5. CASE log'[i] = Other
  BY <1>2, <1>5, PrintedSame
<1>6. CASE log'[i].says = line.says /\ log'[i].value.of = line.value.of
  BY <1>6, PrintedSame
<1>7. \/ i \in 1..Len(log)
      \/ log'[i] = Other
      \/ log'[i].says = line.says /\ log'[i].value.of = line.value.of
  BY Prints
<1> QED
  BY <1>4, <1>5, <1>6, <1>7

LEMMA InitIInv == Init => IInv
<1> SUFFICES ASSUME Init PROVE IInv
  OBVIOUS
<1> USE DEF Init
<1>1. IsFiniteSet(made) /\ Cardinality(made) = 0
  BY FS_EmptySet
<1>2. Typed
  <2>1. gates \in [1..MaxBoots -> Seq(GateWords)]
    BY EmptySeq
  <2>2. log \in Seq(LogLine)
    BY EmptySeq
  <2>3. 0 \in 0..MaxBoots /\ 0 \in 0..MaxBoots + 1 /\ 0 \in 0..MaxPresses /\ 0 \in 0..0
    OBVIOUS
  <2> QED
    BY <1>1, <2>1, <2>2, <2>3 DEF Typed
<1>3. Numbered /\ Begun /\ Heralded
  BY DEF Numbered, Begun, Heralded, Labels
<1>4. LinesPrinted
  BY EmptySeq, LenProperties DEF LinesPrinted
<1>5. GatesInOrder
  BY DEF GatesInOrder, Labels
<1>6. Clean /\ Paired /\ Opens /\ Grouped
  BY DEF Clean, Paired, Opens, Grouped
<1> QED
  BY <1>2, <1>3, <1>4, <1>5, <1>6 DEF IInv

\* Without a press and with the boot going on, the attestations are as they were.
LEMMA SameMade ==
    ASSUME Numbered, made' = made, boot \in Nat, boot' \in Nat, boot' >= boot,
           pc' \in Labels => pc \in Labels /\ boot' = boot
    PROVE  Numbered'
<1>1. 1..boot \subseteq 1..boot'
  OBVIOUS
<1>2. ASSUME NEW a \in made'
      PROVE  \E b \in 1..boot', c \in 0..MaxPresses, k \in 1..Cardinality(made') :
                a = [boot |-> b, payload |-> <<c>>, pubkey |-> <<k>>,
                     signature |-> Sign(<<k>>, <<c>>)]
  <2>1. PICK b \in 1..boot, c \in 0..MaxPresses, k \in 1..Cardinality(made) :
                a = [boot |-> b, payload |-> <<c>>, pubkey |-> <<k>>,
                     signature |-> Sign(<<k>>, <<c>>)]
    BY Zenon DEF Numbered
  <2>2. b \in 1..boot' /\ k \in 1..Cardinality(made')
    BY <1>1, Zenon
  <2> QED
    BY <2>1, <2>2, Zenon
<1>3. \A a, b \in made' : a.pubkey = b.pubkey => a = b
  BY Zenon DEF Numbered
<1>4. pc' \in Labels => \E a \in made' : a.pubkey = <<Cardinality(made')>> /\ a.boot = boot'
  BY Zenon DEF Numbered
<1> QED
  BY <1>2, <1>3, <1>4, Zenon DEF Numbered

\* The types that the proofs below keep needing.
LEMMA Types ==
    ASSUME IInv
    PROVE  /\ MaxBoots \in Nat /\ MaxPresses \in Nat
           /\ boot \in Nat /\ boot \in 0..MaxBoots
           /\ since \in Nat /\ since \in 0..MaxBoots + 1
           /\ log \in Seq(LogLine)
           /\ Cardinality(made) \in Nat /\ Cardinality(made) \in 0..MaxPresses
           /\ gates \in [1..MaxBoots -> Seq(GateWords)]
<1>1. MaxBoots \in Nat /\ MaxPresses \in Nat
  OBVIOUS
<1>2. /\ boot \in 0..MaxBoots /\ since \in 0..MaxBoots + 1
      /\ log \in Seq(LogLine) /\ Cardinality(made) \in 0..MaxPresses
      /\ gates \in [1..MaxBoots -> Seq(GateWords)]
  BY DEF IInv, Typed
<1>3. boot \in Nat /\ since \in Nat /\ Cardinality(made) \in Nat
  BY <1>1, <1>2
<1> QED
  BY <1>1, <1>2, <1>3

\* What a printed line does to each part of the invariant about captures from a
\* power-on.
LEMMA CleanKeeps ==
    ASSUME IInv, NEW line \in LogLine, NEW next, next # "off", Println(line, next),
           line.says # "noise", port' = port, since' = since, boot' \in Nat, boot' >= boot,
           line.says = "UNEXPECTED" => (\E b \in 1..boot' :
               b >= since /\ \E n \in 1..Len(gates'[b]) : gates'[b][n] = "UNEXPECTED"),
           \A b \in 1..boot : (\E n \in 1..Len(gates[b]) : gates[b][n] = "UNEXPECTED")
                                => \E n \in 1..Len(gates'[b]) : gates'[b][n] = "UNEXPECTED"
    PROVE  Clean'
<1> SUFFICES ASSUME port = "fromPowerOn", NEW i \in 1..Len(log')
             PROVE  /\ log'[i].says # "noise"
                    /\ log'[i].says = "UNEXPECTED" => \E b \in 1..boot' :
                          b >= since /\ \E n \in 1..Len(gates'[b]) : gates'[b][n] = "UNEXPECTED"
  BY DEF Clean
<1>1. \/ i \in 1..Len(log) /\ log'[i].says = log[i].says
      \/ log'[i] = Other
      \/ log'[i].says = line.says
  BY Types, Prints
<1>2. CASE i \in 1..Len(log) /\ log'[i].says = log[i].says
  <2>1. 1..boot \subseteq 1..boot'
    BY Types
  <2>2. /\ log[i].says # "noise"
        /\ log[i].says = "UNEXPECTED" => \E b \in 1..boot :
              b >= since /\ \E n \in 1..Len(gates[b]) : gates[b][n] = "UNEXPECTED"
    BY <1>2 DEF IInv, Clean
  <2> QED
    BY <1>2, <2>1, <2>2
<1>3. CASE log'[i] = Other
  BY <1>3 DEF Other, Plain
<1>4. CASE log'[i].says = line.says
  BY <1>4
<1> QED
  BY <1>1, <1>2, <1>3, <1>4

LEMMA PairedKeeps ==
    ASSUME IInv, NEW line \in LogLine, NEW next, next # "off", Println(line, next),
           port' = port,
           line.says = "gateOpen" => pc = "gateAfter",
           pc' = "gateAfter" => line.says \in GateWord /\ pc # "off"
    PROVE  Paired'
<1> SUFFICES ASSUME port = "fromPowerOn"
             PROVE  /\ \A i \in 1..Len(log') : log'[i].says = "gateOpen"
                              => i >= 2 /\ log'[i - 1].says \in GateWord
                    /\ pc' = "gateAfter"
                          => Len(log') >= 1 /\ log'[Len(log')].says \in GateWord
  BY DEF Paired
<1>1. log \in Seq(LogLine) /\ Len(log) \in Nat /\ (cut => pc = "off")
  BY Types, LenProperties DEF IInv, Begun
<1>2. /\ \A i \in 1..Len(log) : i \in 1..Len(log') /\ log'[i].says = log[i].says
      /\ Len(log') \in {Len(log), Len(log) + 1}
  BY <1>1, Prints
<1>3. ASSUME NEW i \in 1..Len(log'), log'[i].says = "gateOpen"
      PROVE  i >= 2 /\ log'[i - 1].says \in GateWord
  <2>1. CASE i \in 1..Len(log)
    <3>1. i >= 2 /\ log[i - 1].says \in GateWord
      BY <1>2, <1>3, <2>1 DEF IInv, Paired
    <3>2. i - 1 \in 1..Len(log)
      BY <1>1, <2>1, <3>1
    <3> QED
      BY <1>2, <3>1, <3>2
  <2>2. CASE i \notin 1..Len(log)
    <3>1. i = Len(log) + 1
      BY <1>1, <1>2, <2>2
    <3>2. log'[i].says = line.says
      BY <1>1, <1>3, <2>2, Prints DEF Other, Plain
    <3>3. Len(log) >= 1 /\ log[Len(log)].says \in GateWord
      BY <1>3, <3>2 DEF IInv, Paired
    <3>4. Len(log) \in 1..Len(log) /\ i - 1 = Len(log)
      BY <1>1, <3>1, <3>3
    <3> QED
      BY <1>1, <1>2, <3>1, <3>3, <3>4
  <2> QED
    BY <2>1, <2>2
<1>4. ASSUME pc' = "gateAfter" PROVE Len(log') >= 1 /\ log'[Len(log')].says \in GateWord
  <2>1. log' = Append(log, line)
    BY <1>1, <1>4, Prints
  <2> QED
    BY <1>1, <1>4, <2>1
<1> QED
  BY <1>3, <1>4

LEMMA OpensKeep ==
    ASSUME IInv, NEW line \in LogLine, NEW next, next # "off", Println(line, next),
           port' = port, since' = since, made' = made,
           pc' \in {"loop"} \union Labels /\ source'
               => \/ (pc \in {"loop"} \union Labels /\ source)
                  \/ (line.says = "gateOpen" /\ pc # "off" /\ pc' # "off")
    PROVE  Opens'
<1> SUFFICES ASSUME port = "fromPowerOn" PROVE Opens'
  BY DEF Opens
<1>1. log \in Seq(LogLine) /\ Len(log) \in Nat /\ (cut => pc = "off")
  BY Types, LenProperties DEF IInv, Begun
<1>2. \A i \in 1..Len(log) : i \in 1..Len(log') /\ log'[i].says = log[i].says
  BY <1>1, Prints
<1> DEFINE Opened1 == \E i \in 1..Len(log) : log[i].says = "gateOpen"
           Opened2 == \E i \in 1..Len(log') : log'[i].says = "gateOpen"
<1>3. Opened1 => Opened2
  BY <1>2
<1>4. ASSUME pc' \in {"loop"} \union Labels, source' PROVE Opened2
  <2>1. CASE pc \in {"loop"} \union Labels /\ source
    BY <1>3, <2>1 DEF IInv, Opens
  <2>2. CASE line.says = "gateOpen" /\ pc # "off" /\ pc' # "off"
    <3>1. log' = Append(log, line)
      BY <1>1, <2>2, Prints
    <3>2. Len(log) + 1 \in 1..Len(log') /\ log'[Len(log) + 1] = line
      BY <1>1, <3>1
    <3> QED
      BY <2>2, <3>2
  <2> QED
    BY <1>4, <2>1, <2>2
<1>5. ASSUME NEW a \in made, a.boot >= since PROVE Opened2
  BY <1>3, <1>5 DEF IInv, Opens
<1> QED
  BY <1>4, <1>5 DEF Opens

LEMMA GroupedKeeps ==
    ASSUME IInv, NEW line \in LogLine, NEW next, next # "off", Println(line, next),
           port' = port, made' = made,
           line.says = "signature" => pc = "signature" /\ line.value.of = Current.signature,
           pc' = "pubkey" => pc = "payload" /\ line = Line("payload", Current.payload),
           pc' = "signature" => pc = "pubkey" /\ line = Line("pubkey", Current.pubkey)
    PROVE  Grouped'
<1> SUFFICES ASSUME port = "fromPowerOn" PROVE Grouped'
  BY DEF Grouped
<1>1. log \in Seq(LogLine) /\ Len(log) \in Nat /\ (cut => pc = "off")
  BY Types, LenProperties DEF IInv, Begun
<1>2. \A i \in 1..Len(log) : /\ log'[i].says = log[i].says
                              /\ log'[i].value.of = log[i].value.of
  BY <1>1, Prints
<1>5. \A i \in 1..Len(log) : (i # Len(log) \/ ~ cut) => log'[i] = log[i]
  BY <1>1, Prints
<1>9. Len(log') \in {Len(log), Len(log) + 1}
  BY <1>1, Prints
<1>3. Current' = Current
  BY DEF Current
<1>4. ASSUME NEW n \in 0..Len(log), NEW a, Precede(log, n, a), n # Len(log) \/ ~ cut
      PROVE  Precede(log', n, a)
  <2>1. n >= 2 /\ log[n - 1] = Line("payload", a.payload) /\ log[n] = Line("pubkey", a.pubkey)
    BY <1>4 DEF Precede
  <2>2. n \in 1..Len(log) /\ n - 1 \in 1..Len(log) /\ n - 1 # Len(log)
    BY <1>1, <2>1
  <2>3. log'[n] = log[n]
    BY <1>4, <1>5, <2>2, Zenon
  <2>4. log'[n - 1] = log[n - 1]
    <3> DEFINE m == n - 1
    <3>1. m \in 1..Len(log) /\ m # Len(log)
      BY <2>2
    <3> HIDE DEF m
    <3>2. log'[m] = log[m]
      BY <1>5, <3>1, Zenon
    <3> QED
      BY <3>2 DEF m
  <2> QED
    BY <2>1, <2>3, <2>4 DEF Precede
<1>6. ASSUME NEW i \in 1..Len(log'), log'[i].says = "signature"
      PROVE  \E a \in made : Precede(log', i - 1, a) /\ log'[i].value.of = a.signature
  <2>1. CASE i \in 1..Len(log)
    <3>0. log[i].says = "signature" /\ log'[i].value.of = log[i].value.of
      BY <1>2, <1>6, <2>1, Zenon
    <3>1. PICK a \in made : Precede(log, i - 1, a) /\ log[i].value.of = a.signature
      <4>1. \A n \in 1..Len(log) : log[n].says = "signature"
               => \E a \in made : Precede(log, n - 1, a) /\ log[n].value.of = a.signature
        BY Zenon DEF IInv, Grouped
      <4> QED
        BY <2>1, <3>0, <4>1
    <3>2. i - 1 \in 0..Len(log) /\ i - 1 # Len(log)
      BY <1>1, <2>1
    <3>3. Precede(log', i - 1, a)
      BY <1>4, <3>1, <3>2
    <3> QED
      BY <3>0, <3>1, <3>3
  <2>2. CASE i \notin 1..Len(log)
    <3>1. i - 1 = Len(log) /\ i - 1 \in 0..Len(log)
      BY <1>1, <1>9, <2>2
    <3>2. log'[i].says = line.says /\ log'[i].value.of = line.value.of
      BY <1>1, <1>6, <2>2, Prints DEF Other, Plain
    <3>3. pc = "signature" /\ log'[i].value.of = Current.signature /\ ~ cut
      BY <1>1, <1>6, <3>2
    <3>4. Current \in made
      BY <3>3, CurrentMade DEF IInv, Labels
    <3>5. Precede(log, Len(log), Current)
      BY <3>3 DEF IInv, Grouped
    <3>6. Precede(log', i - 1, Current)
      BY <1>4, <3>1, <3>3, <3>5
    <3> QED
      BY <3>3, <3>4, <3>6
  <2> QED
    BY <2>1, <2>2
<1>7. ASSUME pc' = "pubkey"
      PROVE  Len(log') >= 1 /\ log'[Len(log')] = Line("payload", Current.payload)
  <2>1. log' = Append(log, line)
    BY <1>1, <1>7, Prints
  <2> QED
    BY <1>1, <1>7, <2>1
<1>8. ASSUME pc' = "signature" PROVE Precede(log', Len(log'), Current)
  <2>1. /\ log' = Append(log, line) /\ line = Line("pubkey", Current.pubkey)
        /\ pc = "pubkey"
    BY <1>1, <1>8, Prints
  <2>2. Len(log) >= 1 /\ log[Len(log)] = Line("payload", Current.payload)
    BY <2>1 DEF IInv, Grouped
  <2>3. /\ Len(log') = Len(log) + 1 /\ log'[Len(log) + 1] = line
        /\ log'[Len(log)] = log[Len(log)] /\ Len(log') - 1 = Len(log)
    BY <1>1, <2>1, <2>2
  <2> QED
    BY <1>1, <2>1, <2>2, <2>3 DEF Precede
<1> QED
  BY <1>3, <1>6, <1>7, <1>8 DEF Grouped

LEMMA PowerOnKeeps == ASSUME IInv, port # "altered", PowerOn PROVE IInv'
<1>1. Other \in LogLine /\ Printed(Other)
  BY PlainTyped DEF Printed, Other, Words, Labels
<1>0. boot \in Nat /\ MaxBoots \in Nat
  BY Types
<1> USE <1>0
<1>2. /\ pc = "off" /\ boot' = boot + 1 /\ boot' \in 1..MaxBoots
      /\ counter' = 0 /\ source' = FALSE
      /\ gates' = gates /\ made' = made /\ port' = port /\ since' = since
  BY DEF PowerOn, capture
<1>3. /\ log' \in Seq(LogLine) /\ cut' \in BOOLEAN
      /\ pc' \in {"gateBefore", "off"} /\ (cut' => pc' = "off")
      /\ port = "closed" => log' = log
      /\ pc' # "off" /\ port # "closed" /\ (~ cut \/ log = <<>>) => log' = Append(log, Other)
      /\ \A i \in 1..Len(log) : i \in 1..Len(log') /\ log'[i].says = log[i].says
  <2>1. log \in Seq(LogLine)
    BY Types
  <2> QED
    BY <1>1, <2>1, Prints DEF PowerOn
<1>4. Typed'
  <2>1. counter' \in 0..Cardinality(made)
    BY <1>2, Types
  <2>2. boot' \in 0..MaxBoots
    BY <1>2
  <2> QED
    BY <1>2, <1>3, <2>1, <2>2 DEF IInv, Typed
<1>5. Numbered'
  <2>1. pc' \notin Labels /\ boot' >= boot
    BY <1>2, <1>3, Types DEF Labels
  <2> QED
    BY <1>2, <2>1, Types, SameMade DEF IInv
<1>6. LinesPrinted'
  BY <1>1, <1>2, Types, LinesKeep DEF IInv, PowerOn
<1>7. Begun'
  <2>1. boot < since => log = <<>> /\ since = boot + 1
    BY DEF IInv, Begun
  <2>2. ~ (boot' < since)
    BY <1>2, <2>1, Types
  <2>3. port = "closed" => log = <<>> /\ since = 0
    BY DEF IInv, Begun
  <2> QED
    BY <1>2, <1>3, <2>2, <2>3 DEF Begun
<1>8. GatesInOrder'
  BY <1>2, <1>3 DEF IInv, GatesInOrder, Labels
<1>9. Heralded'
  <2> SUFFICES ASSUME port = "fromPowerOn", NEW b \in 1..boot', b >= since,
                      (b = boot' /\ pc' # "off") \/ \E a \in made : a.boot = b,
                      gates[b] # <<>>, gates[b][1] = "UNEXPECTED"
               PROVE  \E i \in DOMAIN log' : log'[i].says = "UNEXPECTED"
    BY <1>2 DEF Heralded
  <2>1. gates[boot'] = <<>>
    BY <1>2, Types DEF IInv, GatesInOrder
  <2>2. b \in 1..boot
    <3>1. b # boot'
      BY <2>1
    <3> QED
      BY <1>2, <3>1
  <2>3. b # boot \/ pc = "off"
    BY <1>2
  <2>4. \E a \in made : a.boot = b
    BY <1>2, <2>1, <2>2, Types
  <2>5. PICK i \in DOMAIN log : log[i].says = "UNEXPECTED"
    BY <2>2, <2>4 DEF IInv, Heralded
  <2> QED
    BY <1>3, <2>5, Types, LenProperties
<1>10. Clean'
  <2>1. \A b \in 1..boot : gates'[b] = gates[b]
    BY <1>2
  <2> QED
    BY <1>1, <1>2, <2>1, CleanKeeps DEF PowerOn, Other, Plain
<1>11. Paired' /\ Opens' /\ Grouped'
  BY <1>1, <1>2, <1>3, PairedKeeps, OpensKeep, GroupedKeeps DEF PowerOn, Other, Plain, Labels
<1> QED
  BY <1>4, <1>5, <1>6, <1>7, <1>8, <1>9, <1>10, <1>11 DEF IInv

\* A panic, and the power gone between two lines.
LEMMA StopsKeep == ASSUME IInv, Panic \/ PowerLoss PROVE IInv'
<1> USE DEF Panic, PowerLoss, device, capture
<1>1. pc' \in {"halted", "off"}
  OBVIOUS
<1>2. Typed'
  BY <1>1 DEF IInv, Typed
<1>3. Numbered' /\ Begun'
  <2>1. pc' \notin Labels
    BY <1>1 DEF Labels
  <2>2. Numbered'
    BY <2>1, SameMade, Types DEF IInv
  <2>3. Begun'
    BY DEF IInv, Begun
  <2> QED
    BY <2>2, <2>3
<1>4. LinesPrinted'
  BY DEF IInv, LinesPrinted, Printed
<1>5. GatesInOrder'
  BY DEF IInv, GatesInOrder, Labels
<1>6. Heralded'
  BY DEF IInv, Heralded
<1>7. Clean' /\ Paired' /\ Opens' /\ Grouped'
  BY <1>1 DEF IInv, Clean, Paired, Opens, Grouped, Labels
<1> QED
  BY <1>2, <1>3, <1>4, <1>5, <1>6, <1>7 DEF IInv

LEMMA OpenPortKeeps == ASSUME IInv, OpenPort PROVE IInv'
<1> USE DEF OpenPort, device
<1>1. /\ Other \in LogLine /\ Printed(Other)'
      /\ Noise \in LogLine /\ Printed(Noise)'
  BY PlainTyped DEF Printed, Other, Noise, Words, Labels
<1>2. log' = <<>> \/ log' = <<Other>> \/ log' = <<Noise>>
  OBVIOUS
<1>3. log' \in Seq(LogLine)
  <2>1. <<>> \in Seq(LogLine) /\ <<Other>> \in Seq(LogLine) /\ <<Noise>> \in Seq(LogLine)
    BY <1>1
  <2> QED
    BY <1>2, <2>1
<1>4. boot \in Nat /\ since' \in {boot, boot + 1} /\ since' \in 0..MaxBoots + 1
  BY Types
<1>5. Typed'
  BY <1>3, <1>4 DEF IInv, Typed
<1>6. Numbered'
  BY <1>4, SameMade DEF IInv
<1>7. Begun'
  BY <1>4 DEF IInv, Begun
<1>8. GatesInOrder'
  BY DEF IInv, GatesInOrder
<1>9. LinesPrinted'
  BY <1>1, <1>2 DEF LinesPrinted
<1>10. Heralded'
  <2>1. port' = "fromPowerOn" => pc' = "off" /\ since' = boot' + 1
    OBVIOUS
  <2> QED
    BY <1>4, <2>1 DEF Heralded
<1>11. Clean' /\ Paired' /\ Opens' /\ Grouped'
  <2> SUFFICES ASSUME port' = "fromPowerOn" PROVE Clean' /\ Paired' /\ Opens' /\ Grouped'
    BY DEF Clean, Paired, Opens, Grouped
  <2>1. pc' = "off" /\ since' = boot + 1 /\ log' = <<>>
    OBVIOUS
  <2>2. \A a \in made : ~ (a.boot >= since')
    BY <2>1, <1>4, Types, MadeTyped DEF IInv
  <2> QED
    BY <2>1, <2>2 DEF Clean, Paired, Opens, Grouped, Labels
<1> QED
  BY <1>5, <1>6, <1>7, <1>8, <1>9, <1>10, <1>11 DEF IInv

\* Appending to a sequence that is written out.
LEMMA AppendTwo == ASSUME NEW x, NEW y PROVE Append(<<x>>, y) = <<x, y>>
<1> DEFINE A == Append(<<x>>, y)
           B == <<x, y>>
           S == {x, y}
<1>1. <<x>> \in Seq(S) /\ B \in Seq(S) /\ Len(B) = 2 /\ B[1] = x /\ B[2] = y
  OBVIOUS
<1>2. A \in Seq(S) /\ Len(A) = 2 /\ A[1] = x /\ A[2] = y
  BY <1>1
<1> HIDE DEF A, B
<1>3. Len(A) = Len(B) /\ \A i \in 1..Len(A) : A[i] = B[i]
  BY <1>1, <1>2
<1>4. A = B
  BY <1>1, <1>2, <1>3, SeqEqual, Zenon
<1> QED
  BY <1>4 DEF A, B

\* A boot that has not printed both gate lines has attested nothing.
LEMMA NoneBeforeGate ==
    ASSUME IInv, pc \in {"gateBefore", "gateAfter"}, NEW a \in made
    PROVE  a.boot # boot
<1>1. gates[a.boot] \in Opened
  BY DEF IInv, GatesInOrder
<1>2. gates[boot] \in {<<>>, <<"gateHolds">>, <<"UNEXPECTED">>}
  BY DEF IInv, GatesInOrder
<1>3. \A g \in Opened : Len(g) = 2
  BY DEF Opened
<1>4. \A g \in {<<>>, <<"gateHolds">>, <<"UNEXPECTED">>} : Len(g) # 2
  OBVIOUS
<1> QED
  BY <1>1, <1>2, <1>3, <1>4

LEMMA GateKeeps ==
    ASSUME IInv, port # "altered", NEW word \in GateWords, NEW next, Gate(word, next),
           \/ /\ pc = "gateBefore" /\ next = "gateAfter"
              /\ word \in {"gateHolds", "UNEXPECTED"} /\ source' = source
           \/ /\ pc = "gateAfter" /\ next = "loop" /\ source' \in BOOLEAN
              /\ word \in {"gateOpen", "UNEXPECTED"} /\ (source' => word = "gateOpen")
    PROVE  IInv'
<1>1. /\ pc \in {"gateBefore", "gateAfter"} /\ pc # "off"
      /\ next \in {"gateAfter", "loop"} /\ next # "off"
  OBVIOUS
<1>2. /\ boot' = boot /\ counter' = counter /\ made' = made
      /\ port' = port /\ since' = since
      /\ gates' = [gates EXCEPT ![boot] = Append(gates[boot], word)]
  BY DEF Gate, capture
<1>3. boot \in 1..MaxBoots /\ boot >= since /\ ~ cut
  BY <1>1, Types DEF IInv, Begun
<1>4. /\ gates' \in [1..MaxBoots -> Seq(GateWords)]
      /\ gates'[boot] = Append(gates[boot], word)
      /\ \A b \in 1..MaxBoots : b # boot => gates'[b] = gates[b]
  BY <1>2, <1>3, Types
<1>5. /\ pc = "gateBefore" => gates[boot] = <<>> /\ gates'[boot] = <<word>>
      /\ pc = "gateAfter" => \E w \in {"gateHolds", "UNEXPECTED"} :
                               gates[boot] = <<w>> /\ gates'[boot] = <<w, word>>
  <2>1. CASE pc = "gateBefore"
    <3>1. gates[boot] = <<>>
      BY <2>1 DEF IInv, GatesInOrder
    <3>2. Append(<<>>, word) = <<word>>
      OBVIOUS
    <3> QED
      BY <1>4, <2>1, <3>1, <3>2
  <2>2. CASE pc = "gateAfter"
    <3>1. PICK w \in {"gateHolds", "UNEXPECTED"} : gates[boot] = <<w>>
      BY <2>2 DEF IInv, GatesInOrder
    <3>2. Append(<<w>>, word) = <<w, word>>
      BY AppendTwo, Zenon
    <3>3. gates'[boot] = <<w, word>>
      BY <1>4, <3>1, <3>2
    <3> QED
      BY <2>2, <3>1, <3>3
  <2> QED
    BY <1>1, <2>1, <2>2
<1>6. \A a \in made : a.boot # boot /\ a.boot \in 1..MaxBoots
  BY <1>1, NoneBeforeGate, MadeTyped, Types DEF IInv
<1>7. /\ Plain(word) \in LogLine /\ Printed(Plain(word)) /\ Plain(word).says = word
  BY PlainTyped DEF Printed, Words, GateWords, Labels
<1>8. /\ log' \in Seq(LogLine) /\ cut' \in BOOLEAN
      /\ pc' \in {next, "off"} /\ (cut' => pc' = "off")
      /\ port = "closed" => log' = log
      /\ pc' # "off" /\ port # "closed" => log' = Append(log, Plain(word))
      /\ \A i \in 1..Len(log) : i \in 1..Len(log') /\ log'[i].says = log[i].says
  <2>1. log \in Seq(LogLine)
    BY Types
  <2> QED
    BY <1>1, <1>3, <1>7, <2>1, Prints DEF Gate
<1>9. Typed'
  BY <1>1, <1>2, <1>4, <1>8 DEF IInv, Typed
<1>10. Numbered'
  <2>1. pc' \notin Labels
    BY <1>1, <1>8 DEF Labels
  <2> QED
    BY <1>2, <2>1, Types, SameMade DEF IInv
<1>11. LinesPrinted'
  BY <1>1, <1>2, <1>7, Types, LinesKeep DEF IInv, Gate
<1>12. Begun'
  BY <1>1, <1>2, <1>3, <1>8, Types DEF IInv, Begun
<1>13. GatesInOrder'
  <2>1. \A b \in boot' + 1..MaxBoots : gates'[b] = <<>>
    BY <1>2, <1>3, <1>4 DEF IInv, GatesInOrder
  <2>2. \A a \in made' : gates'[a.boot] \in Opened
    BY <1>2, <1>4, <1>6 DEF IInv, GatesInOrder
  <2>3. pc' = "gateAfter" => gates'[boot] \in {<<"gateHolds">>, <<"UNEXPECTED">>}
    BY <1>5, <1>8
  <2>4. pc' = "loop" => Len(gates'[boot]) = 2 /\ (source' => gates'[boot] \in Opened)
    <3> SUFFICES ASSUME pc' = "loop"
                 PROVE  Len(gates'[boot]) = 2 /\ (source' => gates'[boot] \in Opened)
      OBVIOUS
    <3>1. pc = "gateAfter" /\ (source' => word = "gateOpen")
      BY <1>8
    <3>2. PICK w \in {"gateHolds", "UNEXPECTED"} : gates'[boot] = <<w, word>>
      BY <1>5, <3>1
    <3> QED
      BY <3>1, <3>2 DEF Opened
  <2> QED
    BY <1>1, <1>2, <1>8, <2>1, <2>2, <2>3, <2>4 DEF GatesInOrder, Labels
<1>14. Heralded'
  <2> SUFFICES ASSUME port = "fromPowerOn", NEW b \in 1..boot, b >= since,
                      (b = boot /\ pc' # "off") \/ \E a \in made : a.boot = b,
                      gates'[b] # <<>>, gates'[b][1] = "UNEXPECTED"
               PROVE  \E i \in 1..Len(log') : log'[i].says = "UNEXPECTED"
    BY <1>2, <1>8, LenProperties DEF Heralded
  <2>1. CASE pc = "gateBefore" /\ b = boot
    <3>1. word = "UNEXPECTED" /\ pc' # "off"
      BY <1>5, <1>6, <2>1
    <3>2. log' = Append(log, Plain(word))
      BY <1>8, <3>1
    <3>3. Len(log) + 1 \in 1..Len(log') /\ log'[Len(log) + 1] = Plain(word)
      BY <1>7, <3>2, Types, LenProperties
    <3> QED
      BY <1>7, <3>1, <3>3
  <2>2. CASE pc = "gateAfter" \/ b # boot
    <3>1. gates[b] # <<>> /\ gates[b][1] = "UNEXPECTED"
      BY <1>1, <1>3, <1>4, <1>5, <2>2
    <3>2. PICK i \in DOMAIN log : log[i].says = "UNEXPECTED"
      BY <1>1, <3>1 DEF IInv, Heralded
    <3> QED
      BY <1>8, <3>2, Types, LenProperties
  <2> QED
    BY <1>1, <2>1, <2>2
<1>15. Clean'
  <2>1. Len(gates[boot]) \in Nat /\ gates[boot] \in Seq(GateWords)
    BY <1>3, Types, LenProperties
  <2>2. /\ Len(gates'[boot]) = Len(gates[boot]) + 1
        /\ gates'[boot][Len(gates[boot]) + 1] = word
        /\ \A n \in 1..Len(gates[boot]) : gates'[boot][n] = gates[boot][n]
    BY <1>4, <2>1
  <2>3. \A b \in 1..boot : (\E n \in 1..Len(gates[b]) : gates[b][n] = "UNEXPECTED")
                               => \E n \in 1..Len(gates'[b]) : gates'[b][n] = "UNEXPECTED"
    <3> TAKE b \in 1..boot
    <3>1. CASE b = boot
      BY <2>1, <2>2, <3>1
    <3>2. CASE b # boot
      BY <1>3, <1>4, <3>2, Types
    <3> QED
      BY <3>1, <3>2
  <2>4. word = "UNEXPECTED" => \E b \in 1..boot :
              b >= since /\ \E n \in 1..Len(gates'[b]) : gates'[b][n] = "UNEXPECTED"
    <3>1. boot \in 1..boot /\ boot >= since
      BY <1>3
    <3>2. Len(gates[boot]) + 1 \in 1..Len(gates'[boot])
      BY <2>1, <2>2
    <3> QED
      BY <2>2, <3>1, <3>2
  <2> DEFINE line == Plain(word)
  <2>5. line.says # "noise" /\ Println(line, next) /\ line \in LogLine
    BY <1>7 DEF GateWords, Gate
  <2>6. line.says = "UNEXPECTED" => \E b \in 1..boot' :
              b >= since /\ \E n \in 1..Len(gates'[b]) : gates'[b][n] = "UNEXPECTED"
    BY <1>2, <1>7, <2>4
  <2>7. boot' \in Nat /\ boot' >= boot
    BY <1>2, Types
  <2> HIDE DEF line
  <2> QED
    BY <1>1, <1>2, <2>3, <2>5, <2>6, <2>7, CleanKeeps
<1>16. Paired'
  <2>1. Println(Plain(word), next) /\ (pc' = "gateAfter" => word \in GateWord /\ pc # "off")
    BY <1>1, <1>8 DEF Gate, GateWord
  <2> QED
    BY <1>1, <1>2, <1>7, <2>1, PairedKeeps
<1>17. Opens'
  <2>1. Println(Plain(word), next)
    BY DEF Gate
  <2>2. pc' \in {"loop"} \union Labels /\ source' => word = "gateOpen" /\ pc # "off" /\ pc' # "off"
    BY <1>1, <1>8 DEF Labels
  <2> QED
    BY <1>1, <1>2, <1>7, <2>1, <2>2, OpensKeep
<1>18. Grouped'
  <2>1. Println(Plain(word), next) /\ word # "signature" /\ pc' \notin {"pubkey", "signature"}
    BY <1>1, <1>8 DEF GateWords, Gate
  <2> QED
    BY <1>1, <1>2, <1>7, <2>1, GroupedKeeps
<1> QED
  BY <1>9, <1>10, <1>11, <1>12, <1>13, <1>14, <1>15, <1>16, <1>17, <1>18 DEF IInv

LEMMA GatesKeep ==
    ASSUME IInv, port # "altered", NEW available \in BOOLEAN,
           GateBeforeSource(available) \/ GateAfterSource(available)
    PROVE  IInv'
<1>1. CASE GateBeforeSource(available)
  <2> DEFINE word == IF available THEN "UNEXPECTED" ELSE "gateHolds"
  <2>1. word \in {"gateHolds", "UNEXPECTED"} /\ word \in GateWords
    BY DEF GateWords
  <2>2. pc = "gateBefore" /\ source' = source /\ Gate(word, "gateAfter")
    BY <1>1 DEF GateBeforeSource
  <2> HIDE DEF word
  <2> QED
    BY <2>1, <2>2, GateKeeps
<1>2. CASE GateAfterSource(available)
  <2> DEFINE word == IF available THEN "gateOpen" ELSE "UNEXPECTED"
  <2>1. word \in {"gateOpen", "UNEXPECTED"} /\ word \in GateWords
    BY DEF GateWords
  <2>2. pc = "gateAfter" /\ source' = available /\ Gate(word, "loop")
    BY <1>2 DEF GateAfterSource
  <2>3. source' \in BOOLEAN /\ (source' => word = "gateOpen")
    BY <2>2
  <2> HIDE DEF word
  <2> QED
    BY <2>1, <2>2, <2>3, GateKeeps
<1> QED
  BY <1>1, <1>2

LEMMA AttestKeeps == ASSUME IInv, Attest PROVE IInv'
<1> DEFINE key == Cardinality(made) + 1
           new == [boot |-> boot, payload |-> <<counter>>, pubkey |-> <<key>>,
                   signature |-> Sign(<<key>>, <<counter>>)]
<1>1. /\ pc = "loop" /\ source /\ Cardinality(made) < MaxPresses
      /\ made' = made \union {new} /\ counter' = counter + 1 /\ pc' = "payload"
      /\ boot' = boot /\ source' = source /\ gates' = gates /\ port' = port
      /\ since' = since /\ cut' = cut /\ log' = log
  BY DEF Attest, capture
<1>2. new.boot = boot /\ new.pubkey = <<key>>
  OBVIOUS
<1>3. \A a \in made : a.pubkey # <<key>> /\ a.boot \in 1..boot
  <2> TAKE a \in made
  <2>1. PICK k \in 1..Cardinality(made) : a.pubkey = <<k>>
    BY MadeTyped, Types DEF IInv
  <2>2. k # key
    BY Types
  <2> QED
    BY <2>1, <2>2, MadeTyped, Types DEF IInv
<1> HIDE DEF new
<1>4. IsFiniteSet(made') /\ Cardinality(made') = key
  <2>1. IsFiniteSet(made) /\ new \notin made
    BY <1>2, <1>3 DEF IInv, Typed
  <2> QED
    BY <1>1, <2>1, FS_AddElement
<1> HIDE DEF key
<1>5. key = Cardinality(made) + 1 /\ key \in 1..MaxPresses /\ key \in Nat
  BY <1>1, Types DEF key
<1>6. boot \in 1..MaxBoots
  BY <1>1, Types DEF IInv, Begun
<1>7. Typed'
  <2>1. counter' \in 0..Cardinality(made')
    BY <1>1, <1>4, <1>5, Types DEF IInv, Typed
  <2>2. Cardinality(made') \in 0..MaxPresses
    BY <1>4, <1>5
  <2> QED
    BY <1>1, <1>4, <2>1, <2>2 DEF IInv, Typed
<1>8. Numbered'
  <2>1. ASSUME NEW a \in made'
        PROVE  \E b \in 1..boot, c \in 0..MaxPresses, k \in 1..key :
                  a = [boot |-> b, payload |-> <<c>>, pubkey |-> <<k>>,
                       signature |-> Sign(<<k>>, <<c>>)]
    <3>1. CASE a \in made
      <4>1. PICK b \in 1..boot, c \in 0..MaxPresses, k \in 1..Cardinality(made) :
                  a = [boot |-> b, payload |-> <<c>>, pubkey |-> <<k>>,
                       signature |-> Sign(<<k>>, <<c>>)]
        BY <3>1 DEF IInv, Numbered
      <4>2. k \in 1..key
        BY <1>5, Types
      <4> QED
        BY <4>1, <4>2
    <3>2. CASE a = new
      <4>1. boot \in 1..boot /\ counter \in 0..MaxPresses /\ key \in 1..key
        BY <1>5, <1>6, Types DEF IInv, Typed
      <4> QED
        BY <3>2, <4>1 DEF new
    <3> QED
      BY <1>1, <3>1, <3>2
  <2>2. \A a, b \in made' : a.pubkey = b.pubkey => a = b
    BY <1>1, <1>2, <1>3 DEF IInv, Numbered
  <2>3. \E a \in made' : a.pubkey = <<key>> /\ a.boot = boot
    BY <1>1, <1>2
  <2>4. boot' = boot
    BY <1>1
  <2> QED
    BY <1>4, <2>1, <2>2, <2>3, <2>4 DEF Numbered
<1>9. LinesPrinted'
  <2> SUFFICES ASSUME NEW i \in DOMAIN log
               PROVE  Printed(log[i])' \/ (port' = "altered" /\ log'[i].value.of = NotAPoint)
    BY <1>1 DEF LinesPrinted
  <2>1. Printed(log[i]) \/ (port = "altered" /\ log[i].value.of = NotAPoint)
    BY DEF IInv, LinesPrinted
  <2>2. ASSUME Printed(log[i]) PROVE Printed(log[i])'
    BY <1>1, <2>2, PrintedSame
  <2> QED
    BY <1>1, <2>1, <2>2
<1>10. Begun'
  BY <1>1, <1>6 DEF IInv, Begun
<1>11. gates[boot] \in Opened
  BY <1>1 DEF IInv, GatesInOrder
<1>12. GatesInOrder'
  BY <1>1, <1>2, <1>11 DEF IInv, GatesInOrder, Labels, Opened
<1>13. Heralded'
  BY <1>1, <1>2 DEF IInv, Heralded
<1>14. Clean' /\ Paired' /\ Opens'
  <2>1. Clean'
    BY <1>1 DEF IInv, Clean
  <2>2. Paired'
    BY <1>1 DEF IInv, Paired
  <2>3. port = "fromPowerOn" => \E i \in 1..Len(log) : log[i].says = "gateOpen"
    BY <1>1 DEF IInv, Opens
  <2>4. Opens'
    BY <1>1, <2>3 DEF Opens
  <2> QED
    BY <2>1, <2>2, <2>4
<1>15. Grouped'
  BY <1>1 DEF IInv, Grouped, Precede
<1> QED
  BY <1>7, <1>8, <1>9, <1>10, <1>12, <1>13, <1>14, <1>15 DEF IInv

\* One of the three lines of the attestation under way.
LEMMA PrintKeeps ==
    ASSUME IInv, port # "altered", NEW label \in Labels, NEW value, NEW next, pc = label,
           Println(Line(label, value), next), UNCHANGED <<device, capture>>,
           \/ label = "payload" /\ value = Current.payload /\ next = "pubkey"
           \/ label = "pubkey" /\ value = Current.pubkey /\ next = "signature"
           \/ label = "signature" /\ value = Current.signature /\ next = "loop"
    PROVE  IInv'
<1> DEFINE line == Line(label, value)
<1>1. /\ boot' = boot /\ counter' = counter /\ source' = source /\ gates' = gates
      /\ made' = made /\ port' = port /\ since' = since
  BY DEF device, capture
<1>2. /\ pc \in Labels /\ pc # "off" /\ next \in {"pubkey", "signature", "loop"}
      /\ next # "off"
  BY DEF Labels
<1>3. boot >= since /\ ~ cut
  BY <1>2, Types DEF IInv, Begun
<1>4. Current \in made /\ Current.pubkey = <<Cardinality(made)>> /\ Current.boot = boot
  BY <1>2, CurrentMade DEF IInv
<1>5. value \in Seq(Nat)
  <2>1. {Current.payload, Current.pubkey, Current.signature} \subseteq Seq(Nat)
    BY <1>4, Types, MadeTyped DEF IInv
  <2> QED
    BY <2>1
<1>6. line \in LogLine /\ line.says = label /\ line.value.of = value
  BY <1>5, LineTyped DEF Words
<1>7. Printed(line)
  BY <1>3, <1>4, <1>6 DEF Printed
<1>8. /\ log' \in Seq(LogLine) /\ cut' \in BOOLEAN
      /\ pc' \in {next, "off"} /\ (cut' => pc' = "off")
      /\ port = "closed" => log' = log
      /\ pc' # "off" /\ port # "closed" => log' = Append(log, line)
      /\ \A i \in 1..Len(log) : i \in 1..Len(log') /\ log'[i].says = log[i].says
  <2>1. log \in Seq(LogLine)
    BY Types
  <2> HIDE DEF line
  <2>2. Println(line, next)
    BY DEF line
  <2> QED
    BY <1>2, <1>3, <1>6, <2>1, <2>2, Prints
<1>9. Typed'
  BY <1>1, <1>2, <1>8 DEF IInv, Typed
<1>10. Numbered'
  BY <1>1, <1>2, Types, SameMade DEF IInv
<1>11. LinesPrinted'
  BY <1>1, <1>2, <1>6, <1>7, Types, LinesKeep DEF IInv
<1>12. Begun'
  BY <1>1, <1>2, <1>3, <1>8, Types DEF IInv, Begun
<1>13. GatesInOrder'
  BY <1>1, <1>2, <1>8 DEF IInv, GatesInOrder, Labels
<1>14. Heralded'
  <2> SUFFICES ASSUME port = "fromPowerOn", NEW b \in 1..boot, b >= since,
                      (b = boot /\ pc' # "off") \/ \E a \in made : a.boot = b,
                      gates[b] # <<>>, gates[b][1] = "UNEXPECTED"
               PROVE  \E i \in 1..Len(log') : log'[i].says = "UNEXPECTED"
    BY <1>1, <1>8, LenProperties DEF Heralded
  <2>1. PICK i \in DOMAIN log : log[i].says = "UNEXPECTED"
    BY <1>2 DEF IInv, Heralded
  <2> QED
    BY <1>8, <2>1, Types, LenProperties
<1>15. Println(line, next)
  OBVIOUS
<1>16. Clean'
  <2>1. line.says # "noise" /\ line.says # "UNEXPECTED"
    BY <1>6 DEF Labels
  <2> HIDE DEF line
  <2> QED
    BY <1>1, <1>2, <1>6, <1>15, <2>1, Types, CleanKeeps
<1>17. Paired'
  <2>1. line.says # "gateOpen" /\ pc' # "gateAfter"
    BY <1>2, <1>6, <1>8 DEF Labels
  <2> HIDE DEF line
  <2> QED
    BY <1>1, <1>2, <1>6, <1>15, <2>1, PairedKeeps
<1>18. Opens'
  <2>1. source' /\ pc' \in {"loop"} \union Labels => source /\ pc \in {"loop"} \union Labels
    BY <1>1, <1>2
  <2> HIDE DEF line
  <2> QED
    BY <1>1, <1>2, <1>6, <1>15, <2>1, OpensKeep
<1>19. Grouped'
  <2>1. /\ line.says = "signature" => pc = "signature" /\ line.value.of = Current.signature
        /\ pc' = "pubkey" => pc = "payload" /\ line = Line("payload", Current.payload)
        /\ pc' = "signature" => pc = "pubkey" /\ line = Line("pubkey", Current.pubkey)
    BY <1>6, <1>8
  <2> HIDE DEF line
  <2> QED
    BY <1>1, <1>2, <1>6, <1>15, <2>1, GroupedKeeps
<1> QED
  BY <1>9, <1>10, <1>11, <1>12, <1>13, <1>14, <1>16, <1>17, <1>18, <1>19 DEF IInv

LEMMA PrintsKeep ==
    ASSUME IInv, port # "altered", PrintPayload \/ PrintPubkey \/ PrintSignature
    PROVE  IInv'
<1>1. CASE PrintPayload
  <2>1. /\ pc = "payload" /\ UNCHANGED <<device, capture>>
        /\ Println(Line("payload", Current.payload), "pubkey")
    BY <1>1, Zenon DEF PrintPayload
  <2> QED
    BY <2>1, PrintKeeps DEF Labels
<1>2. CASE PrintPubkey
  <2>1. /\ pc = "pubkey" /\ UNCHANGED <<device, capture>>
        /\ Println(Line("pubkey", Current.pubkey), "signature")
    BY <1>2, Zenon DEF PrintPubkey
  <2> QED
    BY <2>1, PrintKeeps DEF Labels
<1>3. CASE PrintSignature
  <2>1. /\ pc = "signature" /\ UNCHANGED <<device, capture>>
        /\ Println(Line("signature", Current.signature), "loop")
    BY <1>3, Zenon DEF PrintSignature
  <2> QED
    BY <2>1, PrintKeeps DEF Labels
<1> QED
  BY <1>1, <1>2, <1>3

LEMMA NoPoint ==
    ASSUME NEW line \in LogLine
    PROVE  LET m == [line EXCEPT !.value.of = NotAPoint]
           IN  m \in LogLine /\ m.value.of = NotAPoint
<1>1. [line EXCEPT !.value.of = NotAPoint]
          = [line EXCEPT !.value = [line.value EXCEPT !.of = NotAPoint]]
  BY DEF LogLine
<1>2. NotAPoint \in Seq(Nat)
  BY DEF NotAPoint
<1> QED
  BY <1>1, <1>2 DEF LogLine

LEMMA Turned ==
    ASSUME NEW line \in LogLine
    PROVE  LET m == [line EXCEPT !.says = "UNEXPECTED"]
           IN  m \in LogLine /\ m.says = "UNEXPECTED" /\ m.value.of = line.value.of
<1>1. "UNEXPECTED" \in Words
  BY DEF Words, GateWords
<1> QED
  BY <1>1 DEF LogLine

\* A log without one of its lines holds lines of the log.
LEMMA Removed ==
    ASSUME NEW l \in Seq(LogLine), NEW i \in 1..Len(l)
    PROVE  /\ RemoveAt(l, i) \in Seq(LogLine)
           /\ \A j \in 1..Len(RemoveAt(l, i)) : \E k \in 1..Len(l) : RemoveAt(l, i)[j] = l[k]
<1> DEFINE A == SubSeq(l, 1, i - 1)
           B == SubSeq(l, i + 1, Len(l))
<1>1. Len(l) \in Nat /\ i \in Nat
  BY LenProperties
<1>2. /\ A \in Seq(LogLine) /\ Len(A) = i - 1
      /\ \A j \in 1..i - 1 : A[j] = l[j]
  BY <1>1, SubSeqProperties
<1>3. /\ B \in Seq(LogLine) /\ Len(B) = Len(l) - i
      /\ \A j \in 1..Len(l) - i : B[j] = l[i + j]
  BY <1>1, SubSeqProperties
<1>4. RemoveAt(l, i) = A \o B
  BY DEF RemoveAt
<1> HIDE DEF A, B
<1>5. /\ A \o B \in Seq(LogLine)
      /\ Len(A \o B) = Len(A) + Len(B)
      /\ \A j \in 1..Len(A) + Len(B) :
            (A \o B)[j] = IF j <= Len(A) THEN A[j] ELSE B[j - Len(A)]
  BY <1>2, <1>3, ConcatProperties, Zenon
<1>6. ASSUME NEW C, C = A \o B PROVE C = RemoveAt(l, i)
  BY <1>4, <1>6
<1>7. ASSUME NEW j \in 1..Len(A \o B)
      PROVE  \E k \in 1..Len(l) : (A \o B)[j] = l[k]
  <2>1. j \in 1..Len(l) - 1 /\ j \in 1..Len(A) + Len(B)
    BY <1>1, <1>2, <1>3, <1>5
  <2>2. (A \o B)[j] = IF j <= Len(A) THEN A[j] ELSE B[j - Len(A)]
    BY <1>5, <2>1
  <2>3. CASE j <= i - 1
    <3>1. (A \o B)[j] = l[j] /\ j \in 1..Len(l)
      BY <1>1, <1>2, <2>1, <2>2, <2>3
    <3> QED
      BY <3>1
  <2>4. CASE ~ (j <= i - 1)
    <3>1. j - (i - 1) \in 1..Len(l) - i /\ j + 1 \in 1..Len(l) /\ i + (j - (i - 1)) = j + 1
      BY <1>1, <2>1, <2>4
    <3>2. (A \o B)[j] = l[j + 1]
      BY <1>1, <1>2, <1>3, <2>2, <2>4, <3>1
    <3> QED
      BY <3>1, <3>2
  <2> QED
    BY <2>3, <2>4
<1> QED
  BY <1>4, <1>5, <1>7, Zenon

\* An altered line is one of the log's, or differs from it as described.
LEMMA AlteredLines ==
    ASSUME NEW l \in Seq(LogLine), NEW m \in Altered(l)
    PROVE  /\ m \in Seq(LogLine)
           /\ \A i \in 1..Len(m) : \E k \in 1..Len(l) :
                 \/ m[i].says = l[k].says /\ m[i].value.of = l[k].value.of
                 \/ m[i].value.of = NotAPoint
                 \/ m[i].says = "UNEXPECTED" /\ l[k].says \in GateWords
                    /\ m[i].value.of = l[k].value.of
<1>0. DOMAIN l = 1..Len(l) /\ Len(l) \in Nat
  BY LenProperties
<1>6. \A i \in 1..Len(l) : l[i] \in LogLine
  BY ElementOfSeq
<1>1. CASE m \in {RemoveAt(l, i) : i \in DOMAIN l}
  <2>1. PICK i \in 1..Len(l) : m = RemoveAt(l, i)
    BY <1>0, <1>1
  <2> QED
    BY <2>1, Removed
<1>2. CASE m \in {[l EXCEPT ![i].value.of = NotAPoint] : i \in DOMAIN l}
  <2>1. PICK i \in 1..Len(l) : m = [l EXCEPT ![i].value.of = NotAPoint]
    BY <1>0, <1>2
  <2> DEFINE line == [l[i] EXCEPT !.value.of = NotAPoint]
  <2>2. line \in LogLine /\ line.value.of = NotAPoint
    BY <1>6, NoPoint
  <2>3. m = [l EXCEPT ![i] = line]
    BY <2>1
  <2> HIDE DEF line
  <2>4. m \in Seq(LogLine) /\ Len(m) = Len(l)
    BY <2>2, <2>3
  <2>5. \A j \in 1..Len(l) : m[j] = IF j = i THEN line ELSE l[j]
    BY <2>2, <2>3
  <2> QED
    BY <2>2, <2>4, <2>5
<1>3. CASE m \in {[l EXCEPT ![i].value.left = "short"] : i \in DOMAIN l}
  <2>1. PICK i \in 1..Len(l) : m = [l EXCEPT ![i].value.left = "short"]
    BY <1>0, <1>3
  <2> DEFINE line == [l[i] EXCEPT !.value.left = "short"]
  <2>2. line \in LogLine /\ line.says = l[i].says /\ line.value.of = l[i].value.of
    BY <1>6, Cut DEF Remains
  <2>3. m = [l EXCEPT ![i] = line]
    BY <2>1
  <2> HIDE DEF line
  <2>4. m \in Seq(LogLine) /\ Len(m) = Len(l)
    BY <2>2, <2>3
  <2>5. \A j \in 1..Len(l) : m[j] = IF j = i THEN line ELSE l[j]
    BY <2>2, <2>3
  <2> QED
    BY <2>2, <2>4, <2>5
<1>4. CASE m \in {[l EXCEPT ![i].says = "UNEXPECTED"] :
                     i \in {j \in DOMAIN l : l[j].says \in GateWords}}
  <2>1. PICK i \in 1..Len(l) : /\ l[i].says \in GateWords
                               /\ m = [l EXCEPT ![i].says = "UNEXPECTED"]
    BY <1>0, <1>4
  <2> DEFINE line == [l[i] EXCEPT !.says = "UNEXPECTED"]
  <2>2. line \in LogLine /\ line.says = "UNEXPECTED" /\ line.value.of = l[i].value.of
    BY <1>6, Turned
  <2>3. m = [l EXCEPT ![i] = line] /\ l[i].says \in GateWords
    BY <2>1
  <2> HIDE DEF line
  <2>4. m \in Seq(LogLine) /\ Len(m) = Len(l)
    BY <2>2, <2>3
  <2>5. \A j \in 1..Len(l) : m[j] = IF j = i THEN line ELSE l[j]
    BY <2>2, <2>3
  <2> QED
    BY <2>2, <2>3, <2>4, <2>5
<1>5. CASE m \in {[l EXCEPT ![i] = l[i + 1], ![i + 1] = l[i]] : i \in 1..Len(l) - 1}
  <2>1. PICK i \in 1..Len(l) - 1 : m = [l EXCEPT ![i] = l[i + 1], ![i + 1] = l[i]]
    BY <1>5
  <2>2. i \in 1..Len(l) /\ i + 1 \in 1..Len(l) /\ l[i] \in LogLine /\ l[i + 1] \in LogLine
    BY <1>0, ElementOfSeq
  <2>3. m \in Seq(LogLine) /\ Len(m) = Len(l)
    BY <2>1, <2>2
  <2>4. \A j \in 1..Len(l) : m[j] = IF j = i + 1 THEN l[i] ELSE IF j = i THEN l[i + 1] ELSE l[j]
    BY <2>1, <2>2
  <2>5. \A j \in 1..Len(l) : \E k \in 1..Len(l) : m[j] = l[k]
    BY <2>2, <2>4
  <2> QED
    BY <2>3, <2>5
<1> QED
  BY <1>1, <1>2, <1>3, <1>4, <1>5 DEF Altered

LEMMA AcceptedHasLines == Accepted => log # <<>>
BY DEF Accepted, Verdict

LEMMA AlterKeeps == ASSUME IInv, Alter PROVE IInv'
<1>1. /\ pc' = pc /\ boot' = boot /\ counter' = counter /\ source' = source /\ gates' = gates
      /\ made' = made /\ since' = since /\ cut' = cut
      /\ port' = "altered" /\ log' \in Altered(log) /\ Accepted
  BY DEF Alter, device
<1>2. log' \in Seq(LogLine)
  BY <1>1, AlteredLines, Types
<1>3. Typed'
  BY <1>1, <1>2 DEF IInv, Typed
<1>4. Numbered'
  <2>1. Numbered /\ boot \in Nat
    BY Types DEF IInv
  <2> QED
    BY <1>1, <2>1, SameMade
<1>5. log # <<>>
  BY <1>1, AcceptedHasLines
<1>6. Begun'
  BY <1>1, <1>5 DEF IInv, Begun
<1>7. GatesInOrder'
  BY <1>1 DEF IInv, GatesInOrder
<1>8. Heralded' /\ Clean' /\ Paired' /\ Opens' /\ Grouped'
  BY <1>1 DEF Heralded, Clean, Paired, Opens, Grouped
<1>9. LinesPrinted'
  <2> SUFFICES ASSUME NEW i \in 1..Len(log')
               PROVE  Printed(log[i])' \/ log'[i].value.of = NotAPoint
    BY <1>1, <1>2, LenProperties DEF LinesPrinted
  <2>1. PICK k \in 1..Len(log) :
              \/ log'[i].says = log[k].says /\ log'[i].value.of = log[k].value.of
              \/ log'[i].value.of = NotAPoint
              \/ log'[i].says = "UNEXPECTED" /\ log[k].says \in GateWords
                 /\ log'[i].value.of = log[k].value.of
    BY <1>1, AlteredLines, Types
  <2>2. Printed(log[k]) \/ log[k].value.of = NotAPoint
    BY Types, LenProperties DEF IInv, LinesPrinted
  <2>3. CASE log'[i].says = log[k].says /\ log'[i].value.of = log[k].value.of
    BY <1>1, <2>2, <2>3, PrintedSame
  <2>4. CASE /\ log'[i].says = "UNEXPECTED" /\ log[k].says \in GateWords
             /\ log'[i].value.of = log[k].value.of /\ Printed(log[k])
    <3>1. log[k].value.of = <<>>
      BY <2>4 DEF Printed, GateWords, Labels
    <3> QED
      BY <2>4, <3>1 DEF Printed, Labels
  <2> QED
    BY <2>1, <2>2, <2>3, <2>4
<1> QED
  BY <1>3, <1>4, <1>6, <1>7, <1>8, <1>9 DEF IInv

LEMMA NextIInv == IInv /\ [Next]_vars => IInv'
<1>1. ASSUME IInv, Next PROVE IInv'
  <2>1. port # "altered"
    BY <1>1 DEF Next
  <2>2. CASE PowerOn
    BY <1>1, <2>1, <2>2, PowerOnKeeps
  <2>3. CASE Panic \/ PowerLoss
    BY <1>1, <2>3, StopsKeep
  <2>4. ASSUME NEW available \in BOOLEAN,
               GateBeforeSource(available) \/ GateAfterSource(available)
        PROVE  IInv'
    BY <1>1, <2>1, <2>4, GatesKeep
  <2>5. CASE Attest
    BY <1>1, <2>5, AttestKeeps
  <2>6. CASE PrintPayload \/ PrintPubkey \/ PrintSignature
    BY <1>1, <2>1, <2>6, PrintsKeep
  <2>7. CASE OpenPort
    BY <1>1, <2>7, OpenPortKeeps
  <2>8. CASE Alter
    BY <1>1, <2>8, AlterKeeps
  <2> QED
    BY <1>1, <2>2, <2>3, <2>4, <2>5, <2>6, <2>7, <2>8 DEF Next
<1>2. ASSUME IInv, UNCHANGED vars PROVE IInv'
  <2>1. /\ pc' = pc /\ boot' = boot /\ counter' = counter /\ source' = source
        /\ gates' = gates /\ made' = made /\ port' = port /\ since' = since
        /\ cut' = cut /\ log' = log
    BY <1>2 DEF vars, device, capture
  <2>4. Typed' /\ Begun'
    BY <1>2, <2>1 DEF IInv, Typed, Begun
  <2>5. Numbered'
    BY <1>2, <2>1 DEF IInv, Numbered
  <2>6. GatesInOrder' /\ Heralded'
    BY <1>2, <2>1 DEF IInv, GatesInOrder, Heralded
  <2>2. LinesPrinted'
    BY <1>2, <2>1 DEF IInv, LinesPrinted, Printed
  <2>3. Clean' /\ Paired' /\ Opens'
    BY <1>2, <2>1 DEF IInv, Clean, Paired, Opens
  <2>7. Grouped'
    BY <1>2, <2>1 DEF IInv, Grouped, Precede, Current
  <2> QED
    BY <2>2, <2>3, <2>4, <2>5, <2>6, <2>7 DEF IInv
<1> QED
  BY <1>1, <1>2

LEMMA Inductive == Spec => []IInv
BY InitIInv, NextIInv, PTL DEF Spec

--------------------------------------------------------------------------------
LEMMA Pair == ASSUME NEW x, NEW y PROVE <<x>> \o <<y>> = <<x, y>>
<1> DEFINE A == <<x>> \o <<y>>
           B == <<x, y>>
           S == {x, y}
<1>1. /\ <<x>> \in Seq(S) /\ <<y>> \in Seq(S) /\ B \in Seq(S)
      /\ Len(<<x>>) = 1 /\ Len(<<y>>) = 1
      /\ Len(B) = 2 /\ B[1] = x /\ B[2] = y
  OBVIOUS
<1>2. /\ A \in Seq(S) /\ Len(A) = Len(<<x>>) + Len(<<y>>)
      /\ \A i \in 1..Len(<<x>>) + Len(<<y>>) :
            A[i] = IF i <= Len(<<x>>) THEN <<x>>[i] ELSE <<y>>[i - Len(<<x>>)]
  BY <1>1, ConcatProperties, Zenon
<1> HIDE DEF A, B
<1>3. Len(A) = 2 /\ A[1] = x /\ A[2] = y
  BY <1>1, <1>2
<1>4. Len(A) = Len(B) /\ \A i \in 1..Len(A) : A[i] = B[i]
  BY <1>1, <1>3
<1>5. A = B
  BY <1>1, <1>2, <1>4, SeqEqual, Zenon
<1> QED
  BY <1>5 DEF A, B

\* The value of a line that is the first with its word.
LEMMA FirstAt ==
    ASSUME NEW l \in Seq(LogLine), NEW i \in 1..Len(l), NEW word, l[i].says = word,
           \A j \in 1..i - 1 : l[j].says # word
    PROVE  /\ FirstWith(l, word) = i
           /\ l[i].value.left # "none" => field(l, word) = {l[i].value}
<1>1. Len(l) \in Nat /\ i \in Nat
  BY LenProperties
<1> DEFINE f == FirstWith(l, word)
<1>2. \/ f = 0 /\ \A j \in 1..Len(l) : l[j].says # word
      \/ /\ f \in 1..Len(l)
         /\ l[f].says = word
         /\ \A j \in 1..f - 1 : l[j].says # word
  BY FirstLine
<1> HIDE DEF f
<1>3. f = i
  <2>1. f \in 1..Len(l) /\ l[f].says = word /\ \A j \in 1..f - 1 : l[j].says # word
    BY <1>2
  <2>2. ~ (f < i) /\ ~ (i < f)
    BY <1>1, <2>1
  <2> QED
    BY <1>1, <2>1, <2>2
<1>4. field(l, word) = {v \in {l[i].value} : v.left # "none"}
  <2>1. FirstWith(l, word) = i /\ i # 0
    BY <1>1, <1>3 DEF f
  <2> QED
    BY <2>1, Zenon DEF field
<1> QED
  BY <1>3, <1>4 DEF f

LEMMA FieldLine ==
    ASSUME NEW l \in Seq(LogLine), NEW word, field(l, word) # {}
    PROVE  /\ FirstWith(l, word) \in 1..Len(l)
           /\ l[FirstWith(l, word)].says = word
           /\ field(l, word) = {l[FirstWith(l, word)].value}
<1> DEFINE f == FirstWith(l, word)
<1>1. f # 0
  BY DEF field
<1>2. f \in 1..Len(l) /\ l[f].says = word
  BY <1>1, FirstLine
<1>3. field(l, word) = {v \in {l[f].value} : v.left # "none"}
  BY <1>1, Zenon DEF field
<1> QED
  BY <1>2, <1>3

\* What the tool recovers from an accepted log is on a line of it.
LEMMA Recovers ==
    ASSUME IInv, Accepted, NEW label \in Labels
    PROVE  \E i \in 1..Len(log) :
              /\ log[i].says = label
              /\ field(log, label) = {log[i].value}
              /\ Recovered(label) = log[i].value.of
              /\ Printed(log[i]) \/ Recovered(label) = NotAPoint
<1>1. ValuesHold(log)
  BY AcceptedHasLines, VerdictOf DEF Accepted
<1>2. field(log, label) # {}
  BY <1>1 DEF ValuesHold
<1> DEFINE f == FirstWith(log, label)
<1>3. f \in 1..Len(log) /\ log[f].says = label /\ field(log, label) = {log[f].value}
  BY <1>2, FieldLine, Types
<1>4. Recovered(label) = log[f].value.of
  BY <1>3 DEF Recovered
<1>5. Printed(log[f]) \/ log[f].value.of = NotAPoint
  BY <1>3, Types, LenProperties DEF IInv, LinesPrinted
<1> QED
  BY <1>3, <1>4, <1>5

\* An accepted log holds one attestation of a boot in the capture.
LEMMA OneMade ==
    ASSUME IInv, Accepted
    PROVE  \E a \in made : /\ a.boot >= since
                           /\ Recovered("payload") = a.payload
                           /\ Recovered("pubkey") = a.pubkey
                           /\ Recovered("signature") = a.signature
<1>1. ValuesHold(log)
  BY AcceptedHasLines, VerdictOf DEF Accepted
<1>2. /\ {"payload", "pubkey", "signature"} \subseteq Labels
      /\ boot \in Nat /\ Cardinality(made) \in Nat /\ Numbered
  BY Types DEF IInv, Labels
<1>3. PICK i \in 1..Len(log) :
              /\ log[i].says = "payload"
              /\ field(log, "payload") = {log[i].value}
              /\ Recovered("payload") = log[i].value.of
              /\ Printed(log[i]) \/ Recovered("payload") = NotAPoint
  BY <1>2, Recovers
<1>4. PICK j \in 1..Len(log) :
              /\ log[j].says = "pubkey"
              /\ field(log, "pubkey") = {log[j].value}
              /\ Recovered("pubkey") = log[j].value.of
              /\ Printed(log[j]) \/ Recovered("pubkey") = NotAPoint
  BY <1>2, Recovers
<1>5. PICK n \in 1..Len(log) :
              /\ log[n].says = "signature"
              /\ field(log, "signature") = {log[n].value}
              /\ Recovered("signature") = log[n].value.of
              /\ Printed(log[n]) \/ Recovered("signature") = NotAPoint
  BY <1>2, Recovers
<1>6. /\ Recovered("pubkey") # NotAPoint
      /\ Recovered("signature") = Sign(Recovered("pubkey"), Recovered("payload"))
  BY <1>1, <1>3, <1>4, <1>5 DEF ValuesHold
<1>7. PICK k \in Nat : Recovered("pubkey") = <<k>>
  <2>1. PICK a \in made : Recovered("pubkey") = a.pubkey
    BY <1>4, <1>6 DEF Printed
  <2>2. PICK k \in 1..Cardinality(made) : a.pubkey = <<k>>
    BY <1>2, MadeTyped
  <2> QED
    BY <1>2, <2>1, <2>2
<1>8. PICK c \in Nat : Recovered("payload") = <<c>>
  <2>1. CASE Recovered("payload") = NotAPoint
    BY <2>1 DEF NotAPoint
  <2>2. CASE Printed(log[i])
    <3>1. PICK a \in made : Recovered("payload") = a.payload
      BY <1>3, <2>2 DEF Printed
    <3>2. PICK c \in 0..MaxPresses : a.payload = <<c>>
      BY <1>2, MadeTyped
    <3> QED
      BY <3>1, <3>2
  <2> QED
    BY <1>3, <2>1, <2>2
<1>9. Recovered("signature") = <<k, c>>
  BY <1>6, <1>7, <1>8, Pair DEF Sign
<1>10. PICK a \in made : a.boot >= since /\ Recovered("signature") = a.signature
  <2>1. Recovered("signature") # NotAPoint
    BY <1>9 DEF NotAPoint
  <2> QED
    BY <1>5, <2>1 DEF Printed
<1>11. PICK d \in 0..MaxPresses, m \in 1..Cardinality(made) :
               a.payload = <<d>> /\ a.pubkey = <<m>> /\ a.signature = Sign(<<m>>, <<d>>)
  BY <1>2, MadeTyped
<1>12. <<k, c>> = <<m, d>>
  BY <1>9, <1>10, <1>11, Pair DEF Sign
<1>13. k = m /\ c = d
  BY <1>12
<1> QED
  BY <1>7, <1>8, <1>10, <1>11, <1>13

\* What the tool accepts is one attestation the device made, however the capture
\* was begun, cut, run over power cycles or altered by one line (check_all).
THEOREM OneAttestation == Spec => []AcceptedWasMade
<1>1. IInv => AcceptedWasMade
  BY OneMade DEF AcceptedWasMade
<1> QED
  BY <1>1, Inductive, PTL

\* In a capture from a power-on, the gate held and then opened at the very boot
\* that made the accepted attestation (check_gate).
THEOREM GateDemonstratedFromPowerOn == Spec => []GateOfItsBoot
<1>1. ASSUME IInv PROVE GateOfItsBoot
  <2> SUFFICES ASSUME Accepted, port = "fromPowerOn", NEW a \in made,
                      a.pubkey = Recovered("pubkey")
               PROVE  gates[a.boot] = <<"gateHolds", "gateOpen">>
    BY DEF GateOfItsBoot
  <2>1. PICK b \in made : b.boot >= since /\ Recovered("pubkey") = b.pubkey
    BY <1>1, OneMade
  <2>2. a = b
    BY <1>1, <2>1 DEF IInv, Numbered
  <2>3. a.boot \in 1..boot /\ a.boot >= since /\ gates[a.boot] \in Opened
    BY <1>1, <2>1, <2>2, MadeTyped, Types DEF IInv, GatesInOrder
  <2>4. \A i \in 1..Len(log) : log[i].says # "UNEXPECTED"
    <3>1. GateHolds(log)
      BY AcceptedHasLines, VerdictOf DEF Accepted
    <3>2. FirstWith(log, "UNEXPECTED") = 0
      BY <3>1 DEF GateHolds
    <3> QED
      BY <1>1, <3>2, FirstLine, Types
  <2>5. gates[a.boot] # <<"UNEXPECTED", "gateOpen">>
    <3> SUFFICES ASSUME gates[a.boot] = <<"UNEXPECTED", "gateOpen">> PROVE FALSE
      OBVIOUS
    <3>1. gates[a.boot] # <<>> /\ gates[a.boot][1] = "UNEXPECTED"
      OBVIOUS
    <3>2. \E i \in DOMAIN log : log[i].says = "UNEXPECTED"
      BY <1>1, <2>3, <3>1 DEF IInv, Heralded
    <3> QED
      BY <1>1, <2>4, <3>2, Types, LenProperties
  <2> QED
    BY <2>3, <2>5 DEF Opened
<1> QED
  BY <1>1, Inductive, PTL

\* A value with all its digits, on the first line with its label.
LEMMA FirstValue ==
    ASSUME NEW l \in Seq(LogLine), NEW i \in 1..Len(l), NEW label, NEW value,
           l[i] = Line(label, value), \A j \in 1..i - 1 : l[j].says # label
    PROVE  /\ field(l, label) = {l[i].value}
           /\ l[i].value.of = value /\ l[i].value.left = "whole"
<1>1. l[i].says = label /\ l[i].value.of = value /\ l[i].value.left = "whole"
  BY DEF Line
<1>2. l[i].value.left # "none" => field(l, label) = {l[i].value}
  BY <1>1, FirstAt, ZenonT(40)
<1> QED
  BY <1>1, <1>2

\* An attestation shown on three lines, no label standing before them, is what
\* the tool reads, and its values hold.
LEMMA ShownFirst ==
    ASSUME IInv, NEW a \in made, NEW i \in 1..Len(log),
           log[i] = Line("signature", a.signature), Precede(log, i - 1, a),
           \A j \in 1..i - 3 : log[j].says \notin Labels
    PROVE  ValuesHold(log)
<1>1. log \in Seq(LogLine) /\ Len(log) \in Nat /\ i >= 3
  BY Types, LenProperties DEF Precede
<1>2. /\ i - 1 \in 1..Len(log) /\ i - 2 \in 1..Len(log)
      /\ log[i - 2] = Line("payload", a.payload) /\ log[i - 1] = Line("pubkey", a.pubkey)
  BY <1>1 DEF Precede
<1>3. /\ log[i - 2].says = "payload" /\ log[i - 1].says = "pubkey"
      /\ log[i].says = "signature"
  BY <1>2 DEF Line
<1>4. \A j \in 1..i - 1 : j \in 1..i - 3 \/ j = i - 2 \/ j = i - 1
  BY <1>1
<1>5. /\ \A j \in 1..(i - 2) - 1 : log[j].says # "payload"
      /\ \A j \in 1..(i - 1) - 1 : log[j].says # "pubkey"
      /\ \A j \in 1..i - 1 : log[j].says # "signature"
  <2>1. ASSUME NEW j \in 1..(i - 2) - 1 PROVE log[j].says # "payload"
    <3>1. j \in 1..i - 3
      BY <1>1
    <3> QED
      BY <3>1 DEF Labels
  <2>2. ASSUME NEW j \in 1..(i - 1) - 1 PROVE log[j].says # "pubkey"
    <3>1. j \in 1..i - 3 \/ j = i - 2
      BY <1>1
    <3> QED
      BY <1>3, <3>1 DEF Labels
  <2>3. ASSUME NEW j \in 1..i - 1 PROVE log[j].says # "signature"
    BY <1>3, <1>4 DEF Labels
  <2> QED
    BY <2>1, <2>2, <2>3
<1>6. /\ field(log, "payload") = {log[i - 2].value}
      /\ log[i - 2].value.of = a.payload /\ log[i - 2].value.left = "whole"
  <2> DEFINE n == i - 2
  <2>1. n \in 1..Len(log) /\ log[n] = Line("payload", a.payload)
        /\ \A j \in 1..n - 1 : log[j].says # "payload"
    BY <1>2, <1>5
  <2> HIDE DEF n
  <2>2. /\ field(log, "payload") = {log[n].value}
        /\ log[n].value.of = a.payload /\ log[n].value.left = "whole"
    BY <1>1, <2>1, FirstValue
  <2> QED
    BY <2>2 DEF n
<1>7. /\ field(log, "pubkey") = {log[i - 1].value}
      /\ log[i - 1].value.of = a.pubkey /\ log[i - 1].value.left = "whole"
  <2> DEFINE n == i - 1
  <2>1. n \in 1..Len(log) /\ log[n] = Line("pubkey", a.pubkey)
        /\ \A j \in 1..n - 1 : log[j].says # "pubkey"
    BY <1>2, <1>5
  <2> HIDE DEF n
  <2>2. /\ field(log, "pubkey") = {log[n].value}
        /\ log[n].value.of = a.pubkey /\ log[n].value.left = "whole"
    BY <1>1, <2>1, FirstValue
  <2> QED
    BY <2>2 DEF n
<1>8. /\ field(log, "signature") = {log[i].value}
      /\ log[i].value.of = a.signature /\ log[i].value.left = "whole"
  BY <1>1, <1>5, FirstValue
<1>9. a.pubkey # NotAPoint /\ a.signature = Sign(a.pubkey, a.payload)
  <2>1. PICK c \in 0..MaxPresses, k \in 1..Cardinality(made) :
                a.payload = <<c>> /\ a.pubkey = <<k>> /\ a.signature = Sign(<<k>>, <<c>>)
    BY MadeTyped, Types DEF IInv
  <2>2. <<k>> # <<0>>
    BY Types
  <2> QED
    BY <2>1, <2>2 DEF NotAPoint
<1>10. \A label \in Labels : \E v : field(log, label) = {v} /\ v.left = "whole"
  BY <1>6, <1>7, <1>8 DEF Labels
<1>11. \A label \in Labels : \A v \in field(log, label) : v.left = "whole" /\ unhex(v)
  BY <1>10 DEF unhex
<1>12. /\ \A k \in field(log, "pubkey") : k.of = a.pubkey
       /\ \A p \in field(log, "payload") : p.of = a.payload
       /\ \A s \in field(log, "signature") : s.of = a.signature
  BY <1>6, <1>7, <1>8
<1>13. \A p \in field(log, "payload"), k \in field(log, "pubkey"),
          s \in field(log, "signature") : s.of = Sign(k.of, p.of)
  BY <1>9, <1>12
<1> QED
  BY <1>9, <1>10, <1>11, <1>12, <1>13 DEF ValuesHold

\* Where a gate opened and none was UNEXPECTED, one held before the first opened.
LEMMA GateShown ==
    ASSUME IInv, port = "fromPowerOn", \A i \in 1..Len(log) : log[i].says # "UNEXPECTED",
           \E i \in 1..Len(log) : log[i].says = "gateOpen"
    PROVE  GateHolds(log)
<1>1. log \in Seq(LogLine) /\ Len(log) \in Nat
  BY Types, LenProperties
<1> DEFINE h == FirstWith(log, "gateHolds")
           o == FirstWith(log, "gateOpen")
<1>2. FirstWith(log, "UNEXPECTED") = 0
  BY <1>1, FirstLine
<1>3. o \in 1..Len(log) /\ log[o].says = "gateOpen"
  BY <1>1, FirstLine
<1>4. \/ h = 0 /\ \A j \in 1..Len(log) : log[j].says # "gateHolds"
      \/ h \in 1..Len(log) /\ \A j \in 1..h - 1 : log[j].says # "gateHolds"
  BY <1>1, FirstLine
<1> HIDE DEF h, o
<1>5. o >= 2 /\ log[o - 1].says \in GateWord
  BY <1>3 DEF IInv, Paired
<1>6. o - 1 \in 1..Len(log) /\ log[o - 1].says = "gateHolds"
  <2>1. o - 1 \in 1..Len(log)
    BY <1>1, <1>3, <1>5
  <2> QED
    BY <1>5, <2>1 DEF GateWord
<1>7. h \in 1..Len(log) /\ h <= o - 1
  BY <1>1, <1>3, <1>4, <1>6
<1> QED
  BY <1>1, <1>2, <1>3, <1>7 DEF GateHolds, h, o

\* A capture from a power-on with no gate UNEXPECTED and no label before the lines
\* of an attestation printed to its end is accepted: the tool rejects no such log,
\* wherever the boots before it were cut (the golden log of its tests, for any).
THEOREM GenuineLogs == Spec => []GenuineAccepted
<1>1. ASSUME IInv PROVE GenuineAccepted
  <2> SUFFICES ASSUME port = "fromPowerOn",
                      \A b \in since..boot : \A n \in DOMAIN gates[b] :
                            gates[b][n] # "UNEXPECTED",
                      NEW a \in made, NEW i \in DOMAIN log,
                      log[i] = Line("signature", a.signature),
                      \A j \in 1..i - 3 : log[j].says \notin Labels
               PROVE  Accepted
    BY DEF GenuineAccepted
  <2>1. log \in Seq(LogLine) /\ Len(log) \in Nat /\ i \in 1..Len(log)
    BY <1>1, Types, LenProperties
  <2>2. log[i].says = "signature" /\ log[i].value.of = a.signature
    BY DEF Line
  <2>3. PICK b \in made : Precede(log, i - 1, b) /\ log[i].value.of = b.signature
    BY <1>1, <2>1, <2>2 DEF IInv, Grouped
  <2>4. ValuesHold(log)
    <3>1. log[i] = Line("signature", b.signature)
      BY <2>2, <2>3
    <3> QED
      BY <1>1, <2>1, <2>3, <3>1, ShownFirst
  <2>5. ASSUME NEW j \in 1..Len(log)
        PROVE  log[j].says # "noise" /\ log[j].says # "UNEXPECTED"
    <3>1. /\ log[j].says # "noise"
          /\ log[j].says = "UNEXPECTED" => \E c \in 1..boot : /\ c >= since
                /\ \E n \in 1..Len(gates[c]) : gates[c][n] = "UNEXPECTED"
      BY <1>1 DEF IInv, Clean
    <3>2. ASSUME NEW c \in 1..boot, c >= since, NEW n \in 1..Len(gates[c])
          PROVE  gates[c][n] # "UNEXPECTED"
      <4>1. c \in since..boot /\ c \in 1..MaxBoots
        BY <1>1, <3>2, Types
      <4>2. DOMAIN gates[c] = 1..Len(gates[c])
        BY <1>1, <4>1, Types, LenProperties
      <4> QED
        BY <4>1, <4>2
    <3> QED
      BY <3>1, <3>2
  <2>6. Readable(log)
    BY <2>1, <2>5, FirstLine DEF Readable
  <2>7. \E j \in 1..Len(log) : log[j].says = "gateOpen"
    <3>1. Printed(log[i])
      BY <1>1 DEF IInv, LinesPrinted
    <3>2. PICK c \in made : c.boot >= since
      BY <2>2, <3>1 DEF Printed
    <3> QED
      BY <1>1, <3>2 DEF IInv, Opens
  <2>8. GateHolds(log)
    BY <1>1, <2>5, <2>7, GateShown
  <2>9. log # <<>>
    BY <2>1
  <2> QED
    BY <2>4, <2>6, <2>8, <2>9, VerdictOf DEF Accepted
<1> QED
  BY <1>1, Inductive, PTL

\* A verdict survives a further line of text, unless the line reports a gate.
LEMMA VerdictStands ==
    ASSUME NEW l \in Seq(LogLine), NEW line \in LogLine, line.says # "noise",
           Verdict(l) = "ok"
    PROVE  Verdict(Append(l, line)) \in {"ok", "UNEXPECTED"}
<1> DEFINE m == Append(l, line)
<1>1. /\ m \in Seq(LogLine) /\ m # <<>> /\ Len(l) \in Nat /\ Len(m) = Len(l) + 1
      /\ \A i \in 1..Len(l) : m[i] = l[i]
      /\ m[Len(l) + 1] = line
  BY LenProperties
<1> HIDE DEF m
<1>2. l # <<>>
  BY DEF Verdict
<1>3. Readable(l) /\ GateHolds(l) /\ ValuesHold(l)
  BY <1>2, VerdictOf
<1>9. Readable(m)
  <2>1. \A i \in 1..Len(l) : l[i].says # "noise"
    BY <1>3, FirstLine DEF Readable
  <2>2. \A i \in 1..Len(m) : m[i].says # "noise"
    <3> TAKE i \in 1..Len(m)
    <3>1. i \in 1..Len(l) \/ i = Len(l) + 1
      BY <1>1
    <3> QED
      BY <1>1, <2>1, <3>1
  <2> QED
    BY <1>1, <2>2, FirstLine DEF Readable
<1>4. ASSUME NEW word, FirstWith(l, word) # 0
      PROVE  FirstWith(m, word) = FirstWith(l, word) /\ field(m, word) = field(l, word)
  <2> DEFINE f == FirstWith(l, word)
  <2>1. f \in 1..Len(l) /\ l[f].says = word /\ \A j \in 1..f - 1 : l[j].says # word
    BY <1>4, FirstLine
  <2> HIDE DEF f
  <2>2. /\ f \in 1..Len(m) /\ m[f] = l[f] /\ m[f].says = word
        /\ \A j \in 1..f - 1 : m[j].says # word
    BY <1>1, <2>1
  <2>3. FirstWith(m, word) = f
    BY <1>1, <2>2, FirstAt
  <2>4. field(m, word) = {v \in {m[f].value} : v.left # "none"}
    <3>1. f # 0
      BY <2>1
    <3> QED
      BY <2>3, <3>1, Zenon DEF field
  <2>5. field(l, word) = {v \in {l[f].value} : v.left # "none"}
    BY <1>4, Zenon DEF field, f
  <2> QED
    BY <2>2, <2>3, <2>4, <2>5 DEF f
<1>5. \A label \in Labels : field(m, label) = field(l, label)
  <2> TAKE label \in Labels
  <2>1. field(l, label) # {}
    BY <1>3 DEF ValuesHold
  <2>2. FirstWith(l, label) # 0
    BY <2>1 DEF field
  <2> QED
    BY <1>4, <2>2
<1>6. ValuesHold(m)
  BY <1>3, <1>5, Zenon DEF ValuesHold, Labels
<1>7. CASE FirstWith(m, "UNEXPECTED") # 0
  BY <1>1, <1>7, <1>9, VerdictOf DEF m
<1>8. CASE FirstWith(m, "UNEXPECTED") = 0
  <2>1. GateHolds(m)
    BY <1>3, <1>4, <1>8 DEF GateHolds
  <2> QED
    BY <1>1, <1>6, <1>9, <2>1, VerdictOf DEF m
<1> QED
  BY <1>7, <1>8

\* Unless the line before it is cut, a line follows the capture, or is unheard.
Text == {line \in LogLine : line.says # "noise"}

LEMMA Grown ==
    ASSUME NEW line \in LogLine, line.says # "noise", NEW next, Println(line, next), ~ cut
    PROVE  log' = log \/ \E rest \in Text : log' = Append(log, rest)
<1>1. PICK rest \in Text : log' = Heard(rest)
  <2>1. CASE log' = Heard(line)
    BY <2>1 DEF Text
  <2>2. CASE \E rest \in CutShort(line) : log' = Heard(rest)
    BY <2>2, CutShortKeeps DEF Text, Other, Plain
  <2> QED
    BY <2>1, <2>2 DEF Println
<1> QED
  BY <1>1 DEF Heard

LEMMA StepGrows ==
    ASSUME IInv, Next, port' = port, ~ cut
    PROVE  log' = log \/ \E rest \in Text : log' = Append(log, rest)
<1>1. CASE PowerOn
  <2>1. Other \in LogLine /\ Other.says # "noise"
    BY PlainTyped DEF Other, Plain, Words
  <2> QED
    BY <1>1, <2>1, Grown DEF PowerOn
<1>2. ASSUME NEW available \in BOOLEAN, GateBeforeSource(available) PROVE \E word \in GateWords :
          Println(Plain(word), "gateAfter")
  BY <1>2 DEF GateBeforeSource, Gate, GateWords
<1>3. ASSUME NEW available \in BOOLEAN, GateAfterSource(available) PROVE \E word \in GateWords :
          Println(Plain(word), "loop")
  BY <1>3 DEF GateAfterSource, Gate, GateWords
<1>4. ASSUME NEW word \in GateWords, NEW next, Println(Plain(word), next)
      PROVE  log' = log \/ \E rest \in Text : log' = Append(log, rest)
  <2>1. Plain(word) \in LogLine /\ Plain(word).says = word /\ word # "noise"
    BY PlainTyped DEF Words, GateWords
  <2> QED
    BY <1>4, <2>1, Grown
<1>5. CASE PrintPayload \/ PrintPubkey \/ PrintSignature
  <2>1. pc \in Labels
    BY <1>5 DEF PrintPayload, PrintPubkey, PrintSignature, Labels
  <2>2. Current \in made
    BY <2>1, CurrentMade DEF IInv
  <2>3. {Current.payload, Current.pubkey, Current.signature} \subseteq Seq(Nat)
    BY <2>2, MadeTyped, Types DEF IInv
  <2>4. PICK word \in Labels, value \in Seq(Nat) : \E next : Println(Line(word, value), next)
    BY <1>5, <2>3 DEF PrintPayload, PrintPubkey, PrintSignature, Labels
  <2>5. PICK next : Println(Line(word, value), next)
    BY <2>4
  <2>6. Line(word, value) \in LogLine /\ Line(word, value).says # "noise"
    BY LineTyped DEF Words, Labels
  <2> QED
    BY <2>5, <2>6, Grown
<1>6. CASE Panic \/ PowerLoss \/ Attest
  BY <1>6 DEF Panic, PowerLoss, Attest
<1>7. ~ OpenPort /\ ~ Alter
  BY DEF OpenPort, Alter, Next
<1> QED
  BY <1>1, <1>2, <1>3, <1>4, <1>5, <1>6, <1>7 DEF Next

\* As the capture goes on, an acceptance is taken back only by a reported gate or
\* behind a line the power cut.
THEOREM AcceptanceIsKept == Spec => AcceptanceStands
<1>1. ASSUME IInv, [Next]_vars
      PROVE  Accepted /\ ~ cut /\ port' = port
                => Accepted' \/ Verdict(log') = "UNEXPECTED"
  <2> SUFFICES ASSUME Accepted, ~ cut, port' = port
               PROVE  Verdict(log') \in {"ok", "UNEXPECTED"}
    BY DEF Accepted
  <2>1. log' = log \/ \E rest \in Text : log' = Append(log, rest)
    BY <1>1, StepGrows DEF vars
  <2>2. CASE log' = log
    BY <2>2 DEF Accepted
  <2>3. CASE \E rest \in Text : log' = Append(log, rest)
    BY <1>1, <2>3, Types, VerdictStands DEF Accepted, Text
  <2> QED
    BY <2>1, <2>2, <2>3
<1> QED
  BY <1>1, Inductive, PTL DEF Spec, AcceptanceStands

\* The type invariant, with the widths the tool reads: a payload and a key of one
\* unit each, a signature of two.
THEOREM TypeCorrect == Spec => []TypeOK
<1>1. ASSUME IInv PROVE TypeOK
  <2>1. /\ pc \in {"off", "gateBefore", "gateAfter", "loop", "halted",
                   "payload", "pubkey", "signature"}
        /\ boot \in 0..MaxBoots
        /\ port \in {"closed", "fromPowerOn", "fromTheMiddle", "altered"}
        /\ since \in 0..MaxBoots + 1
        /\ {source, cut} \subseteq BOOLEAN
        /\ counter \in 0..Cardinality(made) /\ Cardinality(made) \in 0..MaxPresses
    BY <1>1 DEF IInv, Typed
  <2>2. counter \in 0..MaxPresses
    BY <1>1, <2>1, Types
  <2>3. Numbered /\ boot \in Nat /\ Cardinality(made) \in Nat /\ log \in Seq(LogLine)
    BY <1>1, Types DEF IInv
  <2>4. \A a \in made : a.boot \in 1..boot /\ a.pubkey \in {<<k>> : k \in 1..Cardinality(made)}
    BY <2>3, MadeTyped
  <2>5. DOMAIN log = 1..Len(log) /\ \A i \in 1..Len(log) : log[i] \in LogLine
    BY <2>3, LenProperties, ElementOfSeq
  <2>6. \A i \in DOMAIN log : log[i].says \in Words /\ log[i].value.left \in Remains
    BY <2>5 DEF LogLine
  <2>7. \A a \in made : Len(a.payload) = 1 /\ Len(a.pubkey) = 1 /\ Len(a.signature) = 2
    <3> TAKE a \in made
    <3>1. PICK c \in 0..MaxPresses, k \in 1..Cardinality(made) :
                  a.payload = <<c>> /\ a.pubkey = <<k>> /\ a.signature = Sign(<<k>>, <<c>>)
      BY <2>3, MadeTyped
    <3>2. Sign(<<k>>, <<c>>) = <<k, c>>
      BY Pair DEF Sign
    <3> QED
      BY <3>1, <3>2
  <2>8. ASSUME port # "altered", NEW i \in DOMAIN log
        PROVE  Len(log[i].value.of) = CASE log[i].says \in {"payload", "pubkey"} -> 1
                                        [] log[i].says = "signature" -> 2
                                        [] OTHER -> 0
    <3>1. Printed(log[i])
      BY <1>1, <2>8 DEF IInv, LinesPrinted
    <3>2. CASE log[i].says = "payload"
      BY <2>7, <3>1, <3>2 DEF Printed
    <3>3. CASE log[i].says = "pubkey"
      BY <2>7, <3>1, <3>3 DEF Printed
    <3>4. CASE log[i].says = "signature"
      BY <2>7, <3>1, <3>4 DEF Printed
    <3>5. CASE log[i].says \notin Labels
      <4>1. log[i].value.of = <<>> /\ log[i].says \notin {"payload", "pubkey", "signature"}
        BY <3>1, <3>5 DEF Printed, Labels
      <4> QED
        BY <4>1
    <3> QED
      BY <3>2, <3>3, <3>4, <3>5 DEF Labels
  <2> QED
    BY <2>1, <2>2, <2>4, <2>6, <2>8 DEF TypeOK
<1> QED
  BY <1>1, Inductive, PTL
================================================================================
