----------------------------- MODULE EmissionProofs ----------------------------
(***************************************************************************)
(* The life of a signing key, for any number of devices, any events and    *)
(* times, any payload length, any counter a u32 holds and any number of    *)
(* draws. No property is inductive as it stands: that a new frame differs  *)
(* from all on the air follows from where its key has been meanwhile. The  *)
(* invariant IInv follows each key from its draw to its frames, and says   *)
(* of every frame, already on the air or still to be emitted, what it was  *)
(* made of.                                                                *)
(***************************************************************************)
EXTENDS Emission, FiniteSetTheorems, SequenceTheorems, TLAPS

\* TypeOK, the number of attestations a device holds as what it comes from.
PhaseTyped == phase \in [Devices -> {"off", "dark", "live", "drawn"}]
SeedTyped == seed \in [Devices -> Zeroized..draws]
CounterTyped == counter \in [Devices -> 0..CounterMod - 1]
CountsTyped == draws \in 0..MaxDraws /\ made \in Nat
HeldTyped == /\ DOMAIN held = Devices
             /\ \A d \in Devices : \A a, b \in held[d] : a = b
HistoryTyped == DOMAIN air = Devices /\ DOMAIN about = Devices
Typed == PhaseTyped /\ SeedTyped /\ CounterTyped /\ CountsTyped /\ HeldTyped /\ HistoryTyped

\* The buffer holds a seed exactly between the draw and create.
SeedAtWork == \A d \in Devices : phase[d] # "drawn" <=> seed[d] = Zeroized

\* Two devices never work with one seed.
SeedsApart == \A c, d \in Devices : c # d => seed[c] # seed[d] \/ seed[c] = Zeroized

\* What a device has put on the air, and what it may yet.
Shown(a, of) == [of |-> of, frame |-> Frame(a)]
Known(d) == air[d] \union {Shown(a, about[d]) : a \in held[d]}

\* A key that signed was drawn, and no buffer holds its seed any more.
Spent == \A d \in Devices : \A s \in Known(d) :
            /\ Key(s.frame) \in 1..draws
            /\ \A c \in Devices : Key(s.frame) # seed[c]
            /\ s.of.number \in 1..made

\* One key is one attestation, and its frames are one frame.
Told == \A c, d \in Devices : \A r \in Known(c), s \in Known(d) :
           (Key(r.frame) = Key(s.frame) \/ r.of.number = s.of.number) => r = s

\* A frame is that of an attestation made of what the history says.
MadeOf(s, event, time, c) ==
    /\ Fits(Payload(event, time, Digits(c)))
    /\ s.frame = Frame(Attested(Key(s.frame), Payload(event, time, Digits(c))))
    /\ s.of.event = event /\ s.of.timestamp_ms = time /\ s.of.counter = c
WellMade(s) == \E event \in Events, time \in Times, c \in 0..CounterMod - 1 :
                  MadeOf(s, event, time, c)
Origins == \A d \in Devices : \A s \in Known(d) : WellMade(s)

IInv == Typed /\ SeedAtWork /\ SeedsApart /\ Spent /\ Told /\ Origins

--------------------------------------------------------------------------------
\* A padded encoding is a sequence, whatever it encodes.
LEMMA PaddedIsSeq ==
    ASSUME NEW bytes
    PROVE  \E S : padded(bytes) \in Seq(S)
<1> DEFINE f(i) == IF i <= Len(bytes) THEN bytes[i] ELSE 0
           S == {f(i) : i \in 1..PayloadLen}
<1>1. [i \in 1..PayloadLen |-> f(i)] \in [1..PayloadLen -> S]
  OBVIOUS
<1>2. \A T : \A n \in Nat : \A g \in [1..n -> T] : g \in Seq(T)
  OBVIOUS
<1>3. [i \in 1..PayloadLen |-> f(i)] \in Seq(S)
  BY <1>1, <1>2, PayloadAssumption
<1> QED
  BY <1>3 DEF padded

\* The key of an attestation is the first thing its frame shows.
LEMMA FrameShowsKey ==
    ASSUME NEW k, NEW payload
    PROVE  Key(Frame(Attested(k, payload))) = k
<1> DEFINE a == Attested(k, payload)
           s == a.signed_payload
<1>1. PICK S : s \in Seq(S)
  BY PaddedIsSeq DEF Attested
<1> DEFINE T == S \union {a.public_key, a.signature}
<1>2. s \in Seq(T)
  BY <1>1
<1>3. <<a.public_key, a.signature>> \in Seq(T)
  OBVIOUS
<1>4. (<<a.public_key, a.signature>> \o s)[1] = a.public_key
  BY <1>2, <1>3
<1>5. a.public_key = k
  BY DEF Attested
<1> QED
  BY <1>4, <1>5 DEF Key, Frame

LEMMA InitIInv == Init => IInv
<1> SUFFICES ASSUME Init PROVE IInv
  OBVIOUS
<1> USE DEF Init
<1>1. Typed
  BY EmissionAssumption DEF Typed, PhaseTyped, SeedTyped, CounterTyped, CountsTyped,
                            HeldTyped, HistoryTyped, Zeroized
<1>2. SeedAtWork /\ SeedsApart
  BY DEF SeedAtWork, SeedsApart
<1>3. \A d \in Devices : Known(d) = {}
  BY DEF Known
<1>4. Spent /\ Told /\ Origins
  BY <1>3 DEF Spent, Told, Origins
<1> QED
  BY <1>1, <1>2, <1>4 DEF IInv

\* A step that makes no attestation shows nothing new; a seed it puts in a buffer
\* is no key that signed.
LEMMA KnownKeeps ==
    ASSUME Spent, Told, Origins, draws \in Nat, draws' \in Nat, draws' >= draws, made' = made,
           \A d \in Devices : Known(d)' \subseteq Known(d),
           \A c \in Devices : seed'[c] = seed[c] \/ seed'[c] \notin 1..draws
    PROVE  Spent' /\ Told' /\ Origins'
<1>1. Spent'
  <2> SUFFICES ASSUME NEW d \in Devices, NEW s \in Known(d)'
               PROVE  /\ Key(s.frame) \in 1..draws'
                      /\ \A c \in Devices : Key(s.frame) # seed'[c]
                      /\ s.of.number \in 1..made
    BY DEF Spent
  <2>1. /\ Key(s.frame) \in 1..draws
        /\ \A c \in Devices : Key(s.frame) # seed[c]
        /\ s.of.number \in 1..made
    BY DEF Spent
  <2>2. 1..draws \subseteq 1..draws'
    OBVIOUS
  <2> QED
    BY <2>1, <2>2
<1>2. Told'
  BY DEF Told
<1>3. Origins'
  BY DEF Origins
<1> QED
  BY <1>1, <1>2, <1>3

LEMMA DrawKeeps ==
    ASSUME IInv, NEW d \in Devices, Draw(d)
    PROVE  IInv'
<1>1. /\ phase[d] = "live" /\ phase' = [phase EXCEPT ![d] = "drawn"]
      /\ draws \in Nat /\ draws' = draws + 1 /\ draws < MaxDraws
      /\ seed' = [seed EXCEPT ![d] = draws + 1]
      /\ counter' = counter /\ held' = held /\ made' = made /\ air' = air /\ about' = about
  BY DEF IInv, Typed, CountsTyped, Draw, entropy, history
<1>2. Typed'
  <2>1. PhaseTyped'
    BY <1>1 DEF IInv, Typed, PhaseTyped
  <2>2. SeedTyped'
    <3>1. Zeroized..draws \subseteq Zeroized..draws + 1 /\ draws + 1 \in Zeroized..draws + 1
      BY <1>1 DEF Zeroized
    <3>2. seed \in [Devices -> Zeroized..draws + 1]
      BY <3>1 DEF IInv, Typed, SeedTyped
    <3> QED
      BY <1>1, <3>1, <3>2 DEF SeedTyped
  <2>3. CountsTyped'
    BY <1>1, EmissionAssumption DEF IInv, Typed, CountsTyped
  <2>4. CounterTyped' /\ HeldTyped' /\ HistoryTyped'
    BY <1>1 DEF IInv, Typed, CounterTyped, HeldTyped, HistoryTyped
  <2> QED
    BY <2>1, <2>2, <2>3, <2>4 DEF Typed
<1>3. /\ seed'[d] = draws + 1
      /\ \A c \in Devices : c # d => seed'[c] = seed[c]
      /\ \A c \in Devices : seed[c] \in 0..draws
  BY <1>1 DEF IInv, Typed, SeedTyped, Zeroized
<1>4. SeedAtWork'
  <2>1. /\ phase'[d] = "drawn"
        /\ \A c \in Devices : c # d => phase'[c] = phase[c]
    BY <1>1 DEF IInv, Typed, PhaseTyped
  <2> QED
    BY <1>1, <1>3, <2>1 DEF IInv, SeedAtWork, Zeroized
<1>5. SeedsApart'
  BY <1>1, <1>3 DEF IInv, SeedsApart, Zeroized
<1>6. Spent' /\ Told' /\ Origins'
  <2>1. \A c \in Devices : Known(c)' \subseteq Known(c)
    BY <1>1 DEF Known
  <2>2. \A c \in Devices : seed'[c] = seed[c] \/ seed'[c] \notin 1..draws
    BY <1>1, <1>3
  <2>3. draws' \in Nat /\ draws' >= draws
    BY <1>1
  <2> QED
    BY <1>1, <2>1, <2>2, <2>3, KnownKeeps DEF IInv
<1> QED
  BY <1>2, <1>4, <1>5, <1>6 DEF IInv

LEMMA AttestKeeps ==
    ASSUME IInv, NEW d \in Devices, NEW event \in Events, NEW time \in Times,
           Attest(d, event, time)
    PROVE  IInv'
<1> DEFINE payload == Payload(event, time, Digits(counter[d]))
           new == Attested(seed[d], payload)
           of == [number |-> made + 1, event |-> event, timestamp_ms |-> time,
                  counter |-> counter[d]]
<1>1. /\ phase[d] = "drawn" /\ phase' = [phase EXCEPT ![d] = "live"]
      /\ counter' = [counter EXCEPT ![d] = (@ + 1) % CounterMod]
      /\ seed' = [seed EXCEPT ![d] = Zeroized]
      /\ held' = [held EXCEPT ![d] = IF Fits(payload) THEN {new} ELSE {}]
      /\ made' = made + 1 /\ draws' = draws /\ air' = air
  BY DEF Attest, Create
<1>2. /\ DOMAIN about' = Devices
      /\ \A c \in Devices : c # d => about'[c] = about[c]
      /\ held'[d] # {} => about'[d] = of
  <2>1. about' = [about EXCEPT ![d] = IF held'[d] = {} THEN <<>> ELSE
                     [number |-> made', event |-> event, timestamp_ms |-> time,
                      counter |-> counter[d]]]
    BY DEF Attest
  <2> QED
    BY <1>1, <2>1 DEF IInv, Typed, HistoryTyped
<1>3. Fits(payload) => MadeOf(Shown(new, of), event, time, counter[d])
  <2>1. Key(Frame(new)) = seed[d]
    BY FrameShowsKey
  <2> QED
    BY <2>1 DEF MadeOf, Shown
<1>4. Key(Shown(new, of).frame) = seed[d] /\ Shown(new, of).of.number = made + 1
  <2>1. Key(Frame(new)) = seed[d]
    BY FrameShowsKey
  <2> QED
    BY <2>1 DEF Shown
<1> HIDE DEF payload, new, of
<1>5. /\ \A c \in Devices : seed[c] \in 0..draws
      /\ draws \in Nat /\ made \in Nat
      /\ seed[d] \in 1..draws
  BY <1>1 DEF IInv, Typed, SeedTyped, CountsTyped, SeedAtWork, Zeroized
<1>6. /\ seed'[d] = 0
      /\ \A c \in Devices : c # d => seed'[c] = seed[c]
      /\ seed' \in [Devices -> 0..draws]
  BY <1>1, <1>5 DEF IInv, Typed, SeedTyped, Zeroized
<1>7. /\ \A c \in Devices : c # d => held'[c] = held[c]
      /\ held'[d] = IF Fits(payload) THEN {new} ELSE {}
      /\ DOMAIN held' = Devices
  BY <1>1 DEF IInv, Typed, HeldTyped
<1>8. \A c \in Devices : \A s \in Known(c)' :
         s \in Known(c) \/ (c = d /\ s = Shown(new, of) /\ Fits(payload))
  <2> SUFFICES ASSUME NEW c \in Devices, NEW s \in Known(c)', s \notin air[c]
               PROVE  s \in Known(c) \/ (c = d /\ s = Shown(new, of) /\ Fits(payload))
    BY DEF Known
  <2>1. PICK a \in held'[c] : s = Shown(a, about'[c])
    BY <1>1 DEF Known
  <2>2. CASE c = d
    BY <1>2, <1>7, <2>1, <2>2
  <2>3. CASE c # d
    <3>1. a \in held[c] /\ s = Shown(a, about[c])
      BY <1>2, <1>7, <2>1, <2>3
    <3> QED
      BY <3>1 DEF Known
  <2> QED
    BY <2>2, <2>3
<1>9. Typed'
  <2>1. PhaseTyped' /\ SeedTyped' /\ CountsTyped' /\ HistoryTyped'
    BY <1>1, <1>2, <1>5, <1>6 DEF IInv, Typed, PhaseTyped, SeedTyped, CountsTyped,
                                  HistoryTyped, Zeroized
  <2>2. CounterTyped'
    BY <1>1, EmissionAssumption DEF IInv, Typed, CounterTyped
  <2>3. HeldTyped'
    BY <1>7 DEF IInv, Typed, HeldTyped
  <2> QED
    BY <2>1, <2>2, <2>3 DEF Typed
<1>10. SeedAtWork'
  <2>1. /\ phase'[d] = "live"
        /\ \A c \in Devices : c # d => phase'[c] = phase[c]
    BY <1>1 DEF IInv, Typed, PhaseTyped
  <2> QED
    BY <1>6, <2>1 DEF IInv, SeedAtWork, Zeroized
<1>11. SeedsApart'
  BY <1>6 DEF IInv, SeedsApart, Zeroized
<1>12. Spent'
  <2> SUFFICES ASSUME NEW c \in Devices, NEW s \in Known(c)'
               PROVE  /\ Key(s.frame) \in 1..draws
                      /\ \A e \in Devices : Key(s.frame) # seed'[e]
                      /\ s.of.number \in 1..made + 1
    BY <1>1 DEF Spent
  <2>1. CASE s \in Known(c)
    <3>1. /\ Key(s.frame) \in 1..draws /\ s.of.number \in 1..made
          /\ \A e \in Devices : Key(s.frame) # seed[e]
      BY <2>1 DEF IInv, Spent
    <3> QED
      BY <1>5, <1>6, <3>1
  <2>2. CASE s = Shown(new, of)
    <3>1. Key(s.frame) = seed[d] /\ s.of.number = made + 1
      BY <1>4, <2>2
    <3>2. \A e \in Devices : e # d => seed[e] # seed[d]
      BY <1>5 DEF IInv, SeedsApart, Zeroized
    <3> QED
      BY <1>5, <1>6, <3>1, <3>2
  <2> QED
    BY <1>8, <2>1, <2>2
<1>13. Told'
  <2>1. \A c \in Devices : \A s \in Known(c) :
           Key(s.frame) # seed[d] /\ s.of.number # made + 1
    BY <1>5 DEF IInv, Spent
  <2> SUFFICES ASSUME NEW b \in Devices, NEW c \in Devices,
                      NEW r \in Known(b)', NEW s \in Known(c)',
                      Key(r.frame) = Key(s.frame) \/ r.of.number = s.of.number
               PROVE  r = s
    BY DEF Told
  <2>2. CASE r \in Known(b) /\ s \in Known(c)
    BY <2>2 DEF IInv, Told
  <2>3. CASE r = Shown(new, of) /\ s \in Known(c)
    BY <1>4, <2>1, <2>3
  <2>4. CASE r \in Known(b) /\ s = Shown(new, of)
    BY <1>4, <2>1, <2>4
  <2>5. CASE r = Shown(new, of) /\ s = Shown(new, of)
    BY <2>5
  <2> QED
    BY <1>8, <2>2, <2>3, <2>4, <2>5
<1>14. Origins'
  <2> SUFFICES ASSUME NEW c \in Devices, NEW s \in Known(c)' PROVE WellMade(s)
    BY DEF Origins
  <2>1. CASE s \in Known(c)
    BY <2>1 DEF IInv, Origins
  <2>2. CASE s = Shown(new, of) /\ Fits(payload)
    <3>1. counter[d] \in 0..CounterMod - 1
      BY DEF IInv, Typed, CounterTyped
    <3>2. MadeOf(s, event, time, counter[d])
      BY <1>3, <2>2
    <3> QED
      BY <3>1, <3>2, Zenon DEF WellMade
  <2> QED
    BY <1>8, <2>1, <2>2
<1> QED
  BY <1>9, <1>10, <1>11, <1>12, <1>13, <1>14 DEF IInv

\* Emitting puts on the air what might already have been there.
LEMMA EmitKeeps ==
    ASSUME IInv, NEW d \in Devices, NEW policy, Emit(d, policy)
    PROVE  IInv'
<1>1. /\ UNCHANGED <<phase, seed, counter, held, draws, made, about>>
      /\ \/ air' = air
         \/ air' = [air EXCEPT ![d] = @ \union {Shown(a, about[d]) : a \in held[d]}]
  BY DEF Emit, Shown
<1>2. DOMAIN air' = Devices /\ \A c \in Devices : Known(c)' \subseteq Known(c)
  BY <1>1 DEF IInv, Typed, HistoryTyped, Known
<1>3. Typed'
  BY <1>1, <1>2 DEF IInv, Typed, PhaseTyped, SeedTyped, CounterTyped, CountsTyped, HeldTyped,
                    HistoryTyped
<1>4. SeedAtWork' /\ SeedsApart'
  BY <1>1 DEF IInv, SeedAtWork, SeedsApart
<1>5. Spent' /\ Told' /\ Origins'
  <2>1. draws \in Nat
    BY DEF IInv, Typed, CountsTyped
  <2> QED
    BY <1>1, <1>2, <2>1, KnownKeeps DEF IInv
<1> QED
  BY <1>3, <1>4, <1>5 DEF IInv

\* Boot, the entropy source, the loss of power and the attestations
\* nobody emits leave no key behind and show nothing.
LEMMA QuietKeeps ==
    ASSUME IInv, NEW d \in Devices,
           \/ Boot(d) \/ NewSource(d) \/ PowerLoss(d)
           \/ \E n \in Counts : AttestMany(d, n)
    PROVE  IInv'
<1> USE DEF Boot, NewSource, PowerLoss, AttestMany, history
<1>1. UNCHANGED <<draws, made, air>>
  OBVIOUS
<1>2. \A c \in Devices : seed'[c] = seed[c] \/ seed'[c] = Zeroized
  BY DEF IInv, Typed, SeedTyped
<1>3. /\ DOMAIN held' = Devices /\ DOMAIN about' = Devices
      /\ \A c \in Devices : held'[c] = {} \/ (held'[c] = held[c] /\ about'[c] = about[c])
  BY DEF IInv, Typed, HeldTyped, HistoryTyped
<1>4. Typed'
  <2>1. PhaseTyped'
    BY DEF IInv, Typed, PhaseTyped
  <2>2. SeedTyped'
    <3>1. draws \in Nat /\ Zeroized \in Zeroized..draws
      BY DEF IInv, Typed, CountsTyped, Zeroized
    <3> QED
      BY <1>1, <3>1 DEF IInv, Typed, SeedTyped
  <2>3. CounterTyped'
    BY EmissionAssumption DEF IInv, Typed, CounterTyped
  <2>4. HeldTyped' /\ HistoryTyped' /\ CountsTyped'
    BY <1>1, <1>3 DEF IInv, Typed, HeldTyped, HistoryTyped, CountsTyped
  <2> QED
    BY <2>1, <2>2, <2>3, <2>4 DEF Typed
<1>5. SeedAtWork'
  BY DEF IInv, Typed, SeedTyped, PhaseTyped, SeedAtWork, entropy
<1>6. SeedsApart'
  BY <1>2 DEF IInv, SeedsApart
<1>7. Spent' /\ Told' /\ Origins'
  <2>1. draws \in Nat /\ Zeroized \notin 1..draws
    BY DEF IInv, Typed, CountsTyped, Zeroized
  <2>2. \A c \in Devices : seed'[c] = seed[c] \/ seed'[c] \notin 1..draws
    BY <1>2, <2>1
  <2>3. \A c \in Devices : Known(c)' \subseteq Known(c)
    BY <1>1, <1>3 DEF Known
  <2> QED
    BY <1>1, <2>1, <2>2, <2>3, KnownKeeps DEF IInv
<1> QED
  BY <1>4, <1>5, <1>6, <1>7 DEF IInv

LEMMA NextIInv == IInv /\ [Next]_vars => IInv'
<1> SUFFICES ASSUME IInv, [Next]_vars PROVE IInv'
  OBVIOUS
<1>1. CASE UNCHANGED vars
  BY <1>1 DEF vars, history, IInv, Typed, PhaseTyped, SeedTyped, CounterTyped, CountsTyped,
              HeldTyped, HistoryTyped, SeedAtWork, SeedsApart, Spent, Told, Origins, Known
<1>2. CASE Next
  <2> PICK d \in Devices :
         \/ Boot(d) \/ NewSource(d) \/ Draw(d) \/ PowerLoss(d)
         \/ \E i \in Inputs : Attest(d, i.event, i.time)
         \/ \E n \in Counts : AttestMany(d, n)
         \/ \E policy \in Policies : Emit(d, policy)
    BY <1>2 DEF Next
  <2>1. CASE Draw(d)
    BY <2>1, DrawKeeps
  <2>2. CASE \E i \in Inputs : Attest(d, i.event, i.time)
    <3>1. PICK i \in Inputs : Attest(d, i.event, i.time)
      BY <2>2
    <3>2. i.event \in Events /\ i.time \in Times
      BY DEF Events, Times
    <3> QED
      BY <3>1, <3>2, AttestKeeps
  <2>3. CASE \E policy \in Policies : Emit(d, policy)
    BY <2>3, EmitKeeps
  <2>4. CASE \/ Boot(d) \/ NewSource(d) \/ PowerLoss(d)
             \/ \E n \in Counts : AttestMany(d, n)
    BY <2>4, QuietKeeps
  <2> QED
    BY <2>1, <2>2, <2>3, <2>4
<1> QED
  BY <1>1, <1>2

LEMMA Inductive == Spec => []IInv
BY InitIInv, NextIInv, PTL DEF Spec

--------------------------------------------------------------------------------
\* What seven bits hold.
Digit == 0..127

LEMMA SevenBits ==
    \A v \in Digit : /\ v \in Int /\ v + 128 \in Int
                     /\ v < 128 /\ v + 128 >= 128 /\ ~ (v + 128 < 128) /\ ~ (v >= 128)
                     /\ v % 128 = v /\ (v + 128) % 128 = v
BY SMT DEF Digit

\* The digits of x stand in s from i on, the last one closing the number.
Standing(s, i, n, x) == /\ i \in Nat /\ n \in Nat /\ n > 0 /\ x \in [1..n -> Digit]
                        /\ Len(s) \in Nat /\ i + n - 1 <= Len(s)
                        /\ \A k \in 1..n - 1 : s[i + k - 1] = x[k] + 128
                        /\ s[i + n - 1] = x[n]

\* A number is read back from where its digits stand.
LEMMA VarintBack ==
    ASSUME NEW s, NEW i, NEW n, NEW x, Standing(s, i, n, x)
    PROVE  VarintAt(s, i) = [number |-> x, next |-> i + n]
<1> SUFFICES ASSUME i \in Nat, n \in Nat, n > 0, x \in [1..n -> Digit],
                    Len(s) \in Nat, i + n - 1 <= Len(s),
                    \A k \in 1..n - 1 : s[i + k - 1] = x[k] + 128,
                    s[i + n - 1] = x[n]
             PROVE  VarintAt(s, i) = [number |-> x, next |-> i + n]
  BY Zenon DEF Standing
<1> DEFINE Ends(j) == s[j] < 128 /\ \A k \in i..j - 1 : s[k] >= 128
           last == CHOOSE j \in i..Len(s) : Ends(j)
           end == i + n - 1
<1>1. end \in i..Len(s) /\ end \in Int /\ end \in i..end
  OBVIOUS
<1>2. \A k \in 1..n : x[k] \in Digit
  OBVIOUS
<1>3. ASSUME NEW j \in i..end - 1 PROVE ~ (s[j] < 128) /\ s[j] >= 128
  <2>1. j - i + 1 \in 1..n - 1 /\ i + (j - i + 1) - 1 = j /\ j - i + 1 \in 1..n
    OBVIOUS
  <2>2. s[j] = x[j - i + 1] + 128 /\ x[j - i + 1] \in Digit
    BY <1>2, <2>1
  <2> DEFINE v == x[j - i + 1]
  <2> HIDE DEF v
  <2>3. v \in Digit /\ s[j] = v + 128
    BY <2>2 DEF v
  <2>4. ~ (v + 128 < 128) /\ v + 128 >= 128
    BY <2>3, SevenBits, Zenon
  <2> QED
    BY <2>3, <2>4, Zenon
<1>4. s[end] = x[n] /\ x[n] \in Digit
  BY <1>2
<1>11. s[end] < 128 /\ ~ (s[end] >= 128)
  BY <1>4, SevenBits, Zenon
<1>5. Ends(end)
  BY <1>3, <1>11, Zenon
<1>6. ASSUME NEW j \in i..Len(s), Ends(j) PROVE j = end
  <2>3. j \in Int
    OBVIOUS
  <2>1. CASE j < end
    <3>1. j \in i..end - 1
      BY <2>1
    <3> QED
      BY <1>3, <1>6, <3>1, Zenon
  <2>2. CASE j > end
    <3>1. end \in i..j - 1
      BY <1>1, <2>2
    <3> QED
      BY <1>6, <1>11, <3>1, Zenon
  <2> HIDE DEF end, Ends
  <2> QED
    BY <1>1, <2>1, <2>2, <2>3
<1> HIDE DEF Ends
<1>7. last = end
  <2> HIDE DEF end
  <2> QED
    BY <1>1, <1>5, <1>6
<1> HIDE DEF last
<1>8. VarintAt(s, i) = [number |-> [k \in 1..last - i + 1 |-> s[i + k - 1] % 128],
                        next |-> last + 1]
  BY DEF VarintAt, last, Ends
<1>9. last - i + 1 = n /\ last + 1 = i + n
  BY <1>7
<1>10. [k \in 1..n |-> s[i + k - 1] % 128] = x
  <2>1. ASSUME NEW k \in 1..n PROVE s[i + k - 1] % 128 = x[k]
    <3>2. CASE k \in 1..n - 1
      <4>1. s[i + k - 1] = x[k] + 128 /\ x[k] \in Digit
        BY <1>2, <3>2, Zenon
      <4> QED
        BY <4>1, SevenBits, ZenonT(40)
    <3>3. CASE k = n
      <4>1. s[i + k - 1] = x[k] /\ x[k] \in Digit
        BY <1>2, <3>3, Zenon
      <4> QED
        BY <4>1, SevenBits, ZenonT(40)
    <3> QED
      BY <3>2, <3>3
  <2> QED
    BY <2>1
<1> QED
  BY <1>8, <1>9, <1>10

\* A counter has five digits at the most, and they say what it is.
LEMMA CounterDigits ==
    ASSUME NEW c \in 0..CounterMod - 1
    PROVE  /\ \E m \in Nat : m > 0 /\ Digits(c) \in [1..m -> Digit]
           /\ Number(Digits(c)) = c
<1>1. /\ Places[1] = 1 /\ Places[2] = 128 /\ Places[3] = 16384
      /\ Places[4] = 2097152 /\ Places[5] = 268435456
  BY SMT DEF Places
<1>2. c \in Nat /\ c \div Places[5] <= 15
  BY EmissionAssumption, <1>1, SMT
<1> DEFINE w == Width(c)
           q(i) == c \div Places[i]
<1>3. w \in 1..5 /\ \A i \in 2..5 : i <= w <=> Places[i] <= c
  <2>1. \E v \in 1..5 : \A i \in 2..5 : i <= v <=> Places[i] <= c
    <3>1. CASE c < 128
      BY <1>1, <1>2, <3>1, SMT
    <3>2. CASE 128 <= c /\ c < 16384
      BY <1>1, <1>2, <3>2, SMT
    <3>3. CASE 16384 <= c /\ c < 2097152
      BY <1>1, <1>2, <3>3, SMT
    <3>4. CASE 2097152 <= c /\ c < 268435456
      BY <1>1, <1>2, <3>4, SMT
    <3>5. CASE 268435456 <= c
      BY <1>1, <1>2, <3>5, SMT
    <3> QED
      BY <1>2, <3>1, <3>2, <3>3, <3>4, <3>5, SMT
  <2> QED
    BY <2>1, Zenon DEF Width
<1>4. Digits(c) = [i \in 1..w |-> q(i) % 128]
  BY Zenon DEF Digits
<1> HIDE DEF w
<1>5. \A i \in 1..5 : q(i) \in Nat /\ q(i) % 128 \in 0..127
  BY <1>1, <1>2, SMT
<1>6. \A i \in 2..5 : ~ (i <= w) => q(i) % 128 = 0
  BY <1>1, <1>2, <1>3, SMT
<1>7. c = (q(1) % 128) + 128 * ((q(2) % 128) + 128 * ((q(3) % 128)
                            + 128 * ((q(4) % 128) + 128 * (q(5) % 128))))
  BY <1>1, <1>2, SMT
<1> DEFINE At(i) == IF i <= Len(Digits(c)) THEN Digits(c)[i] ELSE 0
<1> HIDE DEF q
<1>8. Len(Digits(c)) = w
  BY <1>3, <1>4, SMT
<1>9. \A i \in 1..5 : At(i) = q(i) % 128
  <2> SUFFICES ASSUME NEW i \in 1..5 PROVE At(i) = q(i) % 128
    OBVIOUS
  <2>1. CASE i <= w
    <3>1. i \in 1..w
      BY <2>1, <1>3, SMT
    <3> QED
      BY <1>4, <1>8, <2>1, <3>1, Zenon
  <2>2. CASE ~ (i <= w)
    <3>1. i \in 2..5
      BY <2>2, <1>3, SMT
    <3> QED
      BY <1>6, <1>8, <2>2, <3>1, Zenon
  <2> QED
    BY <2>1, <2>2
<1>10. Number(Digits(c)) = At(1) + 128 * (At(2) + 128 * (At(3)
                                + 128 * (At(4) + 128 * At(5))))
  BY SMT DEF Number
<1> HIDE DEF At
<1>11. Number(Digits(c)) = c
  <2>1. /\ At(1) = q(1) % 128 /\ At(2) = q(2) % 128 /\ At(3) = q(3) % 128
        /\ At(4) = q(4) % 128 /\ At(5) = q(5) % 128
    BY <1>9, SMT
  <2> QED
    BY <1>7, <1>10, <2>1, SMT
<1>12. w \in Nat /\ w > 0 /\ \A i \in 1..w : q(i) % 128 \in Digit
  BY <1>3, <1>5, SMT DEF Digit
<1>13. Digits(c) \in [1..w -> Digit]
  BY <1>4, <1>12
<1> QED
  BY <1>11, <1>12, <1>13

AnyEvent == {ButtonPress(g) : g \in 0..255} \union {Unknown}

\* An event is one byte or two, and the bytes say which.
LEMMA EventBytes ==
    ASSUME NEW event \in AnyEvent
    PROVE  /\ encode_event(event) \in Seq(Int) /\ Len(encode_event(event)) \in {1, 2}
           /\ \/ /\ Len(encode_event(event)) = 2 /\ encode_event(event)[1] = 0
                 /\ event = ButtonPress(encode_event(event)[2])
              \/ /\ Len(encode_event(event)) = 1 /\ encode_event(event)[1] = 1
                 /\ event = Unknown
<1>1. CASE event = Unknown
  BY <1>1 DEF encode_event, Unknown
<1>2. CASE \E g \in 0..255 : event = ButtonPress(g)
  <2>1. PICK g \in 0..255 : event = ButtonPress(g)
    BY <1>2
  <2>2. encode_event(event) = <<0, g>>
    BY <2>1 DEF encode_event, ButtonPress
  <2>3. g \in Int
    BY SMT
  <2>4. <<0, g>> \in Seq(Int) /\ Len(<<0, g>>) = 2 /\ <<0, g>>[1] = 0 /\ <<0, g>>[2] = g
    BY <2>3
  <2> QED
    BY <2>1, <2>2, <2>4
<1> QED
  BY <1>1, <1>2 DEF AnyEvent

LEMMA VarintBytes ==
    ASSUME NEW n \in Nat, n > 0, NEW x \in [1..n -> Digit]
    PROVE  /\ varint(x) \in Seq(Int) /\ Len(varint(x)) = n
           /\ \A k \in 1..n - 1 : varint(x)[k] = x[k] + 128
           /\ varint(x)[n] = x[n]
<1>1. DOMAIN x = 1..n /\ Len(x) = n
  <2>1. x \in Seq(Digit)
    OBVIOUS
  <2> QED
    BY <2>1
<1>2. varint(x) = [i \in 1..n |-> x[i] + IF i < n THEN 128 ELSE 0]
  BY <1>1 DEF varint
<1>3. \A k \in 1..n : x[k] \in Int
  BY SevenBits
<1>4. ASSUME NEW k \in 1..n PROVE x[k] + (IF k < n THEN 128 ELSE 0) \in Int
  BY <1>3
<1>5. varint(x) \in [1..n -> Int]
  BY <1>2, <1>4
<1>6. varint(x) \in Seq(Int) /\ Len(varint(x)) = n
  BY <1>5
<1>7. \A k \in 1..n - 1 : varint(x)[k] = x[k] + 128
  BY <1>2
<1>8. varint(x)[n] = x[n]
  <2>1. n \in 1..n /\ ~ (n < n) /\ x[n] + 0 = x[n]
    BY <1>3
  <2> QED
    BY <1>2, <2>1
<1> QED
  BY <1>6, <1>7, <1>8

\* Where the parts of a concatenation are.
LEMMA Concat ==
    ASSUME NEW s \in Seq(Int), NEW t \in Seq(Int)
    PROVE  /\ s \o t \in Seq(Int) /\ Len(s \o t) = Len(s) + Len(t)
           /\ \A i \in 1..Len(s) : (s \o t)[i] = s[i]
           /\ \A i \in 1..Len(t) : (s \o t)[Len(s) + i] = t[i]
<1>1. s \o t \in Seq(Int) /\ Len(s \o t) = Len(s) + Len(t)
  BY ConcatProperties
<1>2. Len(s) \in Nat /\ Len(t) \in Nat
  OBVIOUS
<1>3. \A i \in 1..Len(s) + Len(t) : (s \o t)[i] = IF i <= Len(s) THEN s[i] ELSE t[i - Len(s)]
  BY ConcatProperties
<1>4. ASSUME NEW i \in 1..Len(s) PROVE (s \o t)[i] = s[i]
  BY <1>2, <1>3
<1>5. ASSUME NEW i \in 1..Len(t) PROVE (s \o t)[Len(s) + i] = t[i]
  <2>1. /\ Len(s) + i \in 1..Len(s) + Len(t) /\ ~ (Len(s) + i <= Len(s))
        /\ (Len(s) + i) - Len(s) = i
    BY <1>2
  <2> QED
    BY <1>3, <2>1
<1> QED
  BY <1>1, <1>4, <1>5

\* Where each field of a payload is in its encoding.
LaidOut(bytes, ev, n, x, m, y) ==
    /\ bytes \in Seq(Int) /\ Len(bytes) = 1 + Len(ev) + n + m
    /\ bytes[1] = PAYLOAD_VERSION
    /\ \A i \in 1..Len(ev) : bytes[1 + i] = ev[i]
    /\ \A k \in 1..n - 1 : bytes[1 + Len(ev) + k] = x[k] + 128
    /\ bytes[1 + Len(ev) + n] = x[n]
    /\ \A k \in 1..m - 1 : bytes[1 + Len(ev) + n + k] = y[k] + 128
    /\ bytes[1 + Len(ev) + n + m] = y[m]

LEMMA Layout ==
    ASSUME NEW event \in AnyEvent, NEW n \in Nat, n > 0, NEW x \in [1..n -> Digit],
           NEW m \in Nat, m > 0, NEW y \in [1..m -> Digit]
    PROVE  LaidOut(encode(Payload(event, x, y)), encode_event(event), n, x, m, y)
<1> DEFINE ev == encode_event(event)
           e == Len(ev)
           v == <<PAYLOAD_VERSION>>
           t == varint(x)
           w == varint(y)
           bytes == encode(Payload(event, x, y))
<1>1. ev \in Seq(Int) /\ e \in {1, 2}
  BY EventBytes
<1>2. /\ t \in Seq(Int) /\ Len(t) = n /\ t[n] = x[n]
      /\ \A k \in 1..n - 1 : t[k] = x[k] + 128
  BY VarintBytes
<1>3. /\ w \in Seq(Int) /\ Len(w) = m /\ w[m] = y[m]
      /\ \A k \in 1..m - 1 : w[k] = y[k] + 128
  BY VarintBytes
<1>4. v \in Seq(Int) /\ Len(v) = 1 /\ v[1] = PAYLOAD_VERSION
  BY DEF PAYLOAD_VERSION
<1>5. bytes = ((v \o ev) \o t) \o w
  BY DEF encode, Payload
<1> HIDE DEF ev, v, t, w, bytes
<1> DEFINE a == v \o ev
           b == a \o t
<1>6. /\ a \in Seq(Int) /\ Len(a) = 1 + e /\ a[1] = PAYLOAD_VERSION
      /\ \A i \in 1..e : a[1 + i] = ev[i]
  <2>1. /\ a \in Seq(Int) /\ Len(a) = Len(v) + Len(ev)
        /\ \A i \in 1..Len(v) : a[i] = v[i]
        /\ \A i \in 1..Len(ev) : a[Len(v) + i] = ev[i]
    BY <1>1, <1>4, Concat
  <2> HIDE DEF a
  <2> QED
    BY <1>4, <2>1
<1> HIDE DEF a
<1>7. /\ b \in Seq(Int) /\ Len(b) = 1 + e + n
      /\ \A i \in 1..1 + e : b[i] = a[i]
      /\ \A k \in 1..n : b[1 + e + k] = t[k]
  <2>1. /\ a \o t \in Seq(Int) /\ Len(a \o t) = Len(a) + Len(t)
        /\ \A i \in 1..Len(a) : (a \o t)[i] = a[i]
        /\ \A i \in 1..Len(t) : (a \o t)[Len(a) + i] = t[i]
    BY <1>2, <1>6, Concat
  <2> HIDE DEF b
  <2>2. b = a \o t
    BY DEF b
  <2> QED
    BY <1>2, <1>6, <2>1, <2>2
<1> HIDE DEF b
<1>8. /\ bytes \in Seq(Int) /\ Len(bytes) = 1 + e + n + m
      /\ \A i \in 1..1 + e + n : bytes[i] = b[i]
      /\ \A k \in 1..m : bytes[1 + e + n + k] = w[k]
  <2>1. /\ b \o w \in Seq(Int) /\ Len(b \o w) = Len(b) + Len(w)
        /\ \A i \in 1..Len(b) : (b \o w)[i] = b[i]
        /\ \A i \in 1..Len(w) : (b \o w)[Len(b) + i] = w[i]
    BY <1>3, <1>7, Concat
  <2>2. bytes = b \o w
    BY <1>5 DEF a, b
  <2> QED
    BY <1>3, <1>7, <2>1, <2>2
<1> HIDE DEF e
<1>9. e \in Int /\ e > 0
  BY <1>1
<1>10. /\ \A k \in 1..m - 1 : bytes[1 + e + n + k] = y[k] + 128
       /\ bytes[1 + e + n + m] = y[m]
  <2>1. m \in 1..m /\ \A k \in 1..m - 1 : k \in 1..m
    OBVIOUS
  <2> QED
    BY <1>3, <1>8, <2>1
<1>11. bytes[1] = PAYLOAD_VERSION
  <2>1. 1 \in 1..1 + e + n /\ 1 \in 1..1 + e
    BY <1>9
  <2> QED
    BY <1>6, <1>7, <1>8, <2>1
<1>12. ASSUME NEW i \in 1..e PROVE bytes[1 + i] = ev[i]
  <2>1. 1 + i \in 1..1 + e + n /\ 1 + i \in 1..1 + e
    BY <1>9
  <2> QED
    BY <1>6, <1>7, <1>8, <2>1
<1>13. ASSUME NEW k \in 1..n PROVE bytes[1 + e + k] = t[k]
  <2>1. 1 + e + k \in 1..1 + e + n
    BY <1>9
  <2> QED
    BY <1>7, <1>8, <2>1
<1>14. \A k \in 1..n - 1 : bytes[1 + e + k] = x[k] + 128
  <2>1. \A k \in 1..n - 1 : k \in 1..n
    OBVIOUS
  <2> QED
    BY <1>2, <1>13, <2>1
<1>15. bytes[1 + e + n] = x[n]
  BY <1>2, <1>13
<1> QED
  BY <1>8, <1>10, <1>11, <1>12, <1>14, <1>15 DEF LaidOut, bytes, e, ev

\* What fits is read back from its padded encoding, and the rest is zeros.
LEMMA ReadBack ==
    ASSUME NEW event \in AnyEvent, NEW n \in Nat, n > 0, NEW x \in [1..n -> Digit],
           NEW m \in Nat, m > 0, NEW y \in [1..m -> Digit], Fits(Payload(event, x, y))
    PROVE  LET p    == Payload(event, x, y)
               s    == padded(encode(p))
               read == take_from_bytes(s)
           IN  /\ Len(s) = PayloadLen
               /\ read.payload = p
               /\ \A i \in DOMAIN read.remainder : read.remainder[i] = 0
<1> DEFINE p == Payload(event, x, y)
           bytes == encode(p)
           ev == encode_event(event)
           e == Len(ev)
           s == padded(bytes)
           at == 2 + e
           end == at + n
<1>1. /\ bytes \in Seq(Int) /\ Len(bytes) = 1 + e + n + m
      /\ bytes[1] = PAYLOAD_VERSION
      /\ \A i \in 1..e : bytes[1 + i] = ev[i]
      /\ \A k \in 1..n - 1 : bytes[1 + e + k] = x[k] + 128
      /\ bytes[1 + e + n] = x[n]
      /\ \A k \in 1..m - 1 : bytes[1 + e + n + k] = y[k] + 128
      /\ bytes[1 + e + n + m] = y[m]
  <2>1. LaidOut(bytes, ev, n, x, m, y)
    BY Layout
  <2> HIDE DEF bytes, ev
  <2> QED
    BY <2>1, Zenon DEF LaidOut
<1>2. e \in {1, 2}
  BY EventBytes
<1>3. Len(bytes) <= PayloadLen /\ PayloadLen \in Nat
  BY PayloadAssumption DEF Fits
<1>4. s = [i \in 1..PayloadLen |-> IF i <= Len(bytes) THEN bytes[i] ELSE 0]
  BY Zenon DEF padded
<1>17. \/ e = 2 /\ ev[1] = 0 /\ event = ButtonPress(ev[2])
       \/ e = 1 /\ ev[1] = 1 /\ event = Unknown
  BY EventBytes
<1> HIDE DEF p, bytes, ev, s, e
<1>5. Len(s) = PayloadLen
  <2> DEFINE f(i) == IF i <= Len(bytes) THEN bytes[i] ELSE 0
  <2>1. s = [i \in 1..PayloadLen |-> f(i)]
    BY <1>4
  <2> HIDE DEF f
  <2> QED
    BY <1>3, <2>1
<1>6. /\ \A i \in 1..1 + e + n + m : s[i] = bytes[i]
      /\ \A i \in 2 + e + n + m..PayloadLen : s[i] = 0
  <2>1. ASSUME NEW i \in 1..1 + e + n + m PROVE s[i] = bytes[i]
    <3>1. i \in 1..PayloadLen /\ i <= Len(bytes)
      BY <1>1, <1>2, <1>3
    <3> QED
      BY <1>4, <3>1
  <2>2. ASSUME NEW i \in 2 + e + n + m..PayloadLen PROVE s[i] = 0
    <3>1. i \in 1..PayloadLen /\ ~ (i <= Len(bytes))
      BY <1>1, <1>2, <1>3
    <3> QED
      BY <1>4, <3>1
  <2> QED
    BY <2>1, <2>2
<1>7. at \in Nat /\ end \in Nat /\ end = 2 + e + n /\ end + m - 1 <= PayloadLen
      /\ end + m - 1 = 1 + e + n + m
  BY <1>1, <1>2, <1>3
<1>8. s[1] = PAYLOAD_VERSION
  <2>1. 1 \in 1..1 + e + n + m
    BY <1>2
  <2> QED
    BY <1>1, <1>6, <2>1
<1>9. \A i \in 1..e : s[1 + i] = ev[i]
  <2>1. \A i \in 1..e : 1 + i \in 1..1 + e + n + m
    BY <1>2
  <2> QED
    BY <1>1, <1>6, <2>1
<1>10. /\ IF s[2] = 0 THEN event = ButtonPress(s[3]) ELSE event = Unknown
       /\ (IF s[2] = 0 THEN 4 ELSE 3) = at
  <2>1. CASE e = 2 /\ ev[1] = 0 /\ event = ButtonPress(ev[2])
    <3>1. s[2] = ev[1] /\ s[3] = ev[2]
      <4>1. 1 \in 1..e /\ 2 \in 1..e
        BY <2>1
      <4>2. s[1 + 1] = ev[1] /\ s[1 + 2] = ev[2]
        BY <1>9, <4>1
      <4> QED
        BY <4>2
    <3> QED
      BY <2>1, <3>1
  <2>2. CASE e = 1 /\ ev[1] = 1 /\ event = Unknown
    <3>1. s[2] = ev[1]
      <4>1. 1 \in 1..e
        BY <2>2
      <4>2. s[1 + 1] = ev[1]
        BY <1>9, <4>1
      <4> QED
        BY <4>2
    <3> QED
      BY <2>2, <3>1
  <2> QED
    BY <1>17, <2>1, <2>2
<1>11. VarintAt(s, at) = [number |-> x, next |-> end]
  <2>1. \A k \in 1..n - 1 : s[at + k - 1] = x[k] + 128
    <3> SUFFICES ASSUME NEW k \in 1..n - 1 PROVE s[at + k - 1] = x[k] + 128
      OBVIOUS
    <3>1. at + k - 1 = 1 + e + k /\ 1 + e + k \in 1..1 + e + n + m
      BY <1>2
    <3> QED
      BY <1>1, <1>6, <3>1
  <2>2. s[at + n - 1] = x[n]
    <3>1. at + n - 1 = 1 + e + n /\ 1 + e + n \in 1..1 + e + n + m
      BY <1>2
    <3> QED
      BY <1>1, <1>6, <3>1
  <2>3. Len(s) \in Nat /\ at + n - 1 <= Len(s)
    BY <1>3, <1>5, <1>7
  <2>4. at \in Nat /\ n \in Nat /\ n > 0 /\ x \in [1..n -> Digit]
    BY <1>7
  <2> HIDE DEF at, end
  <2>5. Standing(s, at, n, x)
    BY <2>1, <2>2, <2>3, <2>4, Zenon DEF Standing
  <2>6. VarintAt(s, at) = [number |-> x, next |-> at + n]
    BY <2>5, VarintBack, Zenon
  <2> QED
    BY <2>6, Zenon DEF end
<1>12. VarintAt(s, end) = [number |-> y, next |-> end + m]
  <2>1. ASSUME NEW k \in 1..m PROVE s[end + k - 1] = bytes[1 + e + n + k]
    <3>1. end + k - 1 = 1 + e + n + k /\ 1 + e + n + k \in 1..1 + e + n + m
      BY <1>2, <1>7
    <3> QED
      BY <1>6, <3>1
  <2>2. m \in 1..m /\ \A k \in 1..m - 1 : k \in 1..m
    OBVIOUS
  <2>3. \A k \in 1..m - 1 : s[end + k - 1] = y[k] + 128
    BY <1>1, <2>1, <2>2
  <2>4. s[end + m - 1] = y[m]
    BY <1>1, <2>1, <2>2
  <2>5. Len(s) \in Nat /\ end + m - 1 <= Len(s) /\ end \in Nat
    BY <1>3, <1>5, <1>7
  <2>6. m \in Nat /\ m > 0 /\ y \in [1..m -> Digit]
    OBVIOUS
  <2> HIDE DEF end
  <2>7. Standing(s, end, m, y)
    BY <2>3, <2>4, <2>5, <2>6, Zenon DEF Standing
  <2> QED
    BY <2>7, VarintBack, Zenon
<1> HIDE DEF at, end
<1> DEFINE read == take_from_bytes(s)
           ev0 == IF s[2] = 0 THEN ButtonPress(s[3]) ELSE Unknown
           time == VarintAt(s, IF s[2] = 0 THEN 4 ELSE 3)
           count == VarintAt(s, time.next)
<1>13. read = [payload |-> [Payload(ev0, time.number, count.number) EXCEPT !.version = s[1]],
               remainder |-> SubSeq(s, count.next, Len(s))]
  BY Zenon DEF take_from_bytes
<1>14. /\ ev0 = event /\ time.number = x /\ time.next = end
       /\ count.number = y /\ count.next = end + m
  <2>1. ev0 = event
    BY <1>10
  <2>2. time = [number |-> x, next |-> end]
    BY <1>10, <1>11
  <2>3. time.number = x /\ time.next = end
    BY <2>2
  <2> HIDE DEF time
  <2>4. count = [number |-> y, next |-> end + m]
    BY <1>12, <2>3
  <2> HIDE DEF count, ev0
  <2> QED
    BY <2>1, <2>3, <2>4
<1> HIDE DEF ev0, time, count, read
<1>15. read.payload = p
  <2>1. read.payload = [Payload(event, x, y) EXCEPT !.version = PAYLOAD_VERSION]
    BY <1>8, <1>13, <1>14
  <2> QED
    BY <2>1 DEF p, Payload
<1>16. ASSUME NEW i \in DOMAIN read.remainder PROVE read.remainder[i] = 0
  <2>1. read.remainder = SubSeq(s, end + m, PayloadLen)
    BY <1>5, <1>13, <1>14
  <2>2. \A j \in end + m..PayloadLen : s[j] = 0
    <3>1. end + m = 2 + e + n + m
      BY <1>2, <1>7
    <3> QED
      BY <1>6, <3>1
  <2>3. \A j \in end + m..PayloadLen : s[j] \in {0}
    BY <2>2
  <2> DEFINE sub == SubSeq(s, end + m, PayloadLen)
  <2>4. sub \in Seq({0})
    BY <1>3, <1>7, <2>3, SubSeqProperties
  <2> HIDE DEF sub
  <2>5. i \in DOMAIN sub /\ read.remainder[i] = sub[i]
    BY <2>1 DEF sub
  <2> QED
    BY <2>4, <2>5
<1> QED
  BY <1>5, <1>15, <1>16 DEF read, s, bytes, p

--------------------------------------------------------------------------------
\* What a frame shows: the key, the signature over the payload, the payload.
LEMMA FrameParts ==
    ASSUME NEW k, NEW payload
    PROVE  LET s == padded(encode(payload))
               f == Frame(Attested(k, payload))
           IN  /\ Len(f) = PayloadLen + 2
               /\ Key(f) = k /\ Signature(f) = [key |-> k, over |-> s]
               /\ SignedPayload(f) = s
               /\ \A i \in 1..PayloadLen : f[i + 2] = s[i]
<1> DEFINE s == padded(encode(payload))
           f == Frame(Attested(k, payload))
           sig == [key |-> k, over |-> s]
           h == <<k, sig>>
<1>1. PICK S : s \in Seq(S)
  BY PaddedIsSeq
<1>2. Len(s) = PayloadLen /\ PayloadLen \in Nat
  <2> DEFINE bytes == encode(payload)
             g(i) == IF i <= Len(bytes) THEN bytes[i] ELSE 0
  <2>1. s = [i \in 1..PayloadLen |-> g(i)]
    BY DEF padded
  <2> HIDE DEF g, s
  <2> QED
    BY <2>1, PayloadAssumption
<1>3. f = h \o s
  BY DEF Frame, Attested
<1> DEFINE T == S \union {k, sig}
<1> HIDE DEF s, sig, f
<1>4. s \in Seq(T) /\ h \in Seq(T) /\ Len(h) = 2 /\ h[1] = k /\ h[2] = sig
  BY <1>1
<1> HIDE DEF T, h
<1>5. /\ h \o s \in Seq(T) /\ Len(h \o s) = 2 + PayloadLen
      /\ \A i \in 1..2 + PayloadLen : (h \o s)[i] = IF i <= 2 THEN h[i] ELSE s[i - 2]
  <2>1. /\ h \o s \in Seq(T) /\ Len(h \o s) = Len(h) + Len(s)
        /\ \A i \in 1..Len(h) + Len(s) :
              (h \o s)[i] = IF i <= Len(h) THEN h[i] ELSE s[i - Len(h)]
    BY <1>4, ConcatProperties
  <2> QED
    BY <1>2, <1>4, <2>1
<1>6. f \in Seq(T) /\ Len(f) = PayloadLen + 2 /\ f[1] = k /\ f[2] = sig
  <2>1. 1 \in 1..2 + PayloadLen /\ 2 \in 1..2 + PayloadLen
    BY <1>2
  <2> QED
    BY <1>2, <1>3, <1>4, <1>5, <2>1
<1>7. ASSUME NEW i \in 1..PayloadLen PROVE f[i + 2] = s[i]
  <2>1. i + 2 \in 1..2 + PayloadLen /\ ~ (i + 2 <= 2) /\ (i + 2) - 2 = i
    BY <1>2
  <2> QED
    BY <1>3, <1>5, <2>1
<1>8. SubSeq(f, 3, Len(f)) = s
  <2> DEFINE n == PayloadLen + 2
             sub == SubSeq(f, 3, n)
  <2>1. \A i \in 3..n : f[i] \in T
    BY <1>2, <1>6
  <2>2. /\ sub \in Seq(T) /\ Len(sub) = IF 3 <= n THEN n - 3 + 1 ELSE 0
        /\ \A i \in 1..n - 3 + 1 : sub[i] = f[3 + i - 1]
    BY <1>2, <2>1, SubSeqProperties
  <2> HIDE DEF sub
  <2>3. n \in Int /\ n - 3 + 1 = PayloadLen /\ (3 <= n <=> PayloadLen > 0)
    BY <1>2
  <2> HIDE DEF n
  <2>4. Len(sub) = PayloadLen
    BY <1>2, <2>2, <2>3
  <2>5. ASSUME NEW i \in 1..PayloadLen PROVE sub[i] = s[i]
    <3>1. 3 + i - 1 = i + 2
      BY <1>2
    <3> QED
      BY <1>7, <2>2, <2>3, <3>1
  <2>6. sub = s
    BY <1>2, <1>4, <2>2, <2>4, <2>5, SeqEqual
  <2> QED
    BY <1>6, <2>6 DEF sub, n
<1> QED
  BY <1>2, <1>6, <1>7, <1>8 DEF Key, Signature, SignedPayload, f, s, sig

\* What the history says of a frame, and what the frame shows, are of one payload.
LEMMA Parts ==
    ASSUME NEW s, WellMade(s)
    PROVE  \E event \in Events, time \in Times, c \in 0..CounterMod - 1 :
              LET payload == Payload(event, time, Digits(c))
                  bytes   == padded(encode(payload))
                  f       == s.frame
              IN  /\ Fits(payload)
                  /\ s.of.event = event /\ s.of.timestamp_ms = time /\ s.of.counter = c
                  /\ Len(f) = PayloadLen + 2
                  /\ Signature(f) = [key |-> Key(f), over |-> bytes]
                  /\ SignedPayload(f) = bytes
                  /\ \A i \in 1..PayloadLen : f[i + 2] = bytes[i]
<1>1. PICK event \in Events, time \in Times, c \in 0..CounterMod - 1 :
         MadeOf(s, event, time, c)
  BY Zenon DEF WellMade
<1> DEFINE payload == Payload(event, time, Digits(c))
           bytes == padded(encode(payload))
           f == s.frame
           k == Key(f)
<1>2. /\ Fits(payload) /\ f = Frame(Attested(k, payload))
      /\ s.of.event = event /\ s.of.timestamp_ms = time /\ s.of.counter = c
  BY <1>1 DEF MadeOf
<1> HIDE DEF f, k, payload, bytes
<1>3. /\ Len(f) = PayloadLen + 2
      /\ Signature(f) = [key |-> k, over |-> bytes] /\ SignedPayload(f) = bytes
      /\ \A i \in 1..PayloadLen : f[i + 2] = bytes[i]
  BY <1>2, FrameParts DEF bytes
<1> QED
  BY <1>2, <1>3, Zenon DEF f, k, payload, bytes

\* Records of one key are one record, so a device that sent two frames has shown
\* two keys and two signatures.
LEMMA NothingRepeats ==
    ASSUME Told, Origins, NEW d \in Devices, Cardinality(Frames(d)) > 1, NEW p \in {1, 2}
    PROVE  Fixed(d, p) = {}
<1> SUFFICES ASSUME NEW v, v \in Fixed(d, p) PROVE FALSE
  OBVIOUS
<1>1. \A s \in air[d] : s.frame[p] = v
  BY DEF Fixed, Frames
<1>2. \A s \in air[d] : Signature(s.frame).key = Key(s.frame)
  <2> SUFFICES ASSUME NEW s \in air[d] PROVE Signature(s.frame).key = Key(s.frame)
    OBVIOUS
  <2>1. WellMade(s)
    BY DEF Origins, Known
  <2>2. \E bytes : Signature(s.frame) = [key |-> Key(s.frame), over |-> bytes]
    BY <2>1, Parts, Zenon
  <2> QED
    BY <2>2
<1>3. ASSUME NEW r \in air[d], NEW s \in air[d] PROVE r = s
  <2>1. r.frame[p] = s.frame[p]
    BY <1>1
  <2>2. Key(r.frame) = Key(s.frame)
    <3>1. CASE p = 1
      BY <2>1, <3>1 DEF Key
    <3>2. CASE p = 2
      <4>1. Signature(r.frame) = Signature(s.frame)
        BY <2>1, <3>2 DEF Signature
      <4> QED
        BY <1>2, <4>1
    <3> QED
      BY <3>1, <3>2
  <2>3. r \in Known(d) /\ s \in Known(d)
    BY DEF Known
  <2> QED
    BY <2>2, <2>3, Zenon DEF Told
<1>4. Frames(d) = {} \/ \E f : Frames(d) = {f}
  BY <1>3 DEF Frames
<1>5. Cardinality(Frames(d)) \in {0, 1}
  BY <1>4, FS_EmptySet, FS_Singleton
<1> QED
  BY <1>5

--------------------------------------------------------------------------------
\* The state of every device has its type, and a device holds at most one
\* attestation at a time.
THEOREM TypeCorrect == Spec => []TypeOK
<1>1. IInv => TypeOK
  <2> SUFFICES ASSUME IInv PROVE TypeOK
    OBVIOUS
  <2>1. ASSUME NEW d \in Devices PROVE Cardinality(held[d]) <= 1
    <3>1. CASE held[d] = {}
      BY <3>1, FS_EmptySet
    <3>2. CASE held[d] # {}
      <4>1. PICK a : a \in held[d]
        BY <3>2
      <4>2. \A b \in held[d] : b = a
        BY <4>1 DEF IInv, Typed, HeldTyped
      <4>3. held[d] = {a}
        BY <4>1, <4>2
      <4> QED
        BY <4>3, FS_Singleton
    <3> QED
      BY <3>1, <3>2
  <2> QED
    BY <2>1 DEF IInv, Typed, PhaseTyped, SeedTyped, CounterTyped, CountsTyped, TypeOK
<1> QED
  BY <1>1, Inductive, PTL

\* A seed is in the buffer of attest only between its draw and its signature,
\* and no key that has been on the air is in any buffer again: through declined
\* payloads and power cycles, a key outlives nothing.
THEOREM Forgotten == Spec => []SeedForgotten
<1>1. IInv => SeedForgotten
  <2> SUFFICES ASSUME IInv PROVE SeedForgotten
    OBVIOUS
  <2>1. \A s \in OnAir : \E d \in Devices : s \in Known(d)
    BY DEF OnAir, Known
  <2>2. \A d \in Devices, s \in OnAir : Key(s.frame) # seed[d]
    BY <2>1 DEF IInv, Spent
  <2> QED
    BY <2>2 DEF IInv, SeedAtWork, SeedForgotten
<1> QED
  BY <1>1, Inductive, PTL

\* Whatever any number of devices attest and send, in any number of power cycles
\* and with the counter anywhere: two attestations never make one frame, and one
\* attestation, emitted again and again, never makes two.
THEOREM Distinct == Spec => []FramesDistinct
<1>1. IInv => FramesDistinct
  <2> SUFFICES ASSUME IInv, NEW r \in OnAir, NEW s \in OnAir
               PROVE  r.frame = s.frame <=> r.of.number = s.of.number
    BY DEF FramesDistinct
  <2>1. PICK c \in Devices : r \in Known(c)
    BY DEF OnAir, Known
  <2>2. PICK d \in Devices : s \in Known(d)
    BY DEF OnAir, Known
  <2>3. (Key(r.frame) = Key(s.frame) \/ r.of.number = s.of.number) => r = s
    BY <2>1, <2>2 DEF IInv, Told
  <2> QED
    BY <2>3
<1> QED
  BY <1>1, Inductive, PTL

\* Frames that say the same can be told apart by their keys and signatures only,
\* and those repeat nothing: two devices that said the same things over any number
\* of frames show no position that tells one from the other.
THEOREM NoMark == Spec => []NoDeviceMark
<1>1. Told /\ Origins => NoDeviceMark
  <2> SUFFICES ASSUME Told, Origins, NEW c \in Devices, NEW d \in Devices,
                      NEW p \in 1..PayloadLen + 2, Said(c) = Said(d),
                      Cardinality(Frames(c)) > 1, Cardinality(Frames(d)) > 1,
                      NEW v \in Fixed(c, p), NEW w \in Fixed(d, p)
               PROVE  v = w
    BY DEF NoDeviceMark
  <2>1. CASE p \in {1, 2}
    BY <2>1, NothingRepeats
  <2>2. CASE p \notin {1, 2}
    <3>1. /\ \E f \in Frames(c) : f[p] = v
          /\ \A g \in Frames(d) : g[p] = w
      BY DEF Fixed
    <3>2. PICK f \in Frames(c) : f[p] = v
      BY <3>1
    <3>3. SignedPayload(f) \in Said(d)
      BY DEF Said
    <3>4. PICK g \in Frames(d) : SignedPayload(g) = SignedPayload(f)
      BY <3>3 DEF Said
    <3>5. p - 2 \in 1..PayloadLen /\ (p - 2) + 2 = p
      BY <2>2, PayloadAssumption
    <3>6. ASSUME NEW s, WellMade(s)
          PROVE  s.frame[p] = SignedPayload(s.frame)[p - 2]
      <4>1. \A i \in 1..PayloadLen : s.frame[i + 2] = SignedPayload(s.frame)[i]
        BY <3>6, Parts, ZenonT(40)
      <4>2. s.frame[(p - 2) + 2] = SignedPayload(s.frame)[p - 2]
        BY <3>5, <4>1, Zenon
      <4> QED
        BY <3>5, <4>2, Zenon
    <3>7. /\ \E s \in air[c] : f = s.frame /\ WellMade(s)
          /\ \E s \in air[d] : g = s.frame /\ WellMade(s)
      BY DEF Origins, Known, Frames
    <3>8. f[p] = SignedPayload(f)[p - 2] /\ g[p] = SignedPayload(g)[p - 2]
      BY <3>6, <3>7
    <3> QED
      BY <3>1, <3>2, <3>4, <3>8
  <2> QED
    BY <2>1, <2>2
<1> QED
  BY <1>1, Inductive, PTL DEF IInv

\* Every frame of every device has one length, carries a signature by its own key
\* over its own payload, reads back as the very event, time and counter of the
\* attestation it was made of, at any width of the time and of the counter, and
\* pads them with zeros.
THEOREM Uniform == Spec => []FramesUniform
<1>1. Origins => FramesUniform
  <2> SUFFICES ASSUME Origins, NEW s \in OnAir
               PROVE  LET read == take_from_bytes(SignedPayload(s.frame))
                      IN  /\ Len(s.frame) = PayloadLen + 2
                          /\ Signature(s.frame)
                                 = [key |-> Key(s.frame), over |-> SignedPayload(s.frame)]
                          /\ read.payload.event = s.of.event
                          /\ read.payload.timestamp_ms = s.of.timestamp_ms
                          /\ Number(read.payload.counter) = s.of.counter
                          /\ \A i \in DOMAIN read.remainder : read.remainder[i] = 0
    BY Zenon DEF FramesUniform
  <2>1. WellMade(s)
    BY DEF Origins, Known, OnAir
  <2> DEFINE f == s.frame
             of == s.of
  <2>2. PICK event \in Events, time \in Times, c \in 0..CounterMod - 1 :
           LET payload == Payload(event, time, Digits(c))
               bytes   == padded(encode(payload))
           IN  /\ Fits(payload)
               /\ of.event = event /\ of.timestamp_ms = time /\ of.counter = c
               /\ Len(f) = PayloadLen + 2
               /\ Signature(f) = [key |-> Key(f), over |-> bytes]
               /\ SignedPayload(f) = bytes
               /\ \A i \in 1..PayloadLen : f[i + 2] = bytes[i]
    BY <2>1, Parts, Zenon
  <2>3. event \in AnyEvent
    BY InputAssumption DEF AnyEvent
  <2>4. PICK m \in Nat : m > 0 /\ Digits(c) \in [1..m -> Digit]
    BY CounterDigits
  <2>5. Number(Digits(c)) = c
    BY CounterDigits
  <2> DEFINE n == Len(time)
             y == Digits(c)
             payload == Payload(event, time, y)
             bytes == padded(encode(payload))
             read == take_from_bytes(bytes)
  <2>6. n \in Nat /\ n > 0 /\ time \in [1..n -> Digit]
    <3>1. time \in Seq(Digit) /\ time # <<>>
      BY InputAssumption DEF Digit
    <3> QED
      BY <3>1
  <2>7. /\ read.payload = payload
        /\ \A i \in DOMAIN read.remainder : read.remainder[i] = 0
    <3>1. Fits(payload)
      BY <2>2
    <3>2. y \in [1..m -> Digit]
      BY <2>4
    <3> HIDE DEF n, y
    <3> QED
      BY <2>3, <2>4, <2>6, <3>1, <3>2, ReadBack
  <2>8. payload.event = event /\ payload.timestamp_ms = time /\ payload.counter = y
    BY DEF Payload
  <2>9. /\ Len(f) = PayloadLen + 2 /\ Signature(f) = [key |-> Key(f), over |-> bytes]
        /\ SignedPayload(f) = bytes
        /\ of.event = event /\ of.timestamp_ms = time /\ of.counter = c
    BY <2>2
  <2>10. Number(y) = c
    BY <2>5
  <2> HIDE DEF payload, read, bytes, y
  <2>11. /\ read.payload.event = of.event /\ read.payload.timestamp_ms = of.timestamp_ms
         /\ Number(read.payload.counter) = of.counter
    BY <2>7, <2>8, <2>9, <2>10
  <2> QED
    BY <2>7, <2>9, <2>11, Zenon DEF read, f, of
<1> QED
  BY <1>1, Inductive, PTL DEF IInv
================================================================================
