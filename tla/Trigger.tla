-------------------------------- MODULE Trigger --------------------------------
(***************************************************************************)
(* The trigger end to end: a finger, a contact that bounces after every    *)
(* move of the finger (external), the polling loop of main.rs that samples *)
(* the pin and is away for a while after each reported press, and the      *)
(* debouncer (module Debounce). Time is uptime in milliseconds.            *)
(***************************************************************************)
EXTENDS Debounce

CONSTANTS PollMs,              \* POLL_INTERVAL_MS
          HandlerMs,           \* longest the loop is away handling one press:
                               \* two clock transactions, signing, printing
          BounceMs,            \* longest the contact bounces after a move
          MaxNow, MaxMoves     \* bounds: length of the run, moves of the finger

ASSUME TriggerAssumption == /\ {HandlerMs, BounceMs} \subseteq Nat
                            /\ PollMs \in Nat \ {0}
                            /\ {MaxNow, MaxMoves} \subseteq Nat

VARIABLES now,                 \* uptime
          polledAt,            \* when the loop last sampled the pin
          away,                \* the loop is handling a reported press
          finger, movedAt,     \* the level the finger wants, since when
          moves,               \* moves of the finger so far
          presses,             \* history: presses the finger made
          hurried,             \* history: some level was held for less than Hold
          reports              \* history: Edge::Pressed reported

vars == <<now, pressed, last_change_ms, polledAt, away, finger, movedAt, moves,
          presses, hurried, reports>>

\* What the pin may read: anything while the contact bounces, then the level
\* the finger holds it at.
Level == IF moves > 0 /\ now - movedAt < BounceMs THEN BOOLEAN ELSE {finger}

\* Long enough for a level to be seen: the bounce is over, a lockout has run
\* out, and the loop has been back at the pin.
Hold == BounceMs + DebounceMs + PollMs + HandlerMs

\* The longest the loop can go between two samples.
Gap == IF away THEN PollMs + HandlerMs ELSE PollMs

--------------------------------------------------------------------------------
\* Boot: the pin seeds the debouncer; a finger already there made no press.
Init == /\ now = 0
        /\ finger \in BOOLEAN
        /\ pressed = finger
        /\ last_change_ms = 0
        /\ polledAt = 0
        /\ away = FALSE
        /\ movedAt = 0
        /\ moves = 0
        /\ presses = 0
        /\ hurried = FALSE
        /\ reports = 0

Move == /\ moves < MaxMoves
        /\ finger' = ~ finger
        /\ movedAt' = now
        /\ moves' = moves + 1
        /\ presses' = IF finger THEN presses ELSE presses + 1
        /\ hurried' = (hurried \/ now - movedAt <= Hold)
        /\ UNCHANGED <<now, pressed, last_change_ms, polledAt, away, reports>>

\* One pass of the loop up to the sample (button.poll); on Edge::Pressed the
\* loop goes away to answer it.
Poll(raw) == /\ now - polledAt >= PollMs
             /\ Update(raw, now)
             /\ polledAt' = now
             /\ away' = (~ pressed /\ pressed')
             /\ reports' = IF away' THEN reports + 1 ELSE reports
             /\ UNCHANGED <<now, finger, movedAt, moves, presses, hurried>>

\* A millisecond passes; the loop is back at the pin before its gap is over.
Tick == /\ now < MaxNow
        /\ now - polledAt < Gap
        /\ now' = now + 1
        /\ UNCHANGED <<pressed, last_change_ms, polledAt, away, finger, movedAt,
                       moves, presses, hurried, reports>>

Next == Move \/ Tick \/ \E raw \in Level : Poll(raw)

Spec == Init /\ [][Next]_vars

--------------------------------------------------------------------------------
TypeOK == /\ {now, polledAt, movedAt, last_change_ms} \subseteq 0..MaxNow
          /\ {pressed, away, finger, hurried} \subseteq BOOLEAN
          /\ moves \in 0..MaxMoves
          /\ presses \in 0..MaxMoves
          /\ reports \in Nat

\* No press is invented: however the contact bounces and whenever the loop
\* looks, the presses reported never outnumber the presses made, and a finger
\* already down at boot has made none (Button::new, Button::update).
NoInventedPress == reports <= presses

\* A level the finger holds is seen: once it has been still for the bounce, one
\* lockout and the longest gap between two samples, the debounced level is the
\* finger's, so the lockout never latches the trigger in a wrong state.
HeldIsSeen == now - movedAt > Hold => pressed = finger

\* Every deliberate press is reported, once: if the finger has held every level
\* for Hold, the loop misses none of its presses and doubles none, whatever the
\* contact and the passes of the loop did (Button::poll, POLL_INTERVAL_MS).
EveryPressReported == ~ hurried /\ now - movedAt > Hold => reports = presses
================================================================================
