------------------------------ MODULE InputDevices -----------------------------
(* ndp/ui/encoder.py, buttons.py and input.py: what the polling of the pins makes *)
(* of a knob that is turned and of a key that bounces.  Time is counted in polls; *)
(* the three keys of PhysicalButtons are alike and share nothing, so there is one. *)
EXTENDS Integers, Sequences, SequencesExt

CONSTANTS
    StepsPerDetent, \* values of encoder_steps_per_detent
    Debounce,       \* button_debounce_seconds, encoder_sw_debounce_seconds, in polls
    Confirm,        \* button_press_confirm_ms, in polls
    Bounce,         \* polls for which the key's contact is uncertain
    MaxTurns,       \* bound on how far the knob is turned, in phases
    MaxSkipped      \* bound on the phases that are skipped, by balance

ASSUME InputAssumption ==
    /\ StepsPerDetent \subseteq Int /\ MaxTurns \in Nat \ 0..2 /\ MaxSkipped \in Nat
    /\ Bounce \in Nat /\ Confirm \in Nat /\ Confirm > Bounce
    /\ Debounce \in Nat /\ Debounce > Bounce

VARIABLES
    device,     \* "encoder", "edge" or "level": buttons by their trigger mode
    steps,      \* steps_per_detent
    knob,       \* phases clockwise from where the knob rests
    skipped,    \* history: those of them that no poll could see
    lastAb,     \* _last_ab
    acc,        \* _accumulator
    detents,    \* history: NEXT handled minus PREVIOUS handled
    offset,     \* history: where the accumulator began
    finger,     \* the key is pressed
    bouncing,   \* polls for which its contact is still uncertain
    level,      \* _last_sw, _last_levels: 0 is pressed
    fired,      \* polls since _last_select, _last_fire
    held,       \* polls since _press_started, -1 when there is none
    armed,      \* _armed
    down,       \* history: polls since the finger last moved
    quiet,      \* history: nothing had fired for long when the key was pressed
    fires       \* history: actions handled since the key was last pressed

knobVars == <<knob, skipped, lastAb, acc, detents>>
keyVars == <<finger, bouncing, level, fired, held, armed, down, quiet, fires>>
inputVars == <<device, steps, offset, knobVars, keyVars>>

Long == Bounce + Confirm + Debounce + 1
Count(polls) == IF polls < Long THEN polls + 1 ELSE polls

-------------------------------------------------------------------------------
(* The quadrature decoder.                                                     *)

\* The contacts CLK and DT, as one number, in the four phases of a clockwise turn
\* from the rest position, where both are pulled up.
Phases == <<3, 1, 0, 2>>
Ab(turned) == Phases[(turned % 4) + 1]

\* _QUAD_DELTA, by the number before and the number after.  The mutant has two
\* entries swapped.
Swapped(before, after) ==
    <<0, -1, 1, 0, 1, 0, 0, 1, -1, 0, 0, -1, 0, 1, -1, 0>>[4 * before + after + 1]
Delta(before, after) ==
    <<0, -1, 1, 0, 1, 0, 0, -1, -1, 0, 0, 1, 0, 1, -1, 0>>[4 * before + after + 1]

\* update: how many whole steps sum holds, -7 as many backwards as 7 forwards, and
\* what is left of it.  The mutant takes nothing off.
Whole(sum) == IF sum >= 0 THEN sum \div steps ELSE -((-sum) \div steps)
NothingOff(sum) == sum
Left(sum) == sum - steps * Whole(sum)

Decode ==
    /\ lastAb' = Ab(knob)
    /\ acc' = Left(acc + Delta(lastAb, Ab(knob)))
    /\ detents' = detents + Whole(acc + Delta(lastAb, Ab(knob)))
    /\ UNCHANGED <<knob, skipped>>

\* Between two polls the knob is turned by one phase or, turned fast, by two, of which
\* the poll cannot tell which way.
Seen == lastAb = Ab(knob)

TurnBy(n) ==
    /\ knob + n \in -MaxTurns..MaxTurns
    /\ knob' = knob + n
    /\ UNCHANGED <<lastAb, acc, detents>>

Turn ==
    /\ device = "encoder" /\ Seen
    /\ \/ \E n \in {-1, 1} : TurnBy(n) /\ UNCHANGED skipped
       \/ \E n \in {-2, 2} : TurnBy(n) /\ skipped' = skipped + n
                             /\ skipped' \in -MaxSkipped..MaxSkipped
    /\ UNCHANGED <<device, steps, offset, keyVars>>

-------------------------------------------------------------------------------
(* The keys.                                                                   *)

\* The level a poll may read.
Rest == IF finger THEN 0 ELSE 1
Read == IF bouncing > 0 THEN {0, 1} ELSE {Rest}

\* Whether the last action is long enough ago.  The mutant has no debounce.
NoDebounce == TRUE
Debounced == Count(fired) >= Debounce

\* RotaryEncoder's SW and PhysicalButtons._poll_edge.
EdgeFires(now) == level = 1 /\ now = 0 /\ Debounced

\* PhysicalButtons._poll_level.
HeldFor(now) == IF now = 1 THEN -1 ELSE IF held = -1 THEN 0 ELSE Count(held)
LevelFires(now) == now = 0 /\ HeldFor(now) >= Confirm /\ armed /\ Debounced

PollKey ==
    \E now \in Read :
        LET byLevel == device = "level"
            fire == IF byLevel THEN LevelFires(now) ELSE EdgeFires(now)
        IN /\ level' = now
           /\ fired' = IF fire THEN 0 ELSE Count(fired)
           /\ fires' = fires + IF fire THEN 1 ELSE 0
           /\ held' = IF byLevel THEN HeldFor(now) ELSE held
           /\ armed' = IF ~byLevel THEN armed ELSE (now = 1 \/ (armed /\ ~fire))
           /\ bouncing' = IF bouncing > 0 THEN bouncing - 1 ELSE 0
           /\ down' = Count(down)
           /\ UNCHANGED <<finger, quiet>>

\* One round of RotaryEncoder.poll or PhysicalButtons.poll.
Poll ==
    /\ PollKey
    /\ \/ device = "encoder" /\ Decode
       \/ device # "encoder" /\ UNCHANGED knobVars
    /\ UNCHANGED <<device, steps, offset>>

\* A finger stays until the contact is at rest and a poll has seen where.
MoveFinger ==
    /\ bouncing = 0 /\ level = Rest
    /\ finger' = ~finger
    /\ bouncing' = Bounce
    /\ down' = 0
    /\ IF finger THEN UNCHANGED <<quiet, fires>>
       ELSE quiet' = (fired >= Debounce) /\ fires' = 0
    /\ UNCHANGED <<device, steps, offset, knobVars, level, fired, held, armed>>

\* create_ui_input and open(): the first update of the decoder starts from 0, so a
\* knob that does not rest where both contacts are open leaves something behind.
InputInit ==
    /\ device \in {"encoder", "edge", "level"}
    /\ \E s \in StepsPerDetent : steps = IF s > 1 THEN s ELSE 1
    /\ knob \in 0..3 /\ skipped = knob /\ lastAb = Ab(knob)
    /\ device # "encoder" => knob = 0
    /\ acc = Left(Delta(0, Ab(knob)))
    /\ offset = acc
    /\ detents = 0
    /\ finger = FALSE /\ bouncing = 0 /\ level = 1 /\ fired = Long
    /\ held = -1 /\ armed = TRUE
    /\ down = Long /\ quiet = TRUE /\ fires = 0

InputNext == Turn \/ MoveFinger \/ Poll
InputSpec == InputInit /\ [][InputNext]_inputVars

-------------------------------------------------------------------------------
InputTypeOK ==
    /\ device \in {"encoder", "edge", "level"}
    /\ knob \in -MaxTurns..MaxTurns /\ lastAb \in 0..3
    /\ {acc, -acc} \subseteq -steps..steps
    /\ {finger, armed, quiet} \subseteq BOOLEAN
    /\ level \in {0, 1} /\ bouncing \in 0..Bounce
    /\ held \in -1..Long /\ {fired, down} \subseteq 0..Long

\* No phase is lost or counted twice: what has been handled as NEXT and PREVIOUS and
\* what is in the accumulator make up the phases the polls could see, whichever way
\* and how often the knob is turned back, and less than a detent is held back.
\* (encoder.py:60-75; a phase that is skipped is lost for good.)
DetentsAreCounted ==
    Seen => /\ steps * detents + acc = offset + knob - skipped
            /\ acc < steps /\ -acc < steps

\* One action for one press.  A press that lasts gives exactly one, if by edge the
\* last action was not just before; while the finger stays there is never a second;
\* and by level, with a press to be confirmed for longer than a contact bounces, its
\* release gives none either.  By edge a bouncing release may give one more.
\* (encoder.py:145-152, buttons.py:108-152)
OneActionPerPress ==
    /\ finger \/ device = "level" => fires <= 1
    /\ fires <= 2
    /\ finger /\ down >= Long - 1 /\ (device = "level" \/ quiet) => fires = 1

===============================================================================
