------------------------------ MODULE PanelProofs ------------------------------
(***************************************************************************)
(* Proofs about the buttons, for every set of thresholds, bounces, dark    *)
(* frames and fingers.                                                     *)
(***************************************************************************)
EXTENDS Panel, TLAPS

\* A time that is counted stops at its limit.
LEMMA LeastType ==
  ASSUME NEW n \in Nat, NEW limit \in Nat
  PROVE  Least(n, limit) \in 0 .. limit
BY DEF Least

\* The limits of the counted times.
LEMMA Limits ==
  /\ Settled \in Nat
  /\ Horizon \in Nat
  /\ \A b \in Buttons : Reads(b) \in Nat /\ HeldCap(b) \in 0 .. FactoryTime
<1>1. Settled \in Nat /\ Horizon \in Nat
  BY PanelConstants DEF Settled, Horizon
<1>2. ASSUME NEW b \in Buttons
      PROVE  Reads(b) \in Nat /\ HeldCap(b) \in 0 .. FactoryTime
  <2>1. b \in {Up, Down, Provision, Snooze}
    BY PanelConstants
  <2>2. {0, SnoozeLongTime, FactoryTime} \subseteq 0 .. FactoryTime
    BY PanelConstants
  <2>3. HeldCap(b) \in 0 .. FactoryTime
    BY <2>1, <2>2 DEF HeldCap
  <2>4. {FactoryTime, SnoozeLongTime + Bounce + 1, ComboTime} \subseteq Nat
    BY PanelConstants
  <2>5. Reads(b) \in Nat
    BY <2>1, <2>4 DEF Reads
  <2> QED
    BY <2>3, <2>5
<1> QED
  BY <1>1, <1>2

Btn == [raw : BOOLEAN, stable : BOOLEAN, age : 0 .. DebounceTime, held : 0 .. FactoryTime]

EventNames ==
  {"bright_up", "bright_down", "show_ip", "provision", "factory_reset",
   "snooze_short", "snooze_long", "alarm_toggle"}

\* The time of a press is measured up to the longest hold.
LEMMA HeldType ==
  ASSUME TypeOK, NEW b \in Buttons
  PROVE  Held(b) \in 0 .. FactoryTime
<1>1. s_btn[b].held + 1 \in Nat
  BY PanelConstants DEF TypeOK
<1>2. HeldCap(b) \in 0 .. FactoryTime /\ HeldCap(b) \in Nat
  BY Limits, PanelConstants
<1>3. Held(b) \in 0 .. HeldCap(b)
  BY <1>1, <1>2, LeastType DEF Held
<1> QED
  BY <1>2, <1>3, PanelConstants

\* A button that has been ticked is a button.
LEMMA TickedType ==
  ASSUME TypeOK, NEW b \in Buttons, NEW raw \in BOOLEAN
  PROVE  Ticked(b, raw) \in Btn
<1> DEFINE btn == s_btn[b]
<1>1. btn \in Btn
  BY DEF TypeOK, Btn
<1>2. btn.age + 1 \in Nat /\ btn.held + 1 \in Nat /\ DebounceTime \in Nat
  BY <1>1, PanelConstants DEF Btn
<1>3. Age(b) \in 0 .. DebounceTime
  BY <1>2, LeastType DEF Age
<1>4. Held(b) \in 0 .. FactoryTime
  BY HeldType
<1>5. 0 \in 0 .. FactoryTime /\ 0 \in 0 .. DebounceTime
  BY PanelConstants
<1>6. HeldFrom(b, raw) \in 0 .. FactoryTime
  BY <1>4, <1>5 DEF HeldFrom
<1> QED
  BY <1>1, <1>3, <1>4, <1>5, <1>6 DEF Ticked, Btn

\* What a change of a button emits is an event.
LEMMA EventsType ==
  ASSUME NEW b \in Buttons, NEW raw \in BOOLEAN, Held(b) \in 0 .. FactoryTime
  PROVE  Events(b, raw) \subseteq EventNames
<1>1. b \in {Up, Down, Provision, Snooze}
  BY PanelConstants
<1>2. ProvisionTime \in Int /\ FactoryTime \in Int
  BY PanelConstants
<1>3. ProvisionEvent(Held(b)) \in EventNames
  <2> DEFINE held == Held(b)
  <2>1. held \in Int
    BY PanelConstants
  <2> HIDE DEF held
  <2>2. \/ held >= FactoryTime
        \/ held >= ProvisionTime /\ held < FactoryTime
        \/ held < ProvisionTime
    BY <1>2, <2>1
  <2>3. ProvisionEvent(held) \in EventNames
    BY <2>2 DEF ProvisionEvent, EventNames
  <2> QED
    BY <2>3 DEF held
<1>4. SnoozeEvent(Held(b)) \in EventNames
  BY DEF SnoozeEvent, EventNames
<1>5. Event(b, raw) \subseteq EventNames
  BY <1>1, <1>3, <1>4 DEF Event, EventNames
<1> QED
  BY <1>5 DEF Events

-----------------------------------------------------------------------------

LEMMA InitType == Init => TypeOK
<1> SUFFICES ASSUME Init PROVE TypeOK
  OBVIOUS
<1>1. /\ 0 \in 0 .. DebounceTime /\ 0 \in 0 .. FactoryTime /\ 0 \in 0 .. Settled
      /\ Horizon \in 0 .. Horizon
  BY PanelConstants, Limits
<1>2. Released \in Btn
  BY <1>1 DEF Released, Btn
<1>3. s_btn \in [Buttons -> Btn]
  BY <1>2 DEF Init
<1>4. /\ finger \in [Buttons -> BOOLEAN]
      /\ since \in [Buttons -> 0 .. Horizon]
      /\ s_key_bits \in [Buttons -> BOOLEAN]
      /\ blind \in [Buttons -> BOOLEAN]
  BY <1>1 DEF Init
<1>5. /\ down \in [Buttons -> Nat] /\ \A b \in Buttons : down[b] <= Reads(b)
      /\ sampled \in [Buttons -> 0 .. Settled]
      /\ count \in [Buttons -> 0 .. 2]
  BY <1>1, Limits DEF Init
<1> QED
  BY <1>3, <1>4, <1>5 DEF Init, TypeOK, Btn

\* A finger moves.
LEMMA MoveType ==
  ASSUME TypeOK, NEW b \in Buttons, Move(b)
  PROVE  TypeOK'
<1>1. 0 \in 0 .. Horizon /\ 0 \in 0 .. Settled /\ 0 \in 0 .. FactoryTime
  BY PanelConstants, Limits
<1>2. finger' \in [Buttons -> BOOLEAN] /\ since' \in [Buttons -> 0 .. Horizon]
  BY <1>1 DEF Move, TypeOK
<1>3. sampled' \in [Buttons -> 0 .. Settled] /\ toggled' \in BOOLEAN
  BY <1>1 DEF Move, TypeOK
<1>4. /\ down' \in [Buttons -> Nat] /\ \A c \in Buttons : down'[c] <= Reads(c)
      /\ blind' \in [Buttons -> BOOLEAN]
      /\ count' \in [Buttons -> 0 .. 2]
  <2>1. CASE finger[b]
    BY <2>1 DEF Move, TypeOK
  <2>2. CASE ~finger[b]
    <3> DEFINE late == s_btn[b].raw \/ s_btn[b].stable
    <3>1. late \in BOOLEAN
      OBVIOUS
    <3>2. blind' = [blind EXCEPT ![b] = late]
      BY <2>2, Zenon DEF Move
    <3> HIDE DEF late
    <3>3. blind' \in [Buttons -> BOOLEAN]
      BY <3>1, <3>2 DEF TypeOK
    <3>4. down' \in [Buttons -> Nat] /\ count' \in [Buttons -> 0 .. 2]
      BY <2>2, <1>1 DEF Move, TypeOK
    <3>5. \A c \in Buttons : down'[c] <= Reads(c)
      BY <2>2, Limits DEF Move, TypeOK
    <3> QED
      BY <3>3, <3>4, <3>5
  <2> QED
    BY <2>1, <2>2
<1> QED
  BY <1>2, <1>3, <1>4 DEF Move, TypeOK

\* A clock that restarts begins with no button pressed.
LEMMA RestartsType ==
  ASSUME TypeOK, NEW raw \in [Buttons -> BOOLEAN], Restarts(raw), Passes
  PROVE  /\ s_key_bits' \in [Buttons -> BOOLEAN]
         /\ s_btn' \in [Buttons -> Btn]
         /\ s_combo' \in 0 .. ComboTime \cup {None} /\ s_combo_fired' \in BOOLEAN
         /\ emitted' \subseteq EventNames
         /\ sampled' \in [Buttons -> 0 .. Settled]
         /\ blind' \in [Buttons -> BOOLEAN]
         /\ count' \in [Buttons -> 0 .. 2] /\ toggled' \in BOOLEAN
<1>1. 0 \in 0 .. DebounceTime /\ 0 \in 0 .. FactoryTime /\ 0 \in 0 .. Settled
  BY PanelConstants, Limits
<1>2. Released \in Btn
  BY <1>1 DEF Released, Btn
<1>3. emitted' \subseteq EventNames
  <2>1. \A b \in Buttons : Events(b, raw[b]) \subseteq EventNames
    BY HeldType, EventsType
  <2> QED
    BY <2>1, Zenon DEF Restarts
<1>4. s_btn' \in [Buttons -> Btn] /\ s_key_bits' \in [Buttons -> BOOLEAN]
  BY <1>2 DEF Restarts
<1>5. sampled' \in [Buttons -> 0 .. Settled] /\ count' \in [Buttons -> 0 .. 2]
  BY <1>1 DEF Restarts
<1>6. blind' \in [Buttons -> BOOLEAN]
  BY DEF Restarts
<1> QED
  BY <1>3, <1>4, <1>5, <1>6 DEF Restarts

\* A turn after which the clock goes on.
LEMMA GoesOnType ==
  ASSUME TypeOK, NEW raw \in [Buttons -> BOOLEAN], GoesOn(raw), Passes
  PROVE  /\ s_key_bits' \in [Buttons -> BOOLEAN]
         /\ s_btn' \in [Buttons -> Btn]
         /\ s_combo' \in 0 .. ComboTime \cup {None} /\ s_combo_fired' \in BOOLEAN
         /\ emitted' \subseteq EventNames
         /\ sampled' \in [Buttons -> 0 .. Settled]
         /\ blind' \in [Buttons -> BOOLEAN]
         /\ count' \in [Buttons -> 0 .. 2] /\ toggled' \in BOOLEAN
<1>1. s_btn' \in [Buttons -> Btn]
  BY TickedType DEF GoesOn
<1>2. Toggles(s_btn') \in BOOLEAN /\ Both(s_btn') \in BOOLEAN
  BY DEF Toggles, Both
<1>3. emitted' \subseteq EventNames
  <2>1. \A b \in Buttons : Events(b, raw[b]) \subseteq EventNames
    BY HeldType, EventsType
  <2>2. SinglesOf(raw) \subseteq EventNames
    BY <2>1, Zenon DEF SinglesOf
  <2> QED
    BY <2>2 DEF GoesOn, EventNames
<1>4. s_combo' \in 0 .. ComboTime \cup {None}
  <2>1. ComboTime \in Nat
    BY PanelConstants
  <2>2. ComboHeld \in 0 .. ComboTime
    <3>1. CASE s_combo = None
      BY <2>1, <3>1 DEF ComboHeld
    <3>2. CASE s_combo # None
      <4>1. s_combo + 1 \in Nat
        BY <2>1, <3>2 DEF TypeOK
      <4> QED
        BY <2>1, <3>2, <4>1, LeastType DEF ComboHeld
    <3> QED
      BY <3>1, <3>2
  <2> QED
    BY <2>2 DEF GoesOn
<1>5. s_combo_fired' \in BOOLEAN /\ toggled' \in BOOLEAN
  BY <1>2 DEF GoesOn, TypeOK
<1>6. sampled' \in [Buttons -> 0 .. Settled]
  <2>1. \A b \in Buttons : Least(sampled[b] + 1, Settled) \in 0 .. Settled
    <3> TAKE b \in Buttons
    <3>1. sampled[b] + 1 \in Nat
      BY Limits DEF TypeOK
    <3> QED
      BY <3>1, Limits, LeastType
  <2>2. 0 \in 0 .. Settled
    BY Limits
  <2> QED
    BY <2>1, <2>2 DEF GoesOn
<1>7. count' \in [Buttons -> 0 .. 2]
  <2> DEFINE counted(b) ==
        CASE Rests(b) -> 0
          [] ~Rests(b) /\ Events(b, raw[b]) = {} -> count[b]
          [] Events(b, raw[b]) # {} -> Least(count[b] + 1, 2)
  <2>1. \A b \in Buttons : counted(b) \in 0 .. 2
    <3> TAKE b \in Buttons
    <3>1. count[b] \in 0 .. 2
      BY DEF TypeOK
    <3>2. Least(count[b] + 1, 2) \in 0 .. 2
      <4>1. count[b] + 1 \in Nat /\ 2 \in Nat
        BY <3>1
      <4> QED
        BY <4>1, LeastType
    <3>3. CASE Rests(b) /\ Events(b, raw[b]) # {}
      <4>1. counted(b) = 0 \/ counted(b) = Least(count[b] + 1, 2)
        BY <3>3
      <4> QED
        BY <3>2, <4>1
    <3>4. CASE Rests(b) /\ Events(b, raw[b]) = {}
      BY <3>4
    <3>5. CASE ~Rests(b)
      BY <3>1, <3>2, <3>5
    <3> QED
      BY <3>3, <3>4, <3>5
  <2>2. count' = [b \in Buttons |-> counted(b)]
    BY DEF GoesOn
  <2> QED
    BY <2>1, <2>2
<1>8. blind' \in [Buttons -> BOOLEAN]
  BY DEF GoesOn, Unseen
<1> QED
  BY <1>1, <1>3, <1>4, <1>5, <1>6, <1>7, <1>8 DEF GoesOn

\* What the turn's time does to the fingers.
LEMMA PassesType ==
  ASSUME TypeOK, Passes
  PROVE  /\ finger' \in [Buttons -> BOOLEAN]
         /\ since' \in [Buttons -> 0 .. Horizon]
         /\ dark' \in DarkSets
         /\ down' \in [Buttons -> Nat] /\ \A b \in Buttons : down'[b] <= Reads(b)
<1>1. since' \in [Buttons -> 0 .. Horizon]
  <2>1. \A b \in Buttons : Least(since[b] + 1, Horizon) \in 0 .. Horizon
    <3> TAKE b \in Buttons
    <3>1. since[b] + 1 \in Nat
      BY Limits DEF TypeOK
    <3> QED
      BY <3>1, Limits, LeastType
  <2> QED
    BY <2>1 DEF Passes
<1>2. down' \in [Buttons -> Nat] /\ \A b \in Buttons : down'[b] <= Reads(b)
  <2> DEFINE lasted(b) ==
        CASE finger[b] -> Least(down[b] + 1, Reads(b))
          [] ~finger[b] /\ ~Rests(b) -> down[b]
          [] Rests(b) -> 0
  <2>1. \A b \in Buttons : lasted(b) \in 0 .. Reads(b) /\ Reads(b) \in Nat
    <3> TAKE b \in Buttons
    <3>1. /\ Reads(b) \in Nat /\ down[b] \in 0 .. Reads(b) /\ down[b] + 1 \in Nat
          /\ 0 \in 0 .. Reads(b)
      BY Limits DEF TypeOK
    <3>2. Least(down[b] + 1, Reads(b)) \in 0 .. Reads(b)
      BY <3>1, LeastType
    <3>3. CASE finger[b]
      <4>1. ~Rests(b)
        BY <3>3 DEF Rests
      <4> QED
        BY <3>1, <3>2, <3>3, <4>1
    <3>4. CASE ~finger[b]
      BY <3>1, <3>4
    <3> QED
      BY <3>3, <3>4
  <2>2. down' = [b \in Buttons |-> lasted(b)]
    BY DEF Passes
  <2> HIDE DEF lasted
  <2> QED
    BY <2>1, <2>2
<1> QED
  BY <1>1, <1>2 DEF Passes, TypeOK

LEMMA TickType ==
  ASSUME TypeOK, Tick
  PROVE  TypeOK'
<1>1. PICK contact \in Contacts :
        Restarts(Samples(contact)) \/ GoesOn(Samples(contact))
  BY DEF Tick
<1>2. Samples(contact) \in [Buttons -> BOOLEAN]
  BY DEF Samples, Sample, Contacts, TypeOK
<1>3. Passes
  BY DEF Tick
<1> HIDE DEF Btn
<1>4. /\ s_key_bits' \in [Buttons -> BOOLEAN]
      /\ s_btn' \in [Buttons -> Btn]
      /\ s_combo' \in 0 .. ComboTime \cup {None} /\ s_combo_fired' \in BOOLEAN
      /\ emitted' \subseteq EventNames
      /\ sampled' \in [Buttons -> 0 .. Settled]
      /\ blind' \in [Buttons -> BOOLEAN]
      /\ count' \in [Buttons -> 0 .. 2] /\ toggled' \in BOOLEAN
  <2>1. CASE Restarts(Samples(contact))
    BY <1>2, <1>3, <2>1, RestartsType
  <2>2. CASE GoesOn(Samples(contact))
    BY <1>2, <1>3, <2>2, GoesOnType
  <2> QED
    BY <1>1, <2>1, <2>2
<1> QED
  BY <1>3, <1>4, PassesType DEF TypeOK, Btn, EventNames

-----------------------------------------------------------------------------

\* Every measured time stays within what it is compared with, and every event is
\* one of buttons.h, whatever the thresholds, the bounces and the dark frames.
THEOREM TypeCorrect == Spec => []TypeOK
<1>1. TypeOK /\ [Next]_vars => TypeOK'
  <2> SUFFICES ASSUME TypeOK, [Next]_vars PROVE TypeOK'
    OBVIOUS
  <2>1. CASE Tick
    BY <2>1, TickType
  <2>2. ASSUME NEW b \in Buttons, Move(b) PROVE TypeOK'
    BY <2>2, MoveType
  <2>3. CASE UNCHANGED vars
    BY <2>3 DEF vars, TypeOK
  <2> QED
    BY <2>1, <2>2, <2>3 DEF Next
<1> QED
  BY <1>1, InitType, PTL DEF Spec

-----------------------------------------------------------------------------
(* One button in one step.                                                 *)

\* What a button knows, of a value.
RawIs(b, x) == s_btn[b].raw <=> x
StableIs(b, x) == s_btn[b].stable <=> x

\* A sample: a button of a lit tube tells what the finger does once the bounce is over,
\* and one at rest tells nothing.
SampleIs(b, s) ==
  /\ s \in BOOLEAN
  /\ b \notin dark /\ since[b] >= Bounce => (s <=> finger[b])
  /\ Rests(b) => ~s

\* The sample has been the same for the window, and is not the button's state.
Due(b, s) ==
  /\ RawIs(b, s)
  /\ StableIs(b, ~s)
  /\ s_btn[b].age + 1 >= DebounceTime

\* The three things a turn may do to a button whose sample is s: note an edge, take the
\* sample for the button's state, or count.
Flips(b, s) ==
  /\ ~Commits(b, s)
  /\ RawIs(b, ~s)
  /\ StableIs(b, s_btn'[b].stable)
  /\ s_btn'[b].age = 0
  /\ s_btn'[b].held = Held(b)
Takes(b, s) ==
  /\ Commits(b, s)
  /\ Due(b, s)
  /\ s_btn'[b].stable <=> s
  /\ s_btn'[b].age = Age(b)
  /\ s_btn'[b].held = HeldFrom(b, s)
Counts(b, s) ==
  /\ ~Commits(b, s)
  /\ RawIs(b, s)
  /\ StableIs(b, s) \/ s_btn[b].age + 1 < DebounceTime
  /\ StableIs(b, s_btn'[b].stable)
  /\ s_btn'[b].age = Age(b)
  /\ s_btn'[b].held = Held(b)

\* A button whose sample is s in a turn after which the clock goes on.
Turns(b, s) ==
  /\ SampleIs(b, s)
  /\ finger'[b] <=> finger[b]
  /\ since'[b] = Least(since[b] + 1, Horizon)
  /\ s_btn'[b].raw <=> s
  /\ Flips(b, s) \/ Takes(b, s) \/ Counts(b, s)
  /\ blind'[b] <=> Unseen(b)
  /\ finger[b] => down'[b] = Least(down[b] + 1, Reads(b))
  /\ ~finger[b] /\ ~Rests(b) => down'[b] = down[b]
  /\ sampled'[b] = IF b \in dark THEN 0 ELSE Least(sampled[b] + 1, Settled)
  /\ Rests(b) => count'[b] = 0 \/ Takes(b, s)
  /\ ~Rests(b) => count'[b] = IF Events(b, s) = {} THEN count[b]
                                                   ELSE Least(count[b] + 1, 2)

\* A button when the clock restarts.
Forgets(b) ==
  /\ finger'[b] <=> finger[b]
  /\ since'[b] = Least(since[b] + 1, Horizon)
  /\ ~s_btn'[b].raw /\ ~s_btn'[b].stable
  /\ s_btn'[b].age = 0 /\ s_btn'[b].held = 0
  /\ blind'[b] <=> finger[b] \/ Unseen(b)
  /\ ~finger[b] /\ ~Rests(b) => down'[b] = down[b]
  /\ sampled'[b] = 0
  /\ count'[b] = 0

\* A button whose finger moves.
Moves(b) ==
  /\ since[b] >= MinDwell
  /\ finger'[b] <=> ~finger[b]
  /\ since'[b] = 0
  /\ sampled'[b] = 0
  /\ s_btn'[b] = s_btn[b]
  /\ finger[b] => /\ down'[b] = down[b]
                  /\ blind'[b] <=> blind[b]
                  /\ count'[b] = count[b]
  /\ ~finger[b] => /\ down'[b] = 0
                   /\ blind'[b] <=> s_btn[b].raw \/ s_btn[b].stable
                   /\ count'[b] = 0

\* A button that nothing happens to.
Stays(b) ==
  /\ finger'[b] <=> finger[b]
  /\ since'[b] = since[b]
  /\ sampled'[b] = sampled[b]
  /\ s_btn'[b] = s_btn[b]
  /\ down'[b] = down[b]
  /\ blind'[b] <=> blind[b]
  /\ count'[b] = count[b]

\* The types of one button, and the lengths the times are compared with.
ButtonType(b) ==
  /\ finger[b] \in BOOLEAN /\ blind[b] \in BOOLEAN
  /\ s_btn[b].raw \in BOOLEAN /\ s_btn[b].stable \in BOOLEAN
  /\ since[b] \in 0 .. Horizon
  /\ s_btn[b].age \in 0 .. DebounceTime
  /\ s_btn[b].held \in Nat
  /\ down[b] \in 0 .. Reads(b)
  /\ sampled[b] \in 0 .. Settled
  /\ count[b] \in 0 .. 2

LEMMA ButtonTypes ==
  ASSUME TypeOK, NEW b \in Buttons
  PROVE  ButtonType(b)
<1>1. s_btn[b] \in [raw : BOOLEAN, stable : BOOLEAN, age : 0 .. DebounceTime,
                    held : 0 .. FactoryTime]
  BY DEF TypeOK
<1>2. /\ s_btn[b].raw \in BOOLEAN /\ s_btn[b].stable \in BOOLEAN
      /\ s_btn[b].age \in 0 .. DebounceTime
      /\ s_btn[b].held \in Nat
  BY <1>1, PanelConstants
<1>3. /\ finger[b] \in BOOLEAN /\ blind[b] \in BOOLEAN
      /\ since[b] \in 0 .. Horizon
      /\ sampled[b] \in 0 .. Settled
      /\ count[b] \in 0 .. 2
  BY DEF TypeOK
<1>4. down[b] \in 0 .. Reads(b)
  BY Limits DEF TypeOK
<1> QED
  BY <1>2, <1>3, <1>4 DEF ButtonType

LEMMA Lengths ==
  /\ Bounce \in Nat /\ DebounceTime \in Nat /\ DebounceTime > 0 /\ MinDwell \in Nat
  /\ Bounce <= DebounceTime
  /\ Settled = Bounce + DebounceTime + 1
  /\ Horizon \in Nat /\ Horizon >= Settled /\ MinDwell >= Settled
BY PanelConstants, Debounced DEF Settled, Horizon

LEMMA CommitsDue ==
  ASSUME TypeOK, NEW b \in Buttons, NEW s \in BOOLEAN
  PROVE  /\ Age(b) >= DebounceTime <=> s_btn[b].age + 1 >= DebounceTime
         /\ Commits(b, s) => Due(b, s)
<1>1. ButtonType(b)
  BY ButtonTypes
<1>2. Age(b) >= DebounceTime <=> s_btn[b].age + 1 >= DebounceTime
  BY <1>1, Lengths DEF ButtonType, Age, Least
<1> QED
  BY <1>1, <1>2 DEF Commits, Due, Edge, RawIs, StableIs, ButtonType

\* What buttons_tick makes of a sample.
LEMMA TickedIs ==
  ASSUME TypeOK, NEW b \in Buttons, NEW s \in BOOLEAN, s_btn'[b] = Ticked(b, s)
  PROVE  /\ s_btn'[b].raw <=> s
         /\ Flips(b, s) \/ Takes(b, s) \/ Counts(b, s)
<1> DEFINE btn == s_btn[b]
<1>1. btn \in Btn
  BY DEF TypeOK, Btn
<1>2. /\ btn.raw \in BOOLEAN /\ btn.stable \in BOOLEAN /\ btn.age \in Nat
      /\ DebounceTime \in Nat
  BY <1>1, PanelConstants DEF Btn
<1>3. Age(b) >= DebounceTime <=> btn.age + 1 >= DebounceTime
  BY CommitsDue
<1>4. CASE Edge(b, s)
  <2>1. s_btn'[b] = [btn EXCEPT !.raw = s, !.age = 0, !.held = Held(b)]
    BY <1>4 DEF Ticked
  <2>2. /\ s_btn'[b].raw = s /\ s_btn'[b].stable = btn.stable
        /\ s_btn'[b].age = 0 /\ s_btn'[b].held = Held(b)
    BY <2>1, <1>1 DEF Btn
  <2>3. RawIs(b, ~s)
    BY <1>2, <1>4 DEF Edge, RawIs
  <2>4. ~Commits(b, s)
    BY <1>4 DEF Commits
  <2> QED
    BY <2>2, <2>3, <2>4 DEF Flips, StableIs
<1>5. CASE Commits(b, s)
  <2>1. ~Edge(b, s) /\ Age(b) >= DebounceTime /\ s # btn.stable
    BY <1>5 DEF Commits
  <2>2. s_btn'[b] = [raw |-> s, stable |-> s, age |-> Age(b), held |-> HeldFrom(b, s)]
    BY <1>5, <2>1 DEF Ticked
  <2>3. /\ s_btn'[b].raw = s /\ s_btn'[b].stable = s
        /\ s_btn'[b].age = Age(b) /\ s_btn'[b].held = HeldFrom(b, s)
    BY <2>2
  <2> QED
    BY <1>5, <2>3, CommitsDue DEF Takes
<1>6. CASE ~Edge(b, s) /\ ~Commits(b, s)
  <2>1. s_btn'[b] = [btn EXCEPT !.age = Age(b), !.held = Held(b)]
    BY <1>6 DEF Ticked
  <2>2. /\ s_btn'[b].raw = btn.raw /\ s_btn'[b].stable = btn.stable
        /\ s_btn'[b].age = Age(b) /\ s_btn'[b].held = Held(b)
    BY <2>1, <1>1 DEF Btn
  <2>3. RawIs(b, s) /\ s = btn.raw
    BY <1>2, <1>6 DEF Edge, RawIs
  <2>4. StableIs(b, s) \/ btn.age + 1 < DebounceTime
    <3>1. CASE s = btn.stable
      BY <3>1 DEF StableIs
    <3>2. CASE s # btn.stable
      <4>1. ~(btn.age + 1 >= DebounceTime)
        BY <1>3, <1>6, <3>2 DEF Commits
      <4> QED
        BY <4>1, <1>2
    <3> QED
      BY <3>1, <3>2
  <2> QED
    BY <1>6, <2>2, <2>3, <2>4 DEF Counts, StableIs
<1> QED
  BY <1>4, <1>5, <1>6

LEMMA SampleOf ==
  ASSUME TypeOK, NEW contact \in Contacts, NEW b \in Buttons
  PROVE  SampleIs(b, Sample(b, contact))
<1>1. contact[b] \in BOOLEAN /\ (since[b] >= Bounce => contact[b] = finger[b])
  BY DEF Contacts
<1>2. Sample(b, contact) \in BOOLEAN
  BY <1>1 DEF Sample, TypeOK
<1>3. b \notin dark /\ since[b] >= Bounce => (Sample(b, contact) <=> finger[b])
  BY <1>1 DEF Sample
<1>4. Rests(b) => ~Sample(b, contact)
  BY <1>1, Lengths DEF Sample, Rests
<1> QED
  BY <1>2, <1>3, <1>4 DEF SampleIs

\* A turn after which the clock goes on.
LEMMA GoesOnTurns ==
  ASSUME TypeOK, NEW contact \in Contacts, GoesOn(Samples(contact)), Passes,
         NEW b \in Buttons
  PROVE  Turns(b, Sample(b, contact))
<1> DEFINE s == Sample(b, contact)
<1>1. SampleIs(b, s)
  BY SampleOf
<1>2. s \in BOOLEAN
  BY <1>1 DEF SampleIs
<1>3. Samples(contact)[b] = s
  BY DEF Samples
<1> HIDE DEF s
<1>4. s_btn'[b] = Ticked(b, s)
  BY <1>3 DEF GoesOn
<1>5. /\ s_btn'[b].raw <=> s
      /\ Flips(b, s) \/ Takes(b, s) \/ Counts(b, s)
  BY <1>2, <1>4, TickedIs
<1>6. /\ finger'[b] <=> finger[b]
      /\ since'[b] = Least(since[b] + 1, Horizon)
  BY DEF Passes
<1>7. /\ finger[b] => down'[b] = Least(down[b] + 1, Reads(b))
      /\ ~finger[b] /\ ~Rests(b) => down'[b] = down[b]
  <2>1. down'[b] = CASE finger[b] -> Least(down[b] + 1, Reads(b))
                     [] ~finger[b] /\ ~Rests(b) -> down[b]
                     [] Rests(b) -> 0
    BY DEF Passes
  <2>2. Rests(b) => ~finger[b]
    BY DEF Rests
  <2> QED
    BY <2>1, <2>2
<1>8. blind'[b] <=> Unseen(b)
  BY DEF GoesOn
<1>9. sampled'[b] = IF b \in dark THEN 0 ELSE Least(sampled[b] + 1, Settled)
  BY DEF GoesOn
<1>10. /\ Rests(b) => count'[b] = 0 \/ Takes(b, s)
       /\ ~Rests(b) => count'[b] = IF Events(b, s) = {} THEN count[b]
                                                        ELSE Least(count[b] + 1, 2)
  <2>1. count'[b] = CASE Rests(b) -> 0
                      [] ~Rests(b) /\ Events(b, s) = {} -> count[b]
                      [] Events(b, s) # {} -> Least(count[b] + 1, 2)
    BY <1>3 DEF GoesOn
  <2>2. Events(b, s) # {} => Takes(b, s)
    BY <1>5 DEF Events, Flips, Counts
  <2> QED
    BY <2>1, <2>2
<1>11. Turns(b, s)
  BY <1>1, <1>5, <1>6, <1>7, <1>8, <1>9, <1>10 DEF Turns
<1> QED
  BY <1>11 DEF s

\* ... and a turn after which it restarts.
LEMMA RestartForgets ==
  ASSUME TypeOK, NEW raw \in [Buttons -> BOOLEAN], Restarts(raw), Passes, NEW b \in Buttons
  PROVE  Forgets(b)
<1>1. s_btn'[b] = Released
  BY DEF Restarts
<1>2. /\ ~s_btn'[b].raw /\ ~s_btn'[b].stable
      /\ s_btn'[b].age = 0 /\ s_btn'[b].held = 0
  BY <1>1 DEF Released
<1>3. /\ finger'[b] <=> finger[b]
      /\ since'[b] = Least(since[b] + 1, Horizon)
  BY DEF Passes
<1>4. ~finger[b] /\ ~Rests(b) => down'[b] = down[b]
  <2>1. down'[b] = CASE finger[b] -> Least(down[b] + 1, Reads(b))
                     [] ~finger[b] /\ ~Rests(b) -> down[b]
                     [] Rests(b) -> 0
    BY DEF Passes
  <2> QED
    BY <2>1
<1>5. /\ blind'[b] <=> finger[b] \/ Unseen(b)
      /\ sampled'[b] = 0
      /\ count'[b] = 0
  BY DEF Restarts
<1> QED
  BY <1>2, <1>3, <1>4, <1>5 DEF Forgets

LEMMA MoveMoves ==
  ASSUME TypeOK, NEW c \in Buttons, Move(c), NEW b \in Buttons
  PROVE  IF b = c THEN Moves(b) ELSE Stays(b)
<1>1. ButtonType(b)
  BY ButtonTypes
<1>2. s_btn'[b] = s_btn[b]
  BY DEF Move
<1>3. /\ finger' = [finger EXCEPT ![c] = ~@]
      /\ since' = [since EXCEPT ![c] = 0]
      /\ sampled' = [sampled EXCEPT ![c] = 0]
      /\ since[c] >= MinDwell
  BY DEF Move
<1>4. CASE finger[c]
  <2>1. down' = down /\ blind' = blind /\ count' = count
    BY <1>4 DEF Move
  <2> QED
    BY <1>2, <1>3, <1>4, <2>1 DEF Moves, Stays, TypeOK
<1>5. CASE ~finger[c]
  <2> DEFINE late == s_btn[c].raw \/ s_btn[c].stable
  <2>1. /\ down' = [down EXCEPT ![c] = 0]
        /\ blind' = [blind EXCEPT ![c] = late]
        /\ count' = [count EXCEPT ![c] = 0]
    BY <1>5, Zenon DEF Move
  <2>2. blind'[b] <=> IF b = c THEN late ELSE blind[b]
    <3> HIDE DEF late
    <3> QED
      BY <2>1 DEF TypeOK
  <2>3. down'[b] = (IF b = c THEN 0 ELSE down[b]) /\ count'[b] = IF b = c THEN 0 ELSE count[b]
    BY <2>1 DEF TypeOK
  <2> QED
    BY <1>2, <1>3, <1>5, <2>2, <2>3 DEF Moves, Stays, TypeOK
<1> QED
  BY <1>4, <1>5

-----------------------------------------------------------------------------
(* The samples settle on the finger, and then the button does.             *)

Followed(b) ==
  /\ sampled[b] <= since[b]
  /\ sampled[b] > Bounce =>
       /\ RawIs(b, finger[b])
       /\ s_btn[b].age >= sampled[b] - Bounce - 1
  /\ sampled[b] = Settled => StableIs(b, finger[b])

LEMMA FollowedTurn ==
  ASSUME NEW b \in Buttons, ButtonType(b), NEW s, Turns(b, s), Followed(b)
  PROVE  Followed(b)'
<1>1. CASE b \in dark
  BY <1>1, Lengths DEF Turns, Followed, ButtonType, Least
<1>2. CASE b \notin dark
  <2>1. sampled'[b] = Least(sampled[b] + 1, Settled) /\ sampled'[b] <= since'[b]
    BY <1>2, Lengths DEF Turns, Followed, ButtonType, Least
  <2>2. sampled'[b] > Bounce => (s <=> finger[b])
    BY <1>2, <2>1, Lengths DEF Turns, SampleIs, Followed, ButtonType, Least
  <2>3. sampled'[b] > Bounce => s_btn'[b].age >= sampled'[b] - Bounce - 1
    BY <2>1, <2>2, Lengths
       DEF Turns, Followed, ButtonType, Least, Flips, Takes, Counts, RawIs, Age
  <2>4. sampled'[b] = Settled => (s_btn'[b].stable <=> finger[b])
    BY <2>1, <2>2, Lengths
       DEF Turns, Followed, ButtonType, Least, Flips, Takes, Counts, RawIs, StableIs
  <2> QED
    BY <2>1, <2>2, <2>3, <2>4 DEF Turns, Followed, RawIs, StableIs
<1> QED
  BY <1>1, <1>2

LEMMA FollowedElse ==
  ASSUME NEW b \in Buttons, ButtonType(b), Followed(b), Forgets(b) \/ Moves(b) \/ Stays(b)
  PROVE  Followed(b)'
<1>1. CASE Forgets(b)
  BY <1>1, Lengths DEF Forgets, Followed, ButtonType, Least
<1>2. CASE Moves(b)
  BY <1>2, Lengths DEF Moves, Followed, ButtonType
<1>3. CASE Stays(b)
  BY <1>3 DEF Stays, Followed, RawIs, StableIs
<1> QED
  BY <1>1, <1>2, <1>3

-----------------------------------------------------------------------------
(* A press that every turn was seen of.                                    *)

\* Turns since the finger left the button.
Left(b) == IF finger[b] THEN 0 ELSE since[b]

\* The button is behind the finger for as long as the bounce and the window last.
Tracked(b) ==
  /\ RawIs(b, ~finger[b]) => since[b] <= Bounce
  /\ StableIs(b, ~finger[b]) =>
       /\ since[b] < Settled
       /\ since[b] > Bounce => s_btn[b].age >= since[b] - Bounce - 1
       /\ RawIs(b, finger[b]) => s_btn[b].age < since[b]
  /\ StableIs(b, finger[b]) /\ RawIs(b, ~finger[b]) => s_btn[b].age < since[b]

\* What is measured of a press is what it has lasted, but for the bounce.
Measured(b) ==
  /\ finger[b] /\ StableIs(b, FALSE) => down[b] = Least(since[b], Reads(b))
  /\ StableIs(b, TRUE) =>
       /\ s_btn[b].held >= Least(down[b] + Left(b) - Settled, HeldCap(b))
       /\ down[b] < Reads(b) => s_btn[b].held + DebounceTime < down[b] + Left(b)

\* The event of a brightness button comes with the press, any other with the release.
Counted(b) ==
  /\ count[b] <= 1
  /\ b \in {Up, Down} /\ finger[b] /\ StableIs(b, FALSE) => count[b] = 0
  /\ b \notin {Up, Down} /\ (finger[b] \/ StableIs(b, TRUE)) => count[b] = 0

Seen(b) == ~blind[b] => Tracked(b) /\ Measured(b) /\ Counted(b)

\* A button whose tube is lit takes no sample but the finger's for its state: a
\* bounce is over before the window is.
LEMMA TakesTheFinger ==
  ASSUME NEW b \in Buttons, ButtonType(b), Tracked(b), b \notin dark,
         NEW s, SampleIs(b, s), Due(b, s)
  PROVE  /\ s <=> finger[b]
         /\ since[b] >= DebounceTime /\ since[b] <= Bounce + DebounceTime
         /\ StableIs(b, ~finger[b])
<1>1. CASE s <=> finger[b]
  BY <1>1, Lengths DEF Due, Tracked, SampleIs, RawIs, StableIs, ButtonType
<1>2. CASE ~(s <=> finger[b])
  <2>1. since[b] < Bounce
    BY <1>2, Lengths DEF SampleIs, ButtonType
  <2>2. s_btn[b].age < since[b]
    BY <1>2 DEF Due, Tracked, SampleIs, RawIs, StableIs, ButtonType
  <2> QED
    BY <2>1, <2>2, Lengths DEF Due, ButtonType
<1> QED
  BY <1>1, <1>2

\* A button at rest stays released.
LEMMA RestsOn ==
  ASSUME NEW b \in Buttons, ButtonType(b), NEW s, Turns(b, s), Rests(b)
  PROVE  /\ ~finger'[b] /\ ~s_btn'[b].raw /\ ~s_btn'[b].stable
         /\ ~Takes(b, s)
         /\ count'[b] = 0
<1>1. ~s /\ ~s_btn[b].stable /\ ~s_btn[b].raw /\ ~finger[b]
  BY DEF Turns, SampleIs, Rests
<1>2. ~Takes(b, s)
  BY <1>1 DEF Takes, Due, StableIs, ButtonType
<1> QED
  BY <1>1, <1>2 DEF Turns, Flips, Counts, StableIs, ButtonType

LEMMA TrackedTurn ==
  ASSUME NEW b \in Buttons, ButtonType(b), Tracked(b), b \notin dark,
         NEW s, Turns(b, s)
  PROVE  Tracked(b)'
<1>1. ~(s <=> finger[b]) => since[b] < Bounce
  BY Lengths DEF Turns, SampleIs, ButtonType
<1>2. CASE Flips(b, s)
  <2>1. since[b] <= Bounce
    BY <1>1, <1>2, Lengths DEF Flips, RawIs, Tracked, ButtonType, Turns
  <2>2. since'[b] = since[b] + 1
    BY <2>1, Lengths DEF Turns, ButtonType, Least
  <2> QED
    BY <1>1, <1>2, <2>1, <2>2, Lengths
       DEF Flips, RawIs, StableIs, Tracked, ButtonType, Turns
<1>3. CASE Takes(b, s)
  <2>1. s <=> finger[b]
    BY <1>3, TakesTheFinger DEF Turns, Takes
  <2> QED
    BY <1>3, <2>1 DEF Takes, Turns, Tracked, RawIs, StableIs, ButtonType
<1>4. CASE Counts(b, s)
  <2>1. CASE s <=> finger[b]
    <3>1. CASE StableIs(b, finger[b])
      BY <1>4, <2>1, <3>1 DEF Counts, Turns, Tracked, RawIs, StableIs, ButtonType
    <3>2. CASE StableIs(b, ~finger[b])
      <4>1. s_btn[b].age + 1 < DebounceTime
        BY <1>4, <2>1, <3>2 DEF Counts, StableIs, ButtonType, Turns
      <4>2. s_btn'[b].age = s_btn[b].age + 1
        BY <1>4, <4>1, Lengths DEF Counts, Age, Least, ButtonType
      <4>3. since[b] + 1 < Settled /\ since'[b] = since[b] + 1
        BY <3>2, <4>1, Lengths DEF Tracked, ButtonType, Turns, Least
      <4>4. RawIs(b, finger[b])
        BY <1>4, <2>1 DEF Counts, RawIs
      <4>5. s_btn[b].age < since[b]
        BY <3>2, <4>4 DEF Tracked
      <4>6. since[b] > Bounce => s_btn[b].age >= since[b] - Bounce - 1
        BY <3>2 DEF Tracked
      <4>7. since'[b] > Bounce => s_btn'[b].age >= since'[b] - Bounce - 1
        BY <4>2, <4>3, <4>6, Lengths DEF ButtonType
      <4> QED
        BY <2>1, <4>2, <4>3, <4>5, <4>7, Lengths
           DEF Counts, Turns, Tracked, RawIs, StableIs, ButtonType
    <3> QED
      BY <3>1, <3>2 DEF StableIs, ButtonType
  <2>2. CASE ~(s <=> finger[b])
    <3>1. since[b] < Bounce /\ since'[b] = since[b] + 1
      BY <1>1, <2>2, Lengths DEF Turns, ButtonType, Least
    <3>2. s_btn'[b].age <= s_btn[b].age + 1
      BY <1>4, Lengths DEF Counts, Age, Least, ButtonType
    <3>3. RawIs(b, ~finger[b])
      BY <1>4, <2>2 DEF Counts, RawIs, Turns
    <3>4. StableIs(b, finger[b]) => s_btn[b].age < since[b]
      BY <3>3 DEF Tracked
    <3>5. s_btn'[b].raw <=> ~finger'[b]
      BY <2>2 DEF Turns
    <3>6. s_btn'[b].stable <=> s_btn[b].stable
      BY <1>4 DEF Counts, StableIs
    <3>7. finger'[b] <=> finger[b]
      BY DEF Turns
    <3>8. s_btn'[b].age \in Int
      BY <1>4, Lengths DEF Counts, Age, Least, ButtonType
    <3> QED
      BY <3>1, <3>2, <3>4, <3>5, <3>6, <3>7, <3>8, Lengths
         DEF Tracked, RawIs, StableIs, ButtonType
  <2> QED
    BY <2>1, <2>2
<1> QED
  BY <1>2, <1>3, <1>4 DEF Turns

LEMMA MeasuredTurn ==
  ASSUME NEW b \in Buttons, ButtonType(b), Tracked(b), Measured(b), b \notin dark,
         NEW s, Turns(b, s), Tracked(b)'
  PROVE  Measured(b)'
<1>1. Reads(b) \in Nat /\ HeldCap(b) \in Nat
  BY Limits, PanelConstants
<1>2. finger'[b] <=> finger[b]
  BY DEF Turns
<1>3. finger[b] => down'[b] = Least(down[b] + 1, Reads(b))
  BY DEF Turns
<1>4. StableIs(b, ~finger[b]) => since'[b] = since[b] + 1
  BY Lengths DEF Tracked, Turns, StableIs, Least, ButtonType
<1>5. ASSUME finger'[b], ~s_btn'[b].stable
      PROVE  down'[b] = Least(since'[b], Reads(b))
  <2>1. StableIs(b, FALSE)
    <3>1. CASE Takes(b, s)
      BY <1>2, <1>5, <3>1, TakesTheFinger DEF Turns, Takes, StableIs
    <3>2. CASE ~Takes(b, s)
      BY <1>5, <3>2 DEF Turns, Flips, Counts, StableIs
    <3> QED
      BY <3>1, <3>2
  <2>2. since'[b] = since[b] + 1
    BY <1>2, <1>4, <1>5, <2>1 DEF StableIs
  <2>3. down[b] = Least(since[b], Reads(b))
    BY <1>2, <1>5, <2>1 DEF Measured
  <2> QED
    BY <1>1, <1>2, <1>3, <1>5, <2>2, <2>3, Lengths DEF Least, ButtonType
<1>6. ASSUME s_btn'[b].stable
      PROVE  /\ s_btn'[b].held >= Least(down'[b] + Left(b)' - Settled, HeldCap(b))
             /\ down'[b] < Reads(b) => s_btn'[b].held + DebounceTime < down'[b] + Left(b)'
  <2>1. CASE Takes(b, s)
    <3>1. /\ finger[b] /\ since[b] >= DebounceTime /\ since[b] <= Bounce + DebounceTime
          /\ StableIs(b, FALSE)
      BY <1>6, <2>1, TakesTheFinger DEF Turns, Takes, StableIs
    <3>2. s_btn'[b].held = 0
      BY <1>6, <2>1 DEF Takes, HeldFrom
    <3>3. down[b] = Least(since[b], Reads(b))
      BY <3>1 DEF Measured
    <3>4. Left(b)' = 0
      BY <1>2, <3>1 DEF Left
    <3>5. down'[b] = Least(since[b] + 1, Reads(b))
      BY <1>1, <1>3, <3>1, <3>3, Lengths DEF Least, ButtonType
    <3> QED
      BY <1>1, <3>1, <3>2, <3>4, <3>5, Lengths DEF Least, ButtonType
  <2>2. CASE ~Takes(b, s)
    <3>1. StableIs(b, TRUE) /\ s_btn'[b].held = Held(b)
      BY <1>6, <2>2 DEF Turns, Flips, Counts, StableIs
    <3>2. /\ s_btn[b].held >= Least(down[b] + Left(b) - Settled, HeldCap(b))
          /\ down[b] < Reads(b) => s_btn[b].held + DebounceTime < down[b] + Left(b)
      BY <3>1 DEF Measured
    <3>3. s_btn'[b].held = Least(s_btn[b].held + 1, HeldCap(b))
      BY <3>1 DEF Held
    <3>4. CASE finger[b]
      <4>1. Left(b) = 0 /\ Left(b)' = 0
        BY <1>2, <3>4 DEF Left
      <4> QED
        BY <1>1, <1>3, <3>2, <3>3, <3>4, <4>1, Lengths DEF Least, ButtonType
    <3>5. CASE ~finger[b]
      <4>1. Left(b) = since[b] /\ Left(b)' = since[b] + 1
        BY <1>2, <1>4, <3>1, <3>5 DEF Left, StableIs
      <4>2. down'[b] = down[b]
        BY <3>1, <3>5 DEF Turns, Rests, StableIs
      <4> QED
        BY <1>1, <3>2, <3>3, <4>1, <4>2, Lengths DEF Least, ButtonType
    <3> QED
      BY <3>4, <3>5
  <2> QED
    BY <2>1, <2>2
<1> QED
  BY <1>5, <1>6 DEF Measured, StableIs

LEMMA CountedTurn ==
  ASSUME NEW b \in Buttons, ButtonType(b), Tracked(b), Counted(b), b \notin dark,
         NEW s, Turns(b, s), ~Rests(b)
  PROVE  Counted(b)'
<1>1. count'[b] = IF Events(b, s) = {} THEN count[b] ELSE Least(count[b] + 1, 2)
  BY DEF Turns
<1>2. CASE Takes(b, s)
  <2>1. (s <=> finger[b]) /\ (s <=> s_btn'[b].stable) /\ (finger'[b] <=> finger[b])
    BY <1>2, TakesTheFinger DEF Turns, Takes
  <2>2. StableIs(b, ~finger[b])
    BY <1>2, TakesTheFinger DEF Turns, Takes
  <2>3. CASE b \in {Up, Down}
    <3>1. CASE s
      <4>1. count[b] = 0
        BY <2>1, <2>2, <2>3, <3>1 DEF Counted, StableIs
      <4>2. count'[b] \in {0, 1}
        BY <1>1, <4>1 DEF Least
      <4> QED
        BY <2>1, <2>3, <3>1, <4>2 DEF Counted, StableIs
    <3>2. CASE ~s
      <4>1. Events(b, s) = {}
        <5>1. Event(b, s) = {}
          <6>1. b # Provision /\ b # Snooze
            BY <2>3, PanelConstants
          <6> QED
            BY <2>3, <3>2, <6>1 DEF Event
        <5> QED
          BY <5>1 DEF Events
      <4> QED
        BY <1>1, <2>1, <2>3, <3>2, <4>1 DEF Counted, StableIs, Turns
    <3> QED
      BY <3>1, <3>2
  <2>4. CASE b \notin {Up, Down}
    <3>1. b \in {Provision, Snooze}
      BY <2>4, PanelConstants
    <3>2. CASE s
      <4>1. Events(b, s) = {}
        <5>1. Event(b, s) = {}
          BY <2>4, <3>1, <3>2, PanelConstants DEF Event
        <5> QED
          BY <5>1 DEF Events
      <4> QED
        BY <1>1, <2>1, <2>4, <3>2, <4>1 DEF Counted, StableIs
    <3>3. CASE ~s
      <4>1. count[b] = 0
        BY <2>1, <2>2, <2>4, <3>3 DEF Counted, StableIs
      <4>2. count'[b] \in {0, 1}
        BY <1>1, <4>1 DEF Least
      <4> QED
        BY <2>1, <2>4, <3>3, <4>2 DEF Counted, StableIs
    <3> QED
      BY <3>2, <3>3
  <2> QED
    BY <2>3, <2>4
<1>3. CASE ~Takes(b, s)
  <2>1. Events(b, s) = {} /\ StableIs(b, s_btn'[b].stable) /\ (finger'[b] <=> finger[b])
    BY <1>3 DEF Turns, Flips, Counts, Events
  <2>2. count'[b] = count[b]
    BY <1>1, <2>1
  <2> QED
    BY <2>1, <2>2 DEF Counted, StableIs
<1> QED
  BY <1>2, <1>3

LEMMA SeenTurn ==
  ASSUME NEW b \in Buttons, ButtonType(b), Seen(b), NEW s, Turns(b, s)
  PROVE  Seen(b)'
<1> SUFFICES ASSUME ~blind'[b]
             PROVE  Tracked(b)' /\ Measured(b)' /\ Counted(b)'
  BY DEF Seen
<1>1. CASE Rests(b)
  BY <1>1, RestsOn DEF Tracked, Measured, Counted, RawIs, StableIs
<1>2. CASE ~Rests(b)
  <2>1. ~blind[b] /\ b \notin dark
    BY <1>2 DEF Turns, Unseen
  <2> QED
    BY <1>2, <2>1, TrackedTurn, MeasuredTurn, CountedTurn DEF Seen
<1> QED
  BY <1>1, <1>2

LEMMA SeenElse ==
  ASSUME NEW b \in Buttons, ButtonType(b), Seen(b), Forgets(b) \/ Moves(b) \/ Stays(b)
  PROVE  Seen(b)'
<1> SUFFICES ASSUME ~blind'[b]
             PROVE  Tracked(b)' /\ Measured(b)' /\ Counted(b)'
  BY DEF Seen
<1>0. Reads(b) \in Nat /\ HeldCap(b) \in Nat
  BY Limits, PanelConstants
<1>1. CASE Forgets(b)
  BY <1>1 DEF Forgets, Tracked, Measured, Counted, RawIs, StableIs
<1>2. CASE Moves(b) /\ finger[b]
  <2>1. Tracked(b) /\ Measured(b) /\ Counted(b)
    BY <1>2 DEF Moves, Seen
  <2>2. since[b] >= Settled
    BY <1>2, Lengths DEF Moves, ButtonType
  <2>3. s_btn[b].raw /\ s_btn[b].stable
    BY <1>2, <2>1, <2>2, Lengths DEF Tracked, RawIs, StableIs, ButtonType
  <2>4. Tracked(b)'
    BY <1>2, <2>3, Lengths DEF Moves, Tracked, RawIs, StableIs
  <2>5. Left(b) = 0 /\ Left(b)' = 0
    BY <1>2 DEF Moves, Left
  <2>6. Measured(b)'
    BY <1>2, <2>1, <2>5 DEF Moves, Measured, StableIs
  <2>7. Counted(b)'
    BY <1>2, <2>1 DEF Moves, Counted, StableIs
  <2> QED
    BY <2>4, <2>6, <2>7
<1>3. CASE Moves(b) /\ ~finger[b]
  <2>1. /\ ~s_btn'[b].raw /\ ~s_btn'[b].stable
        /\ finger'[b] /\ since'[b] = 0 /\ down'[b] = 0 /\ count'[b] = 0
    BY <1>3 DEF Moves
  <2>2. Tracked(b)'
    BY <2>1, Lengths DEF Tracked, RawIs, StableIs
  <2>3. Measured(b)'
    BY <1>0, <2>1 DEF Measured, StableIs, Least
  <2> QED
    BY <2>1, <2>2, <2>3 DEF Counted
<1>4. CASE Stays(b)
  <2>1. Tracked(b) /\ Measured(b) /\ Counted(b)
    BY <1>4 DEF Stays, Seen
  <2>2. Left(b)' = Left(b)
    BY <1>4 DEF Stays, Left
  <2> QED
    BY <1>4, <2>1, <2>2 DEF Stays, Tracked, Measured, Counted, RawIs, StableIs
<1> QED
  BY <1>1, <1>2, <1>3, <1>4

\* Every step is one of the four to every button.
LEMMA StepOf ==
  ASSUME TypeOK, [Next]_vars, NEW b \in Buttons
  PROVE  (\E s : Turns(b, s)) \/ Forgets(b) \/ Moves(b) \/ Stays(b)
<1>1. CASE Tick
  <2>1. PICK contact \in Contacts :
          Restarts(Samples(contact)) \/ GoesOn(Samples(contact))
    BY <1>1 DEF Tick
  <2>2. Samples(contact) \in [Buttons -> BOOLEAN] /\ Passes
    BY <1>1 DEF Tick, Samples, Sample, Contacts, TypeOK
  <2>3. CASE Restarts(Samples(contact))
    BY <2>2, <2>3, RestartForgets
  <2>4. CASE GoesOn(Samples(contact))
    <3>1. Turns(b, Sample(b, contact))
      BY <2>2, <2>4, GoesOnTurns
    <3> QED
      BY <3>1
  <2> QED
    BY <2>1, <2>3, <2>4
<1>2. ASSUME NEW c \in Buttons, Move(c)
      PROVE  Moves(b) \/ Stays(b)
  BY <1>2, MoveMoves
<1>3. CASE UNCHANGED vars
  BY <1>3 DEF vars, Stays
<1> QED
  BY <1>1, <1>2, <1>3 DEF Next

-----------------------------------------------------------------------------
(* The inductive invariant.                                                *)

\* The combination lasts no longer than either button was held.
Combined ==
  /\ s_combo = None <=> ~Both(s_btn)
  /\ s_combo_fired => Both(s_btn)
  /\ s_combo # None =>
       \A b \in {Up, Down} : ~blind[b] /\ down[b] < Reads(b) =>
          s_combo + DebounceTime < down[b] + Left(b)

\* Once it has toggled, the flag stands or one of the buttons is released.
OnceToggled ==
  {Up, Down} \subseteq Buttons /\ toggled /\ ~blind[Up] /\ ~blind[Down] =>
    s_combo_fired \/ \E b \in {Up, Down} : ~finger[b] /\ StableIs(b, FALSE)

IInv ==
  /\ TypeOK
  /\ \A b \in Buttons : Followed(b) /\ Seen(b)
  /\ Combined
  /\ OnceToggled

LEMMA InitIInv == Init => IInv
<1> SUFFICES ASSUME Init PROVE IInv
  OBVIOUS
<1>1. TypeOK
  BY InitType
<1>2. ASSUME NEW b \in Buttons
      PROVE  /\ ~finger[b] /\ since[b] = Horizon
             /\ ~s_btn[b].raw /\ ~s_btn[b].stable
             /\ s_btn[b].age = 0 /\ s_btn[b].held = 0
             /\ sampled[b] = 0 /\ count[b] = 0
  BY DEF Init, Released
<1>3. \A b \in Buttons : Followed(b)
  BY <1>2, Lengths DEF Followed, RawIs, StableIs
<1>4. \A b \in Buttons : Seen(b)
  BY <1>2 DEF Seen, Tracked, Measured, Counted, RawIs, StableIs
<1>5. ~Both(s_btn)
  BY <1>2 DEF Both
<1>6. Combined /\ OnceToggled
  BY <1>5 DEF Init, Combined, OnceToggled
<1> QED
  BY <1>1, <1>3, <1>4, <1>6 DEF IInv

\* Of each button, its history included.
LEMMA ButtonsStep ==
  ASSUME TypeOK, \A b \in Buttons : Followed(b) /\ Seen(b), [Next]_vars
  PROVE  \A b \in Buttons : Followed(b)' /\ Seen(b)'
<1> TAKE b \in Buttons
<1>1. ButtonType(b) /\ Followed(b) /\ Seen(b)
  BY ButtonTypes
<1>2. CASE \E s : Turns(b, s)
  <2>1. PICK s : Turns(b, s)
    BY <1>2
  <2> QED
    BY <1>1, <2>1, FollowedTurn, SeenTurn
<1>3. CASE Forgets(b) \/ Moves(b) \/ Stays(b)
  BY <1>1, <1>3, FollowedElse, SeenElse
<1> QED
  BY <1>2, <1>3, StepOf

\* A button that is held after a turn of which every frame was seen was seen before,
\* and released by nothing but the finger.
LEMMA PressedSeen ==
  ASSUME NEW b \in Buttons, ButtonType(b), Seen(b), NEW s, Turns(b, s), ~blind'[b],
         s_btn'[b].stable
  PROVE  ~blind[b] /\ b \notin dark /\ ~Rests(b) /\ Tracked(b) /\ Measured(b)
<1>1. ~Rests(b)
  BY RestsOn
<1>2. ~blind[b] /\ b \notin dark
  BY <1>1 DEF Turns, Unseen
<1> QED
  BY <1>1, <1>2 DEF Seen

\* While it was held before too, the time it was held for goes on.
LEMMA PressedLonger ==
  ASSUME NEW b \in Buttons, ButtonType(b), NEW s, Turns(b, s),
         ~Rests(b), Tracked(b), s_btn[b].stable, down'[b] < Reads(b)
  PROVE  /\ down[b] < Reads(b)
         /\ down'[b] + Left(b)' = down[b] + Left(b) + 1
<1>1. Reads(b) \in Nat
  BY Limits
<1>2. CASE finger[b]
  BY <1>1, <1>2 DEF Turns, Left, Least, ButtonType
<1>3. CASE ~finger[b]
  <2>1. down'[b] = down[b]
    BY <1>3 DEF Turns
  <2>2. since[b] < Settled
    BY <1>3 DEF Tracked, StableIs
  <2>3. since'[b] = since[b] + 1
    BY <2>2, Lengths DEF Turns, Least, ButtonType
  <2> QED
    BY <1>1, <1>3, <2>1, <2>3 DEF Turns, Left, ButtonType
<1> QED
  BY <1>2, <1>3

LEMMA ComboHeldIs ==
  ASSUME TypeOK
  PROVE  /\ ComboHeld \in Nat
         /\ s_combo = None => ComboHeld = 0
         /\ s_combo # None => s_combo \in Nat /\ ComboHeld <= s_combo + 1
<1>1. ComboTime \in Nat
  BY PanelConstants
<1>2. s_combo # None => s_combo \in Nat
  BY <1>1 DEF TypeOK
<1> QED
  BY <1>1, <1>2 DEF ComboHeld, Least

\* The combination in a turn after which the clock goes on.
LEMMA CombinedTurn ==
  ASSUME IInv, NEW contact \in Contacts, GoesOn(Samples(contact)), Passes,
         \A b \in Buttons : Seen(b)'
  PROVE  Combined'
<1>1. TypeOK /\ (\A b \in Buttons : ButtonType(b) /\ Seen(b)) /\ Combined
  BY ButtonTypes DEF IInv
<1>2. \A b \in Buttons : Turns(b, Sample(b, contact))
  BY <1>1, GoesOnTurns
<1>3. /\ s_combo' = IF Both(s_btn') THEN ComboHeld ELSE None
      /\ s_combo_fired' => Both(s_btn')
  BY DEF GoesOn
<1>4. ComboHeld # None
  BY <1>1, ComboHeldIs DEF None
<1>5. ASSUME s_combo' # None, NEW b \in {Up, Down}, ~blind'[b], down'[b] < Reads(b)
      PROVE  s_combo' + DebounceTime < down'[b] + Left(b)'
  <2>1. Both(s_btn') /\ s_combo' = ComboHeld /\ b \in Buttons /\ s_btn'[b].stable
    BY <1>3, <1>5 DEF Both
  <2>2. Turns(b, Sample(b, contact)) /\ ButtonType(b) /\ Seen(b)
    BY <1>1, <1>2, <2>1
  <2>3. ~blind[b] /\ b \notin dark /\ ~Rests(b) /\ Tracked(b) /\ Measured(b)
    BY <1>5, <2>1, <2>2, PressedSeen
  <2>4. CASE s_combo = None
    <3>1. s_combo' = 0
      BY <1>1, <2>1, <2>4, ComboHeldIs
    <3>2. Measured(b)' /\ StableIs(b, TRUE)'
      BY <1>5, <2>1 DEF Seen, StableIs
    <3>3. s_btn'[b].held + DebounceTime < down'[b] + Left(b)'
      BY <1>5, <3>2 DEF Measured
    <3>4. /\ s_btn'[b].held \in Nat
          /\ down'[b] \in Nat /\ Left(b)' \in Nat
      <4>1. Held(b) \in Nat /\ Reads(b) \in Nat
        BY <2>1, <2>2, Limits, PanelConstants DEF Held, Least, ButtonType
      <4>2. s_btn'[b].held \in Nat
        BY <2>2, <4>1 DEF Turns, Flips, Takes, Counts, HeldFrom
      <4>3. down'[b] \in Nat
        BY <2>2, <2>3, <4>1 DEF Turns, Least, ButtonType
      <4>4. Left(b)' \in Nat
        BY <2>2, Lengths DEF Turns, Left, Least, ButtonType
      <4> QED
        BY <4>2, <4>3, <4>4
    <3> QED
      BY <3>1, <3>3, <3>4, Lengths
  <2>5. CASE s_combo # None
    <3>1. Both(s_btn)
      BY <1>1, <2>5 DEF Combined
    <3>2. s_btn[b].stable
      BY <1>5, <3>1 DEF Both
    <3>3. /\ down[b] < Reads(b)
          /\ down'[b] + Left(b)' = down[b] + Left(b) + 1
      BY <1>5, <2>1, <2>2, <2>3, <3>2, PressedLonger
    <3>4. s_combo + DebounceTime < down[b] + Left(b)
      BY <1>1, <1>5, <2>3, <2>5, <3>3 DEF Combined
    <3>5. s_combo \in Nat /\ ComboHeld \in Nat /\ ComboHeld <= s_combo + 1
      BY <1>1, <2>5, ComboHeldIs
    <3>6. down[b] \in Nat /\ Left(b) \in Nat
      BY <2>1, <2>2, Lengths, Limits DEF Left, ButtonType
    <3> QED
      BY <2>1, <3>3, <3>4, <3>5, <3>6, Lengths
  <2> QED
    BY <2>4, <2>5
<1> QED
  BY <1>3, <1>4, <1>5 DEF Combined

\* A button that the finger has left, and that has followed it, stays released, and one
\* that stops being taken for held is one that the finger has left.
LEMMA ReleasedTurn ==
  ASSUME NEW b \in Buttons, ButtonType(b), Seen(b), NEW s, Turns(b, s), ~blind'[b]
  PROVE  /\ ~finger[b] /\ StableIs(b, FALSE) => ~finger'[b] /\ ~s_btn'[b].stable
         /\ s_btn[b].stable /\ ~s_btn'[b].stable => ~finger'[b]
<1>1. CASE Rests(b)
  BY <1>1, RestsOn
<1>2. CASE ~Rests(b)
  <2>1. Tracked(b) /\ b \notin dark
    BY <1>2 DEF Turns, Unseen, Seen
  <2>2. CASE Takes(b, s)
    BY <2>1, <2>2, TakesTheFinger DEF Turns, Takes, StableIs
  <2>3. CASE ~Takes(b, s)
    BY <2>3 DEF Turns, Flips, Counts, StableIs
  <2> QED
    BY <2>2, <2>3
<1> QED
  BY <1>1, <1>2

LEMMA OnceToggledTurn ==
  ASSUME IInv, NEW contact \in Contacts, GoesOn(Samples(contact)), Passes
  PROVE  OnceToggled'
<1> SUFFICES ASSUME {Up, Down} \subseteq Buttons, toggled', ~blind'[Up], ~blind'[Down],
                    ~s_combo_fired'
             PROVE  \E b \in {Up, Down} : ~finger'[b] /\ StableIs(b, FALSE)'
  BY DEF OnceToggled
<1>1. \A b \in Buttons : /\ ButtonType(b) /\ Seen(b)
                         /\ Turns(b, Sample(b, contact))
  BY ButtonTypes, GoesOnTurns DEF IInv
<1>2. \A b \in {Up, Down} :
        /\ ~finger[b] /\ StableIs(b, FALSE) => ~finger'[b] /\ ~s_btn'[b].stable
        /\ s_btn[b].stable /\ ~s_btn'[b].stable => ~finger'[b]
  BY <1>1, ReleasedTurn
<1>3. /\ s_combo_fired' <=> Both(s_btn') /\ (s_combo_fired \/ Toggles(s_btn'))
      /\ toggled' <=> toggled \/ Toggles(s_btn')
      /\ Toggles(s_btn') => Both(s_btn')
  BY DEF GoesOn, Toggles
<1>4. CASE s_combo_fired
  <2>1. ~Both(s_btn') /\ Both(s_btn)
    BY <1>3, <1>4 DEF IInv, Combined
  <2>2. PICK b \in {Up, Down} : s_btn[b].stable /\ ~s_btn'[b].stable
    BY <2>1 DEF Both
  <2> QED
    BY <1>2, <2>2 DEF StableIs
<1>5. CASE ~s_combo_fired
  <2>1. toggled
    BY <1>3
  <2>2. CASE \E b \in {Up, Down} : Rests(b)
    <3>1. PICK b \in {Up, Down} : Rests(b)
      BY <2>2
    <3>2. ~finger'[b] /\ ~s_btn'[b].stable
      BY <1>1, <3>1, RestsOn
    <3> QED
      BY <3>2 DEF StableIs
  <2>3. CASE ~\E b \in {Up, Down} : Rests(b)
    <3>1. ~blind[Up] /\ ~blind[Down]
      BY <1>1, <2>3 DEF Turns, Unseen
    <3>2. PICK b \in {Up, Down} : ~finger[b] /\ StableIs(b, FALSE)
      BY <1>5, <2>1, <3>1 DEF IInv, OnceToggled
    <3> QED
      BY <1>2, <3>2 DEF StableIs
  <2> QED
    BY <2>2, <2>3
<1> QED
  BY <1>4, <1>5

\* ... and when a finger moves.
LEMMA CombinationMove ==
  ASSUME IInv, NEW c \in Buttons, Move(c)
  PROVE  Combined' /\ OnceToggled'
<1>1. \A b \in Buttons : ButtonType(b) /\ IF b = c THEN Moves(b) ELSE Stays(b)
  BY ButtonTypes, MoveMoves DEF IInv
<1>2. /\ s_btn' = s_btn /\ s_combo' = s_combo /\ s_combo_fired' = s_combo_fired
      /\ toggled' <=> toggled /\ c \notin {Up, Down}
  BY DEF Move
<1>3. Both(s_btn') <=> Both(s_btn)
  BY <1>2
<1>4. ASSUME s_combo # None, NEW b \in {Up, Down}, ~blind'[b], down'[b] < Reads(b)
      PROVE  s_combo + DebounceTime < down'[b] + Left(b)'
  <2>1. Both(s_btn) /\ b \in Buttons /\ s_btn[b].stable
    BY <1>4 DEF IInv, Combined, Both
  <2>2. CASE b = c
    <3>1. Moves(b)
      BY <1>1, <2>1, <2>2
    <3>2. finger[b]
      BY <1>4, <2>1, <3>1 DEF Moves
    <3>3. down'[b] = down[b] /\ ~blind[b] /\ Left(b) = 0 /\ Left(b)' = 0
      BY <1>4, <3>1, <3>2 DEF Moves, Left
    <3> QED
      BY <1>4, <3>3 DEF IInv, Combined
  <2>3. CASE b # c
    <3>1. Stays(b)
      BY <1>1, <2>1, <2>3
    <3>2. down'[b] = down[b] /\ ~blind[b] /\ Left(b)' = Left(b)
      BY <1>4, <3>1 DEF Stays, Left
    <3> QED
      BY <1>4, <3>2 DEF IInv, Combined
  <2> QED
    BY <2>2, <2>3
<1>5. Combined'
  BY <1>2, <1>3, <1>4 DEF IInv, Combined
<1>6. ASSUME {Up, Down} \subseteq Buttons, toggled', ~blind'[Up], ~blind'[Down]
      PROVE  s_combo_fired' \/ \E b \in {Up, Down} : ~finger'[b] /\ StableIs(b, FALSE)'
  <2>1. Stays(Up) /\ Stays(Down) /\ toggled
    BY <1>1, <1>2, <1>6
  <2> QED
    BY <1>2, <1>6, <2>1 DEF IInv, OnceToggled, Stays, StableIs
<1> QED
  BY <1>5, <1>6 DEF OnceToggled

LEMMA StepIInv == IInv /\ [Next]_vars => IInv'
<1> SUFFICES ASSUME IInv, [Next]_vars PROVE IInv'
  OBVIOUS
<1>1. TypeOK'
  <2>1. CASE Tick
    BY <2>1, TickType DEF IInv
  <2>2. ASSUME NEW b \in Buttons, Move(b) PROVE TypeOK'
    BY <2>2, MoveType DEF IInv
  <2>3. CASE UNCHANGED vars
    BY <2>3 DEF vars, IInv, TypeOK
  <2> QED
    BY <2>1, <2>2, <2>3 DEF Next
<1>2. \A b \in Buttons : Followed(b)' /\ Seen(b)'
  BY ButtonsStep DEF IInv
<1>3. Combined' /\ OnceToggled'
  <2>1. CASE Tick
    <3>1. PICK contact \in Contacts :
            Restarts(Samples(contact)) \/ GoesOn(Samples(contact))
      BY <2>1 DEF Tick
    <3>2. Passes
      BY <2>1 DEF Tick
    <3>3. CASE GoesOn(Samples(contact))
      BY <1>2, <3>2, <3>3, CombinedTurn, OnceToggledTurn
    <3>4. CASE Restarts(Samples(contact))
      <4>1. ~Both(s_btn')
        <5>1. \A b \in Buttons : s_btn'[b] = Released
          BY <3>4 DEF Restarts
        <5> QED
          BY <5>1 DEF Both, Released
      <4>2. s_combo' = None /\ ~s_combo_fired' /\ ~toggled'
        BY <3>4 DEF Restarts
      <4> QED
        BY <4>1, <4>2 DEF Combined, OnceToggled
    <3> QED
      BY <3>1, <3>3, <3>4
  <2>2. ASSUME NEW c \in Buttons, Move(c) PROVE Combined' /\ OnceToggled'
    BY <2>2, CombinationMove
  <2>3. CASE UNCHANGED vars
    BY <2>3 DEF vars, IInv, Combined, OnceToggled, Both, Left, StableIs
  <2> QED
    BY <2>1, <2>2, <2>3 DEF Next
<1> QED
  BY <1>1, <1>2, <1>3 DEF IInv

THEOREM Invariance == Spec => []IInv
BY InitIInv, StepIInv, PTL DEF Spec

\* Whatever the contacts do, and however long a tube was dark, a button that is sampled
\* for longer than a bounce and a window is taken for what the finger does.
THEOREM ButtonsSettle == Spec => []SampledIsStable
<1>1. IInv => SampledIsStable
  <2> SUFFICES ASSUME IInv, NEW b \in Buttons, sampled[b] >= Settled
               PROVE  s_btn[b].stable = finger[b]
    BY DEF SampledIsStable
  <2>1. ButtonType(b) /\ Followed(b)
    BY ButtonTypes DEF IInv
  <2>2. s_btn[b].stable <=> finger[b]
    BY <2>1, Lengths DEF ButtonType, Followed, StableIs
  <2>3. s_btn[b].stable \in BOOLEAN /\ finger[b] \in BOOLEAN
    BY <2>1 DEF ButtonType
  <2> QED
    BY <2>2, <2>3
<1> QED
  BY <1>1, Invariance, PTL

\* A press of which no turn went unseen makes one event.
THEOREM PressesCountOnce == Spec => []OneEventPerPress
<1>1. IInv => OneEventPerPress
  BY DEF IInv, OneEventPerPress, Seen, Counted
<1> QED
  BY <1>1, Invariance, PTL

-----------------------------------------------------------------------------
(* What the events claim.                                                  *)

\* What an event tells of the time that its button was held for.
LEMMA EventMeans ==
  ASSUME TypeOK, NEW b \in Buttons, NEW s \in BOOLEAN, NEW e \in Events(b, s)
  PROVE  /\ Commits(b, s)
         /\ e # "alarm_toggle"
         /\ e = "factory_reset" => b = Provision /\ ~s /\ Held(b) >= FactoryTime
         /\ e = "provision" => b = Provision /\ ~s /\ Held(b) >= ProvisionTime
         /\ e = "show_ip" => b = Provision /\ ~s /\ Held(b) < ProvisionTime
         /\ e = "snooze_long" => b = Snooze /\ ~s /\ Held(b) >= SnoozeLongTime
         /\ e = "snooze_short" => b = Snooze /\ ~s /\ Held(b) < SnoozeLongTime
<1>1. e \in Event(b, s) /\ Commits(b, s)
  BY DEF Events
<1>2. b \in {Up, Down, Provision, Snooze}
  BY PanelConstants
<1>3. CASE b \in {Up, Down}
  <2>1. b # Provision /\ b # Snooze
    BY <1>3, PanelConstants
  <2>2. e \in {"bright_up", "bright_down"}
    BY <1>1, <1>3, <2>1 DEF Event
  <2> QED
    BY <1>1, <2>2
<1>4. CASE b = Provision
  <2>1. e = ProvisionEvent(Held(b)) /\ ~s
    BY <1>1, <1>4, PanelConstants DEF Event
  <2> DEFINE held == Held(b)
  <2>2. held \in Int /\ ProvisionTime \in Int /\ FactoryTime \in Int
    BY HeldType, PanelConstants
  <2> HIDE DEF held
  <2>3. \/ held >= FactoryTime /\ ProvisionEvent(held) = "factory_reset"
        \/ held >= ProvisionTime /\ ProvisionEvent(held) = "provision"
        \/ held < ProvisionTime /\ ProvisionEvent(held) = "show_ip"
    <3>1. ProvisionTime <= FactoryTime
      BY PanelConstants
    <3>2. CASE held >= FactoryTime
      BY <2>2, <3>1, <3>2 DEF ProvisionEvent
    <3>3. CASE held < FactoryTime /\ held >= ProvisionTime
      BY <2>2, <3>1, <3>3 DEF ProvisionEvent
    <3>4. CASE held < ProvisionTime
      BY <2>2, <3>1, <3>4 DEF ProvisionEvent
    <3> QED
      BY <2>2, <3>2, <3>3, <3>4
  <2> QED
    BY <1>1, <1>4, <2>1, <2>3 DEF held
<1>5. CASE b = Snooze
  <2>1. e = SnoozeEvent(Held(b)) /\ ~s
    BY <1>1, <1>5, PanelConstants DEF Event
  <2> DEFINE held == Held(b)
  <2>2. held \in Int /\ SnoozeLongTime \in Int
    BY HeldType, PanelConstants
  <2> HIDE DEF held
  <2>3. \/ held >= SnoozeLongTime /\ SnoozeEvent(held) = "snooze_long"
        \/ held < SnoozeLongTime /\ SnoozeEvent(held) = "snooze_short"
    BY <2>2 DEF SnoozeEvent
  <2> QED
    BY <1>1, <1>5, <2>1, <2>3 DEF held
<1> QED
  BY <1>2, <1>3, <1>4, <1>5

\* When a release is noticed, the measured time is what the press lasted, but for the
\* bounce, as far as either is counted.
LEMMA HoldMeasured ==
  ASSUME TypeOK, NEW b \in Buttons, ButtonType(b), Seen(b), ~Unseen(b),
         NEW s, SampleIs(b, s), Commits(b, s), ~s
  PROVE  /\ ~finger[b] /\ ~Rests(b)
         /\ down[b] < Reads(b) => Held(b) <= down[b] + Bounce
         /\ Held(b) < HeldCap(b) => down[b] <= Held(b) + Bounce
<1>1. Due(b, s)
  BY CommitsDue DEF SampleIs
<1>2. ~Rests(b) /\ StableIs(b, TRUE)
  BY <1>1 DEF Due, StableIs, Rests
<1>3. Tracked(b) /\ Measured(b) /\ b \notin dark
  BY <1>2 DEF Unseen, Seen
<1>4. ~finger[b] /\ since[b] >= DebounceTime /\ since[b] <= Bounce + DebounceTime
  BY <1>1, <1>3, TakesTheFinger
<1>5. /\ s_btn[b].held >= Least(down[b] + since[b] - Settled, HeldCap(b))
      /\ down[b] < Reads(b) => s_btn[b].held + DebounceTime < down[b] + since[b]
  BY <1>2, <1>3, <1>4 DEF Measured, Left
<1>6. Reads(b) \in Nat /\ HeldCap(b) \in Nat
  BY Limits, PanelConstants
<1>7. down[b] < Reads(b) => Held(b) <= down[b] + Bounce
  BY <1>4, <1>5, <1>6, Lengths DEF Held, Least, ButtonType
<1>8. Held(b) < HeldCap(b) => down[b] <= Held(b) + Bounce
  BY <1>4, <1>5, <1>6, Lengths DEF Held, Least, ButtonType
<1> QED
  BY <1>2, <1>4, <1>7, <1>8

\* The event of a turn is the event of the button's sample, and the press has lasted
\* what it had lasted before the turn.
LEMMA HoldEvent ==
  ASSUME IInv, NEW contact \in Contacts, Passes, NEW b \in Buttons, ~Unseen(b),
         NEW e \in Events(b, Sample(b, contact)),
         ~Sample(b, contact)
  PROVE  /\ down'[b] = down[b]
         /\ down[b] < Reads(b) => Held(b) <= down[b] + Bounce
         /\ Held(b) < HeldCap(b) => down[b] <= Held(b) + Bounce
         /\ Held(b) \in Nat /\ down[b] \in Nat /\ down[b] <= Reads(b)
<1> DEFINE s == Sample(b, contact)
<1>1. TypeOK /\ ButtonType(b) /\ Seen(b) /\ SampleIs(b, s)
  BY ButtonTypes, SampleOf DEF IInv
<1>2. Commits(b, s)
  BY DEF Events
<1>3. /\ ~finger[b] /\ ~Rests(b)
      /\ down[b] < Reads(b) => Held(b) <= down[b] + Bounce
      /\ Held(b) < HeldCap(b) => down[b] <= Held(b) + Bounce
  BY <1>1, <1>2, HoldMeasured
<1>4. down'[b] = down[b]
  <2>1. down'[b] = CASE finger[b] -> Least(down[b] + 1, Reads(b))
                     [] ~finger[b] /\ ~Rests(b) -> down[b]
                     [] Rests(b) -> 0
    BY DEF Passes
  <2> QED
    BY <1>3, <2>1
<1>5. Held(b) \in Nat /\ down[b] \in Nat /\ down[b] <= Reads(b)
  BY <1>1, HeldType, Limits, PanelConstants DEF ButtonType
<1> QED
  BY <1>3, <1>4, <1>5

\* A hold event is of a turn in which its button committed, and the other events are not.
LEMMA EmittedIs ==
  ASSUME TypeOK, NEW contact \in Contacts, Passes,
         Restarts(Samples(contact)) \/ GoesOn(Samples(contact)),
         NEW e \in emitted', e # "alarm_toggle"
  PROVE  \E b \in Buttons : /\ e \in Events(b, Sample(b, contact))
                            /\ ~blind'[b] => ~Unseen(b)
<1>1. PICK b \in Buttons : e \in Events(b, Samples(contact)[b])
  <2>1. CASE Restarts(Samples(contact))
    BY <2>1, Zenon DEF Restarts
  <2>2. CASE GoesOn(Samples(contact))
    <3>1. e \in SinglesOf(Samples(contact))
      BY <2>2 DEF GoesOn
    <3> QED
      BY <3>1, Zenon DEF SinglesOf
  <2> QED
    BY <2>1, <2>2
<1>2. Samples(contact)[b] = Sample(b, contact)
  BY DEF Samples
<1>3. ~blind'[b] => ~Unseen(b)
  BY DEF Restarts, GoesOn
<1> QED
  BY <1>1, <1>2, <1>3

\* What a hold event claims is what the finger did, but for the bounce, whatever the
\* thresholds, as long as every turn of the press was seen.
THEOREM HoldsAreMeasured == Spec => []HoldsAreReal
<1>1. Init => HoldsAreReal
  BY DEF Init, HoldsAreReal
<1>2. IInv /\ HoldsAreReal /\ [Next]_vars => HoldsAreReal'
  <2> SUFFICES ASSUME IInv, HoldsAreReal, [Next]_vars PROVE HoldsAreReal'
    OBVIOUS
  <2>1. CASE Tick
    <3>1. PICK contact \in Contacts :
            Restarts(Samples(contact)) \/ GoesOn(Samples(contact))
      BY <2>1 DEF Tick
    <3>2. TypeOK /\ Passes
      BY <2>1 DEF IInv, Tick
    <3>3. /\ ProvisionTime \in Nat /\ FactoryTime \in Nat /\ SnoozeLongTime \in Nat
          /\ ProvisionTime <= FactoryTime /\ Bounce \in Nat
      BY PanelConstants
    <3>4. \A b \in Buttons : Sample(b, contact) \in BOOLEAN
      BY <3>2, SampleOf DEF SampleIs
    <3>5. ASSUME NEW e \in emitted', e \in {"factory_reset", "provision", "show_ip"},
                 Provision \in Buttons, ~blind'[Provision]
          PROVE  /\ e = "factory_reset" => down'[Provision] >= Shortest(FactoryTime)
                 /\ e = "provision" => down'[Provision] >= Shortest(ProvisionTime)
                 /\ e = "show_ip" => down'[Provision] <= Longest(ProvisionTime)
      <4>1. PICK b \in Buttons : /\ e \in Events(b, Sample(b, contact))
                                 /\ ~blind'[b] => ~Unseen(b)
        BY <3>1, <3>2, <3>5, EmittedIs
      <4>2. /\ b = Provision /\ ~Sample(b, contact)
            /\ e = "factory_reset" => Held(b) >= FactoryTime
            /\ e = "provision" => Held(b) >= ProvisionTime
            /\ e = "show_ip" => Held(b) < ProvisionTime
        BY <3>2, <3>4, <3>5, <4>1, EventMeans
      <4>3. /\ down'[b] = down[b]
            /\ down[b] < Reads(b) => Held(b) <= down[b] + Bounce
            /\ Held(b) < HeldCap(b) => down[b] <= Held(b) + Bounce
            /\ Held(b) \in Nat /\ down[b] \in Nat /\ down[b] <= Reads(b)
        BY <3>2, <3>5, <4>1, <4>2, HoldEvent
      <4>4. Reads(b) = FactoryTime /\ HeldCap(b) = FactoryTime
        BY <4>2, PanelConstants DEF Reads, HeldCap
      <4> QED
        BY <3>3, <4>2, <4>3, <4>4 DEF Shortest, Longest
    <3>6. ASSUME NEW e \in emitted', e \in {"snooze_long", "snooze_short"},
                 Snooze \in Buttons, ~blind'[Snooze]
          PROVE  /\ e = "snooze_long" => down'[Snooze] >= Shortest(SnoozeLongTime)
                 /\ e = "snooze_short" => down'[Snooze] <= Longest(SnoozeLongTime)
      <4>1. PICK b \in Buttons : /\ e \in Events(b, Sample(b, contact))
                                 /\ ~blind'[b] => ~Unseen(b)
        BY <3>1, <3>2, <3>6, EmittedIs
      <4>2. /\ b = Snooze /\ ~Sample(b, contact)
            /\ e = "snooze_long" => Held(b) >= SnoozeLongTime
            /\ e = "snooze_short" => Held(b) < SnoozeLongTime
        BY <3>2, <3>4, <3>6, <4>1, EventMeans
      <4>3. /\ down'[b] = down[b]
            /\ down[b] < Reads(b) => Held(b) <= down[b] + Bounce
            /\ Held(b) < HeldCap(b) => down[b] <= Held(b) + Bounce
            /\ Held(b) \in Nat /\ down[b] \in Nat /\ down[b] <= Reads(b)
        BY <3>2, <3>6, <4>1, <4>2, HoldEvent
      <4>4. Reads(b) = SnoozeLongTime + Bounce + 1 /\ HeldCap(b) = SnoozeLongTime
        BY <4>2, PanelConstants DEF Reads, HeldCap
      <4> QED
        BY <3>3, <4>2, <4>3, <4>4 DEF Shortest, Longest
    <3> QED
      BY <3>5, <3>6 DEF HoldsAreReal
  <2>2. ASSUME NEW b \in Buttons, Move(b) PROVE HoldsAreReal'
    <3>1. emitted' = {}
      BY <2>2 DEF Move
    <3> QED
      BY <3>1 DEF HoldsAreReal
  <2>3. CASE UNCHANGED vars
    BY <2>3 DEF vars, HoldsAreReal
  <2> QED
    BY <2>1, <2>2, <2>3 DEF Next
<1> QED
  BY <1>1, <1>2, Invariance, PTL DEF Spec

\* A turn toggles the alarm with both buttons held, seen and not at rest.
LEMMA ToggleIs ==
  ASSUME IInv, NEW contact \in Contacts, Passes,
         Restarts(Samples(contact)) \/ GoesOn(Samples(contact)),
         "alarm_toggle" \in emitted', ~blind'[Up], ~blind'[Down]
  PROVE  /\ GoesOn(Samples(contact)) /\ Both(s_btn') /\ Toggles(s_btn')
         /\ \A b \in {Up, Down} :
              /\ b \in Buttons /\ ButtonType(b) /\ Seen(b)
              /\ Turns(b, Sample(b, contact))
              /\ s_btn'[b].stable
              /\ ~blind[b] /\ b \notin dark /\ ~Rests(b) /\ Tracked(b)
<1>1. TypeOK
  BY DEF IInv
<1>2. ASSUME NEW b \in Buttons
      PROVE  "alarm_toggle" \notin Events(b, Samples(contact)[b])
  <2>1. Samples(contact)[b] \in BOOLEAN
    BY <1>1, SampleOf DEF SampleIs, Samples
  <2> QED
    BY <1>1, <2>1, EventMeans
<1>3. GoesOn(Samples(contact))
  <2>1. ASSUME Restarts(Samples(contact)) PROVE FALSE
    BY <1>2, <2>1, Zenon DEF Restarts
  <2> QED
    BY <2>1
<1>4. Toggles(s_btn') /\ Both(s_btn')
  <2>1. "alarm_toggle" \notin SinglesOf(Samples(contact))
    BY <1>2, Zenon DEF SinglesOf
  <2> QED
    BY <1>3, <2>1 DEF GoesOn, Toggles
<1>5. ASSUME NEW b \in {Up, Down}
      PROVE  /\ b \in Buttons /\ ButtonType(b) /\ Seen(b)
             /\ Turns(b, Sample(b, contact))
             /\ s_btn'[b].stable
             /\ ~blind[b] /\ b \notin dark /\ ~Rests(b) /\ Tracked(b)
  <2>1. b \in Buttons /\ s_btn'[b].stable /\ ~blind'[b]
    BY <1>4 DEF Both
  <2>2. ButtonType(b) /\ Seen(b) /\ Turns(b, Sample(b, contact))
    BY <1>1, <1>3, <2>1, ButtonTypes, GoesOnTurns DEF IInv
  <2> QED
    BY <2>1, <2>2, PressedSeen
<1> QED
  BY <1>3, <1>4, <1>5

\* The alarm is toggled by a hold of both buttons for the time of the combination, but
\* for the bounce of a finger that has just left.
THEOREM CombinationsAreHeld == Spec => []CombinationIsHeld
<1>1. Init => CombinationIsHeld
  BY DEF Init, CombinationIsHeld
<1>2. IInv /\ CombinationIsHeld /\ [Next]_vars /\ IInv' => CombinationIsHeld'
  <2> SUFFICES ASSUME IInv, CombinationIsHeld, [Next]_vars, IInv' PROVE CombinationIsHeld'
    OBVIOUS
  <2>1. CASE Tick
    <3> SUFFICES ASSUME "alarm_toggle" \in emitted', ~blind'[Up], ~blind'[Down],
                        NEW b \in {Up, Down}
                 PROVE  down'[b] >= Least(ComboTime, Shortest(ComboTime) + 1)
      BY DEF CombinationIsHeld
    <3>1. PICK contact \in Contacts :
            Restarts(Samples(contact)) \/ GoesOn(Samples(contact))
      BY <2>1 DEF Tick
    <3>2. /\ GoesOn(Samples(contact)) /\ Both(s_btn') /\ Toggles(s_btn')
          /\ b \in Buttons /\ ButtonType(b) /\ Seen(b)
          /\ Turns(b, Sample(b, contact)) /\ s_btn'[b].stable
          /\ ~blind[b] /\ b \notin dark /\ ~Rests(b) /\ Tracked(b)
      BY <2>1, <3>1, ToggleIs DEF Tick
    <3>3. ComboTime \in Nat /\ Reads(b) = ComboTime /\ Bounce \in Nat
      BY PanelConstants DEF Reads
    <3>4. ComboHeld >= ComboTime /\ s_combo' = ComboHeld
      BY <3>2 DEF Toggles, GoesOn
    <3>5. /\ TypeOK' /\ Combined' /\ ~blind'[b] /\ Tracked(b)'
          /\ s_combo' # None
      <4>1. s_combo' # None
        BY <3>2 DEF IInv, Combined
      <4>2. ~blind'[b]
        OBVIOUS
      <4>3. Seen(b)'
        BY <3>2 DEF IInv
      <4> QED
        BY <4>1, <4>2, <4>3 DEF IInv, Seen
    <3>6. down'[b] < Reads(b) => s_combo' + DebounceTime < down'[b] + Left(b)'
      BY <3>5 DEF Combined
    <3>7. Left(b)' < Settled
      <4>1. CASE finger'[b]
        BY <4>1, Lengths DEF Left
      <4>2. CASE ~finger'[b]
        BY <3>2, <3>5, <4>2 DEF Left, Tracked, StableIs
      <4> QED
        BY <4>1, <4>2
    <3>8. down'[b] \in Nat /\ Left(b)' \in Nat /\ ComboHeld \in Nat
      <4>1. since'[b] \in 0 .. Horizon /\ down'[b] \in Nat
        BY <3>2, <3>5 DEF TypeOK
      <4>2. Left(b)' \in Nat
        BY <4>1, Lengths DEF Left
      <4>3. ComboHeld \in Nat
        BY ComboHeldIs DEF IInv
      <4> QED
        BY <4>1, <4>2, <4>3
    <3> QED
      BY <3>3, <3>4, <3>6, <3>7, <3>8, Lengths DEF Least, Shortest
  <2>2. ASSUME NEW b \in Buttons, Move(b) PROVE CombinationIsHeld'
    <3>1. emitted' = {}
      BY <2>2 DEF Move
    <3> QED
      BY <3>1 DEF CombinationIsHeld
  <2>3. CASE UNCHANGED vars
    BY <2>3 DEF vars, CombinationIsHeld
  <2> QED
    BY <2>1, <2>2, <2>3 DEF Next
<1> QED
  BY <1>1, <1>2, Invariance, PTL DEF Spec

\* A hold of both buttons toggles the alarm once, for as long as the tubes are lit.
THEOREM ToggledOnce == Spec => TogglesOncePerHold
<1>1. IInv /\ [Next]_vars =>
        [toggled /\ toggled' /\ ~blind'[Up] /\ ~blind'[Down] =>
           "alarm_toggle" \notin emitted']_vars
  <2> SUFFICES ASSUME IInv, Next, toggled, ~blind'[Up], ~blind'[Down],
                      "alarm_toggle" \in emitted'
               PROVE  FALSE
    OBVIOUS
  <2>1. ASSUME NEW b \in Buttons, Move(b) PROVE FALSE
    BY <2>1 DEF Move
  <2>2. CASE Tick
    <3>1. PICK contact \in Contacts :
            Restarts(Samples(contact)) \/ GoesOn(Samples(contact))
      BY <2>2 DEF Tick
    <3>2. /\ Both(s_btn') /\ Toggles(s_btn')
          /\ \A b \in {Up, Down} :
               /\ b \in Buttons /\ ButtonType(b) /\ Seen(b)
               /\ Turns(b, Sample(b, contact))
               /\ s_btn'[b].stable
               /\ ~blind[b]
      BY <2>2, <3>1, ToggleIs DEF Tick
    <3>3. ~s_combo_fired
      BY <3>2 DEF Toggles
    <3>4. PICK b \in {Up, Down} : ~finger[b] /\ StableIs(b, FALSE)
      BY <3>2, <3>3 DEF IInv, OnceToggled
    <3>5. ~s_btn'[b].stable
      BY <3>2, <3>4, ReleasedTurn
    <3> QED
      BY <3>2, <3>5
  <2> QED
    BY <2>1, <2>2 DEF Next
<1> QED
  BY <1>1, Invariance, PTL DEF Spec, TogglesOncePerHold

=============================================================================
