--------------------------------- MODULE Panel ---------------------------------
(***************************************************************************)
(* The buttons.  Those of the tubes share the KEY line: the refresh        *)
(* interrupt of the driver (components/nixie) samples a button while its   *)
(* tube is selected, and leaves its last sample while the tube is dark.    *)
(* Once per turn of the main loop buttons_tick debounces the samples and   *)
(* classifies presses and holds, and main's on_button acts on them.        *)
(*                                                                         *)
(* Time is counted in turns of the main loop, each of which is longer than *)
(* a refresh of all the tubes.  A contact bounces: for Bounce turns after  *)
(* the finger moved a sample may say anything.                             *)
(***************************************************************************)
EXTENDS Integers, FiniteSets

CONSTANTS
  Up, Down, Provision,  \* buttons of tubes
  Snooze,               \* the button with a line of its own
  Buttons,              \* the buttons in use, any of the four
  DarkSets,             \* the sets of buttons whose tubes a frame may leave dark
  DebounceTime, ProvisionTime, FactoryTime, SnoozeLongTime, ComboTime,
  Bounce,
  MinDwell,             \* bound: a finger stays for at least this long
  Fingers               \* bound: buttons pressed at a time

ASSUME PanelConstants ==
  /\ Up # Down /\ Provision # Snooze
  /\ {Up, Down} \cap {Provision, Snooze} = {}
  /\ Buttons \subseteq {Up, Down, Provision, Snooze}
  /\ DarkSets \subseteq SUBSET (Buttons \ {Snooze})
  /\ DarkSets # {}
  /\ DebounceTime \in Nat \ {0}
  /\ SnoozeLongTime \in 0 .. FactoryTime
  /\ ComboTime \in 0 .. FactoryTime
  /\ ProvisionTime \in 0 .. FactoryTime
  /\ FactoryTime \in Nat
  /\ Bounce \in Nat
  /\ MinDwell \in Nat
  /\ Fingers \in Nat

\* The window is meant to outlast a bounce, and a finger to stay until both are over.
ASSUME Debounced ==
  /\ Bounce <= DebounceTime
  /\ MinDwell > Bounce + DebounceTime

VARIABLES
  finger,       \* per button: pressed
  since,        \* per button: turns since the finger moved, up to Settled
  dark,         \* the buttons not sampled while the present frame is shown
  s_key_bits,   \* per button: the last sample (of Snooze: the line itself)
  s_btn,        \* per button: raw, stable, and the turns since their changes
  s_combo,      \* turns since both brightness buttons are pressed, or None
  s_combo_fired,
  emitted,      \* history: the events of the last turn
  down,         \* history: how long the last press has lasted, up to Reads
  sampled,      \* history: turns since the finger moved, while none was missed
  blind,        \* history: a turn since the last press, or the release before, went unseen:
                \* its tube was dark, or the clock restarted while it was pressed
  count,        \* history: events of the button since the last press, up to 2
  toggled       \* history: the alarm was toggled since a finger moved on + or -

vars == <<finger, since, dark, s_key_bits, s_btn, s_combo, s_combo_fired,
          emitted, down, sampled, blind, count, toggled>>

None == -1
Least(a, b) == IF a < b THEN a ELSE b
\* long enough for the bounce, an edge and the debounce window
Settled == Bounce + DebounceTime + 1
Horizon == IF Settled < MinDwell THEN MinDwell ELSE Settled

\* the longest hold of a button that the code asks about, and that a property does
HeldCap(b) ==
  CASE b = Provision   -> FactoryTime
    [] b = Snooze      -> SnoozeLongTime
    [] b \in {Up, Down} -> 0
Reads(b) ==
  CASE b = Provision   -> FactoryTime
    [] b = Snooze      -> SnoozeLongTime + Bounce + 1
    [] b \in {Up, Down} -> ComboTime

Released == [raw |-> FALSE, stable |-> FALSE, age |-> 0, held |-> 0]

Init ==
  /\ finger = [b \in Buttons |-> FALSE]
  /\ since = [b \in Buttons |-> Horizon]
  /\ dark \in DarkSets
  /\ s_key_bits = [b \in Buttons |-> FALSE]
  /\ s_btn = [b \in Buttons |-> Released]
  /\ s_combo = None
  /\ s_combo_fired = FALSE
  /\ emitted = {}
  /\ down = [b \in Buttons |-> 0]
  /\ sampled = [b \in Buttons |-> 0]
  /\ blind = [b \in Buttons |-> FALSE]
  /\ count = [b \in Buttons |-> 0]
  /\ toggled = FALSE

-----------------------------------------------------------------------------
(* Fingers. *)

Move(b) ==
  /\ since[b] >= MinDwell
  /\ finger[b] \/ Cardinality({c \in Buttons : finger[c] \/ since[c] < Horizon}) < Fingers
  /\ finger' = [finger EXCEPT ![b] = ~@]
  /\ since' = [since EXCEPT ![b] = 0]
  /\ sampled' = [sampled EXCEPT ![b] = 0]
  /\ toggled' = (toggled /\ b \notin {Up, Down})
  /\ IF finger[b]
     THEN UNCHANGED <<down, blind, count>>
     ELSE /\ down' = [down EXCEPT ![b] = 0]
          /\ blind' = [blind EXCEPT ![b] = s_btn[b].raw \/ s_btn[b].stable]
          /\ count' = [count EXCEPT ![b] = 0]
  /\ emitted' = {}
  /\ UNCHANGED <<dark, s_key_bits, s_btn, s_combo, s_combo_fired>>

-----------------------------------------------------------------------------
(* The interrupt: what the samples of a turn may be. *)

Sample(b, contact) == IF b \in dark THEN s_key_bits[b] ELSE contact[b]

Contacts ==
  {contact \in [Buttons -> BOOLEAN] :
     \A b \in Buttons : since[b] >= Bounce => contact[b] = finger[b]}

-----------------------------------------------------------------------------
(* buttons_tick: each button, and then the combination. *)

\* the age of raw, and the same with the window begun again by every sample
AgeRestarted(b) == 0
Age(b) == Least(s_btn[b].age + 1, DebounceTime)
Held(b) == Least(s_btn[b].held + 1, HeldCap(b))

Edge(b, raw) == raw # s_btn[b].raw

Commits(b, raw) ==
  /\ ~Edge(b, raw)
  /\ Age(b) >= DebounceTime
  /\ raw # s_btn[b].stable

\* the hold of a press begins at the press, and the same with press_ms never set
HeldOn(b, raw) == Held(b)
HeldFrom(b, raw) == IF raw THEN 0 ELSE Held(b)

Ticked(b, raw) ==
  IF Edge(b, raw)
  THEN [s_btn[b] EXCEPT !.raw = raw, !.age = 0, !.held = Held(b)]
  ELSE IF Commits(b, raw)
       THEN [raw |-> raw, stable |-> raw, age |-> Age(b), held |-> HeldFrom(b, raw)]
       ELSE [s_btn[b] EXCEPT !.age = Age(b), !.held = Held(b)]

ProvisionEvent(held) ==
  CASE held >= FactoryTime -> "factory_reset"
    [] held >= ProvisionTime /\ held < FactoryTime -> "provision"
    [] held < ProvisionTime -> "show_ip"

SnoozeEvent(held) == IF held >= SnoozeLongTime THEN "snooze_long" ELSE "snooze_short"

\* what a change of a button emits, and the same of either edge
EventOfEither(b, raw) ==
  CASE b = Up        -> {"bright_up"}
    [] b = Down      -> {"bright_down"}
    [] b = Provision -> {ProvisionEvent(Held(b))}
    [] b = Snooze    -> {SnoozeEvent(Held(b))}
Event(b, raw) ==
  CASE b = Up        -> IF raw THEN {"bright_up"} ELSE {}
    [] b = Down      -> IF raw THEN {"bright_down"} ELSE {}
    [] b = Provision -> IF raw THEN {} ELSE {ProvisionEvent(Held(b))}
    [] b = Snooze    -> IF raw THEN {} ELSE {SnoozeEvent(Held(b))}

Events(b, raw) == IF Commits(b, raw) THEN Event(b, raw) ELSE {}

Both(btn) == {Up, Down} \subseteq Buttons /\ btn[Up].stable /\ btn[Down].stable

\* how long for, and the same with the start never noted: longer than anything
ComboUnstarted == ComboTime + 1
ComboHeld == IF s_combo = None THEN 0 ELSE Least(s_combo + 1, ComboTime)

\* the toggle, once per hold, and without the flag that makes it once
TogglesAgain(btn) == Both(btn) /\ ComboHeld >= ComboTime
Toggles(btn) == Both(btn) /\ ~s_combo_fired /\ ComboHeld >= ComboTime

\* the press is over: its history may be forgotten
Rests(b) ==
  /\ ~finger[b]
  /\ since[b] = Horizon
  /\ ~s_key_bits[b]
  /\ ~s_btn[b].raw
  /\ ~s_btn[b].stable

Unseen(b) == ~Rests(b) /\ (blind[b] \/ b \in dark)

Rebooting == {"provision", "factory_reset"}

Samples(contact) == [b \in Buttons |-> Sample(b, contact)]
SinglesOf(raw) == UNION {Events(b, raw[b]) : b \in Buttons}

\* on_button restarts the clock for a provision or a factory reset, before the
\* snooze button and the combination are looked at
Restarts(raw) ==
  /\ SinglesOf(raw) \cap Rebooting # {}
  /\ emitted' = UNION {Events(b, raw[b]) : b \in Buttons \ {Snooze}}
  /\ s_key_bits' = [b \in Buttons |-> FALSE]
  /\ s_btn' = [b \in Buttons |-> Released]
  /\ s_combo' = None
  /\ s_combo_fired' = FALSE
  /\ sampled' = [b \in Buttons |-> 0]
  /\ blind' = [b \in Buttons |-> finger[b] \/ Unseen(b)]
  /\ count' = [b \in Buttons |-> 0]
  /\ toggled' = FALSE

GoesOn(raw) ==
  /\ SinglesOf(raw) \cap Rebooting = {}
  /\ s_key_bits' = raw
  /\ s_btn' = [b \in Buttons |-> Ticked(b, raw[b])]
  /\ emitted' = SinglesOf(raw) \cup (IF Toggles(s_btn') THEN {"alarm_toggle"} ELSE {})
  /\ s_combo' = IF Both(s_btn') THEN ComboHeld ELSE None
  /\ s_combo_fired' = (Both(s_btn') /\ (s_combo_fired \/ Toggles(s_btn')))
  /\ sampled' = [b \in Buttons |->
                   IF b \in dark THEN 0 ELSE Least(sampled[b] + 1, Settled)]
  /\ blind' = [b \in Buttons |-> Unseen(b)]
  /\ count' = [b \in Buttons |->
                 CASE Rests(b) -> 0
                   [] ~Rests(b) /\ Events(b, raw[b]) = {} -> count[b]
                   [] Events(b, raw[b]) # {} -> Least(count[b] + 1, 2)]
  /\ toggled' = (toggled \/ Toggles(s_btn'))

\* The turn's time passes, and another frame is drawn.
Passes ==
  /\ dark' \in DarkSets
  /\ since' = [b \in Buttons |-> Least(since[b] + 1, Horizon)]
  /\ down' = [b \in Buttons |->
                CASE finger[b] -> Least(down[b] + 1, Reads(b))
                  [] ~finger[b] /\ ~Rests(b) -> down[b]
                  [] Rests(b) -> 0]
  /\ UNCHANGED finger

Tick ==
  /\ \E contact \in Contacts :
       Restarts(Samples(contact)) \/ GoesOn(Samples(contact))
  /\ Passes

Next == Tick \/ \E b \in Buttons : Move(b)

Spec == Init /\ [][Next]_vars

-----------------------------------------------------------------------------
(* Properties. *)

\* No measured time exceeds what is compared with it, and every event is one of
\* buttons.h.
TypeOK ==
  /\ finger \in [Buttons -> BOOLEAN]
  /\ since \in [Buttons -> 0 .. Horizon]
  /\ dark \in DarkSets
  /\ s_key_bits \in [Buttons -> BOOLEAN]
  /\ s_btn \in [Buttons -> [raw : BOOLEAN, stable : BOOLEAN,
                            age : 0 .. DebounceTime, held : 0 .. FactoryTime]]
  /\ s_combo \in 0 .. ComboTime \cup {None}
  /\ s_combo_fired \in BOOLEAN
  /\ emitted \subseteq {"bright_up", "bright_down", "show_ip", "provision", "factory_reset",
                        "snooze_short", "snooze_long", "alarm_toggle"}
  /\ down \in [Buttons -> Nat] /\ \A b \in Buttons : down[b] <= Reads(b)
  /\ sampled \in [Buttons -> 0 .. Settled]
  /\ blind \in [Buttons -> BOOLEAN]
  /\ count \in [Buttons -> 0 .. 2]
  /\ toggled \in BOOLEAN

\* A measured hold is off by the bounce at most.
Shortest(time) == time - Bounce
Longest(time) == time + Bounce

\* What the hold events claim is what the finger did, as long as every turn of it was
\* seen.
HoldsAreReal ==
  /\ Provision \in Buttons /\ ~blind[Provision] =>
       /\ "factory_reset" \in emitted => down[Provision] >= Shortest(FactoryTime)
       /\ "provision" \in emitted => down[Provision] >= Shortest(ProvisionTime)
       /\ "show_ip" \in emitted => down[Provision] <= Longest(ProvisionTime)
  /\ Snooze \in Buttons /\ ~blind[Snooze] =>
       /\ "snooze_long" \in emitted => down[Snooze] >= Shortest(SnoozeLongTime)
       /\ "snooze_short" \in emitted => down[Snooze] <= Longest(SnoozeLongTime)

\* However the contact bounced and however long the tube was dark before, a
\* button that is sampled for long enough is taken for what it is.
SampledIsStable ==
  \A b \in Buttons : sampled[b] >= Settled => s_btn[b].stable = finger[b]

\* A press that was seen throughout makes one event, bounce or not.
OneEventPerPress == \A b \in Buttons : ~blind[b] => count[b] <= 1

\* The combination toggles the alarm when both buttons were held together for
\* its time; the contacts of fingers that have left may go on for less than a bounce.
CombinationIsHeld ==
  "alarm_toggle" \in emitted /\ ~blind[Up] /\ ~blind[Down] =>
    \A b \in {Up, Down} : down[b] >= Least(ComboTime, Shortest(ComboTime) + 1)

\* ... and does not toggle it again before a finger has left one of them, as long as
\* the tubes are lit: a sample of a bounce that a dark frame keeps is a release.
TogglesOncePerHold ==
  [][toggled /\ toggled' /\ ~blind'[Up] /\ ~blind'[Down] => "alarm_toggle" \notin emitted']_vars

\* README: the provision button shows the IP address when pressed shortly, and
\* provisions after a hold of 3 s; dark tubes or not.
ProvisionTakesAHold ==
  "provision" \in emitted => down[Provision] >= Shortest(ProvisionTime)

===============================================================================
