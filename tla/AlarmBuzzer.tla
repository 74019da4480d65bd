----------------------------- MODULE AlarmBuzzer -----------------------------
(***************************************************************************)
(* The alarm and its buzzer at the grain of their statements: the main     *)
(* loop, the httpd and MQTT workers call alarm_tick, alarm_snooze,         *)
(* alarm_dismiss and alarm_preview_melody, which call buzzer_play_rtttl    *)
(* and buzzer_stop, while the player task of the buzzer reads the same     *)
(* three volatile variables.  The alarm's lock orders the callers, but not *)
(* the previews and not the player.                                        *)
(*                                                                         *)
(* Clocks are left out: whether it is time to ring or a snooze is over is  *)
(* a choice.  Melodies differ in nothing but their pitched notes, and each *)
(* access to a shared variable is one step, in program order.              *)
(***************************************************************************)
EXTENDS Integers

CONSTANTS
  Main,         \* the main loop
  Workers,      \* the httpd and the MQTT task
  NoOne,
  Notes,        \* length of a melody
  Pitched,      \* its notes that are not pauses
  Commands,     \* the commands the callers issue: snooze, dismiss, preview
  MaxRings,     \* bound on occurrences
  MaxCommands   \* bound on snoozes, dismissals and previews

Callers == Workers \cup {Main}

ASSUME AlarmBuzzerConstants ==
  /\ NoOne \notin Callers
  /\ Notes \in Nat \ {0}
  /\ Pitched \subseteq 1 .. Notes
  /\ Commands \subseteq {"snooze", "dismiss", "preview"}
  /\ MaxRings \in Nat
  /\ MaxCommands \in Nat

VARIABLES
  s_lock,       \* the holder of the alarm's lock
  s_state,
  s_loop, s_active, s_gen,
  caller,       \* per caller: what it does, where it is, its copy of s_gen
  player,       \* where the player is, its my_gen, the notes it has played
  tone,         \* the LEDC channel has a duty
  rings, commands

buzzer == <<s_loop, s_active, s_gen>>
bounds == <<rings, commands>>
vars == <<s_lock, s_state, buzzer, caller, player, tone, bounds>>

Ops == Commands \cup {"tick"}
States == {"idle", "ringing", "snoozed"}

PlaySteps == {"play_loop", "play_active", "play_read", "play_gen"}
StopSteps == {"stop_active", "stop_loop", "stop_read", "stop_gen", "stop_tone", "set_state"}

\* a caller between two calls and a waiting player: their locals are out of scope
Ready == [op |-> "tick", pc |-> "ready", reg |-> 0]
Waiting == [pc |-> "idle", gen |-> 0, note |-> 0]

Init ==
  /\ s_lock = NoOne
  /\ s_state = "idle"
  /\ s_loop = FALSE
  /\ s_active = FALSE
  /\ s_gen = 0
  /\ caller = [c \in Callers |-> Ready]
  /\ player = Waiting
  /\ tone = FALSE
  /\ rings = 0
  /\ commands = 0

At(c, pc) == caller[c].pc = pc
Goto(c, pc) == caller' = [caller EXCEPT ![c].pc = pc]

-----------------------------------------------------------------------------
(* Calls begin.  The main loop ticks, and runs the button's commands; the  *)
(* workers run the commands of the web page and of MQTT.                   *)

BeginTick ==
  /\ At(Main, "ready")
  /\ caller' = [caller EXCEPT ![Main] = [op |-> "tick", pc |-> "take", reg |-> 0]]
  /\ UNCHANGED <<s_lock, s_state, buzzer, player, tone, bounds>>

BeginCommand(c, op) ==
  /\ At(c, "ready")
  /\ commands < MaxCommands
  /\ commands' = commands + 1
  /\ caller' = [caller EXCEPT ![c] =
                  [op |-> op, pc |-> IF op = "preview" THEN "play_loop" ELSE "take",
                   reg |-> 0]]
  /\ UNCHANGED <<s_lock, s_state, buzzer, player, tone, rings>>

-----------------------------------------------------------------------------
(* With the lock: what the call decides to do. *)

\* xSemaphoreTake that does not wait
NoWait == TRUE
LockFree == s_lock = NoOne

Take(c, op) ==
  /\ At(c, "take")
  /\ caller[c].op = op
  /\ LockFree
  /\ s_lock' = c

\* the alarm is enabled, idle, and this is its minute
TickFires ==
  /\ Take(Main, "tick")
  /\ s_state = "idle"
  /\ rings < MaxRings
  /\ rings' = rings + 1
  /\ s_state' = "ringing"
  /\ Goto(Main, "play_loop")
  /\ UNCHANGED <<buzzer, player, tone, commands>>

TickSnoozeOver ==
  /\ Take(Main, "tick")
  /\ s_state = "snoozed"
  /\ s_state' = "ringing"
  /\ Goto(Main, "play_loop")
  /\ UNCHANGED <<buzzer, player, tone, bounds>>

\* KeepRinging that never restarts the melody
KeepRingingSilently(active) == "give"
\* "if the buzzer task somehow stopped, keep it looping"
KeepRinging(active) == IF active THEN "give" ELSE "play_loop"

TickRinging ==
  /\ Take(Main, "tick")
  /\ s_state = "ringing"
  /\ Goto(Main, KeepRinging(s_active))
  /\ UNCHANGED <<s_state, buzzer, player, tone, bounds>>

TickDisabled ==
  /\ Take(Main, "tick")
  /\ s_state # "idle"
  /\ Goto(Main, "stop_active")
  /\ UNCHANGED <<s_state, buzzer, player, tone, bounds>>

\* disabled and idle, not the minute, or the snooze not over
TickNothing ==
  /\ Take(Main, "tick")
  /\ s_state \in {"idle", "snoozed"}
  /\ Goto(Main, "give")
  /\ UNCHANGED <<s_state, buzzer, player, tone, bounds>>

SnoozeTake(c) ==
  /\ Take(c, "snooze")
  /\ Goto(c, IF s_state = "ringing" THEN "stop_active" ELSE "give")
  /\ UNCHANGED <<s_state, buzzer, player, tone, bounds>>

DismissTake(c) ==
  /\ Take(c, "dismiss")
  /\ Goto(c, IF s_state # "idle" THEN "stop_active" ELSE "give")
  /\ UNCHANGED <<s_state, buzzer, player, tone, bounds>>

-----------------------------------------------------------------------------
(* buzzer_play_rtttl *)

\* only a preview plays once
PlayLoop(c) ==
  /\ At(c, "play_loop")
  /\ s_loop' = (caller[c].op # "preview")
  /\ Goto(c, "play_active")
  /\ UNCHANGED <<s_lock, s_state, s_active, s_gen, player, tone, bounds>>

PlayActive(c) ==
  /\ At(c, "play_active")
  /\ s_active' = TRUE
  /\ Goto(c, "play_read")
  /\ UNCHANGED <<s_lock, s_state, s_loop, s_gen, player, tone, bounds>>

\* s_gen++ of a volatile is a read and a write
ReadGen(c, from, to) ==
  /\ At(c, from)
  /\ caller' = [caller EXCEPT ![c].pc = to, ![c].reg = s_gen]
  /\ UNCHANGED <<s_lock, s_state, buzzer, player, tone, bounds>>

WriteGen(c, from, to) ==
  /\ At(c, from)
  /\ s_gen' = caller[c].reg + 1
  /\ caller' = [caller EXCEPT ![c].pc = to, ![c].reg = 0]
  /\ UNCHANGED <<s_lock, s_state, s_loop, s_active, player, tone, bounds>>

Play(c) ==
  \/ PlayLoop(c)
  \/ PlayActive(c)
  \/ ReadGen(c, "play_read", "play_gen")
  \/ WriteGen(c, "play_gen", IF caller[c].op = "preview" THEN "ready" ELSE "give")

-----------------------------------------------------------------------------
(* buzzer_stop, and the assignment of s_state that follows it *)

StopActive(c) ==
  /\ At(c, "stop_active")
  /\ s_active' = FALSE
  /\ Goto(c, "stop_loop")
  /\ UNCHANGED <<s_lock, s_state, s_loop, s_gen, player, tone, bounds>>

\* what buzzer_stop makes of s_loop, and a stop that leaves it
LoopLeft == s_loop
LoopCleared == FALSE

StopLoop(c) ==
  /\ At(c, "stop_loop")
  /\ s_loop' = LoopCleared
  /\ Goto(c, "stop_read")
  /\ UNCHANGED <<s_lock, s_state, s_active, s_gen, player, tone, bounds>>

StopTone(c) ==
  /\ At(c, "stop_tone")
  /\ tone' = FALSE
  /\ Goto(c, "set_state")
  /\ UNCHANGED <<s_lock, s_state, buzzer, player, bounds>>

SetState(c) ==
  /\ At(c, "set_state")
  /\ s_state' = IF caller[c].op = "snooze" THEN "snoozed" ELSE "idle"
  /\ Goto(c, "give")
  /\ UNCHANGED <<s_lock, buzzer, player, tone, bounds>>

Stop(c) ==
  \/ StopActive(c)
  \/ StopLoop(c)
  \/ ReadGen(c, "stop_read", "stop_gen")
  \/ WriteGen(c, "stop_gen", "stop_tone")
  \/ StopTone(c)
  \/ SetState(c)

Give(c) ==
  /\ At(c, "give")
  /\ s_lock' = NoOne
  /\ caller' = [caller EXCEPT ![c] = Ready]
  /\ UNCHANGED <<s_state, buzzer, player, tone, bounds>>

-----------------------------------------------------------------------------
(* player_task and play_once *)

PlayerAt(pc) == player.pc = pc
PlayerGoto(pc) == player' = [player EXCEPT !.pc = pc]

\* "if (!s_active) delay; continue"
PlayerWakes ==
  /\ PlayerAt("idle")
  /\ s_active
  /\ PlayerGoto("start")
  /\ UNCHANGED <<s_lock, s_state, buzzer, caller, tone, bounds>>

PlayerStarts ==
  /\ PlayerAt("start")
  /\ player' = [pc |-> "note", gen |-> s_gen, note |-> 0]
  /\ UNCHANGED <<s_lock, s_state, buzzer, caller, tone, bounds>>

PlayedAll(note) == note = Notes

\* the check between notes: go on only while nobody played or stopped
PlayerChecks ==
  /\ PlayerAt("note")
  /\ PlayerGoto(IF PlayedAll(player.note) \/ s_gen # player.gen THEN "over" ELSE "on")
  /\ UNCHANGED <<s_lock, s_state, buzzer, caller, tone, bounds>>

PlayerTone ==
  /\ PlayerAt("on")
  /\ tone' = (player.note + 1 \in Pitched)
  /\ PlayerGoto("hold")
  /\ UNCHANGED <<s_lock, s_state, buzzer, caller, bounds>>

PlayerHolds ==
  /\ PlayerAt("hold")
  /\ tone' = FALSE
  /\ player' = [player EXCEPT !.pc = "note", !.note = @ + 1]
  /\ UNCHANGED <<s_lock, s_state, buzzer, caller, bounds>>

\* "replaced/stopped: re-evaluate", or the end of the melody
PlayerEvaluates ==
  /\ PlayerAt("over")
  /\ player' = IF s_gen # player.gen THEN Waiting ELSE [player EXCEPT !.pc = "end"]
  /\ UNCHANGED <<s_lock, s_state, buzzer, caller, tone, bounds>>

\* "looping: fall through and play again"
PlayerAgain ==
  /\ PlayerAt("end")
  /\ player' = IF PlayedAll(player.note) /\ ~s_loop THEN [player EXCEPT !.pc = "off"] ELSE Waiting
  /\ UNCHANGED <<s_lock, s_state, buzzer, caller, tone, bounds>>

PlayerOff ==
  /\ PlayerAt("off")
  /\ s_active' = FALSE
  /\ PlayerGoto("silence")
  /\ UNCHANGED <<s_lock, s_state, s_loop, s_gen, caller, tone, bounds>>

PlayerSilence ==
  /\ PlayerAt("silence")
  /\ tone' = FALSE
  /\ player' = Waiting
  /\ UNCHANGED <<s_lock, s_state, buzzer, caller, bounds>>

Player ==
  \/ PlayerWakes \/ PlayerStarts \/ PlayerChecks \/ PlayerTone \/ PlayerHolds
  \/ PlayerEvaluates \/ PlayerAgain \/ PlayerOff \/ PlayerSilence

-----------------------------------------------------------------------------

Tick ==
  \/ TickFires \/ TickSnoozeOver \/ TickRinging \/ TickDisabled \/ TickNothing

\* the rest of a call that has begun
Continue(c) ==
  \/ c = Main /\ Tick
  \/ SnoozeTake(c) \/ DismissTake(c) \/ Play(c) \/ Stop(c) \/ Give(c)

Next ==
  \/ BeginTick
  \/ \E c \in Callers, op \in Commands : BeginCommand(c, op)
  \/ \E c \in Callers : Continue(c)
  \/ Player

Spec == Init /\ [][Next]_vars

\* The main loop keeps ticking, calls that began go on and the player task
\* runs.  Nothing makes a task issue a command, and a task may wait for the lock
\* for as long as others take it.
FairSpec ==
  /\ Spec
  /\ WF_vars(BeginTick)
  /\ \A c \in Callers : WF_vars(Continue(c))
  /\ WF_vars(Player)

-----------------------------------------------------------------------------
(* Properties. *)

\* Every caller and the player are at one of their statements.
TypeOK ==
  /\ s_lock \in Callers \cup {NoOne}
  /\ s_state \in States
  /\ s_loop \in BOOLEAN
  /\ s_active \in BOOLEAN
  /\ s_gen \in Nat
  /\ caller \in [Callers -> [op : Ops, reg : Nat,
                   pc : {"ready", "take", "give"} \cup PlaySteps \cup StopSteps]]
  /\ player \in [pc : {"idle", "start", "note", "on", "hold", "over", "end", "off", "silence"},
                 gen : Nat, note : 0 .. Notes]
  /\ tone \in BOOLEAN
  /\ rings \in 0 .. MaxRings
  /\ commands \in 0 .. MaxCommands

\* The looping melody belongs to the ringing state, whatever previews, restarts
\* and commands of other tasks come between two statements.
LoopOnlyWhileRinging == s_loop => s_state = "ringing"

\* A ringing alarm is heard, also after a preview or a late end of one has
\* switched its melody off.
RingingSounds == s_state = "ringing" ~> (tone \/ s_state # "ringing")

\* An alarm that stopped ringing falls silent: a melody that outlives the stop
\* (or a preview) ends, and does not repeat.
StopsInTheEnd ==
  s_state # "ringing" ~> (PlayerAt("idle") /\ ~tone /\ ~s_active) \/ s_state = "ringing"

Phase ==
  CASE s_state = "idle" -> "quiet"
    [] s_state = "ringing" -> "sounding"
    [] s_state = "snoozed" -> "paused"

Promise ==
  INSTANCE AlarmPromise WITH phase <- Phase, last <- rings,
                             Occurrences <- 1 .. MaxRings, None <- 0

\* The transitions keep the promise although a call tests the state and sets it
\* several statements later: no snooze of a dismissed ring.
KeepsPromise == Promise!Spec

\* buzzer.h: "Stop playback and silence the buzzer."  Where nobody previews, no
\* call is under way and the alarm does not ring, the player is not holding a
\* note of a melody nobody is going to interrupt.
StopStopsPlayback ==
  s_state # "ringing" /\ (\A c \in Callers : At(c, "ready")) =>
    ~(PlayerAt("hold") /\ tone /\ player.gen = s_gen)

===============================================================================
