--------------------------- MODULE AlarmBuzzerProofs ---------------------------
(***************************************************************************)
(* Proofs about the alarm's lock and its buzzer, for every set of workers, *)
(* melody and bound.                                                       *)
(***************************************************************************)
EXTENDS AlarmBuzzer, TLAPS

Locking(c) == caller[c].op # "preview" /\ caller[c].pc \notin {"ready", "take"}

AfterLoopCleared == {"stop_read", "stop_gen", "stop_tone", "set_state"}

\* What holds of a call from its decision, made with the lock, to its end.
CallOK(c) ==
  /\ Locking(c) => s_lock = c
  /\ caller[c].op = "preview" => caller[c].pc \in PlaySteps \cup {"ready"}
  /\ Locking(c) /\ caller[c].pc \in PlaySteps => s_state = "ringing"
  /\ caller[c].pc \in StopSteps => s_state # "idle"
  /\ caller[c].pc \in StopSteps /\ caller[c].op = "snooze" => s_state = "ringing"
  /\ caller[c].pc \in AfterLoopCleared => ~s_loop

\* The player that is to play a note has one left.
NoteLeft == player.pc \in {"on", "hold"} => player.note < Notes

IInv == TypeOK /\ NoteLeft /\ LoopOnlyWhileRinging /\ \A c \in Callers : CallOK(c)

-----------------------------------------------------------------------------

LEMMA InitHolds == Init => IInv
<1> SUFFICES ASSUME Init PROVE IInv
  OBVIOUS
<1>1. caller \in [Callers -> [op : Ops, reg : Nat,
                     pc : {"ready", "take", "give"} \cup PlaySteps \cup StopSteps]]
  BY DEF Init, Ops, Ready
<1>2. 0 \in 0 .. Notes /\ 0 \in 0 .. MaxRings /\ 0 \in 0 .. MaxCommands
  BY AlarmBuzzerConstants
<1>3. TypeOK
  BY <1>1, <1>2 DEF Init, TypeOK, States, Waiting
<1>4. \A c \in Callers : CallOK(c)
  BY DEF Init, Ready, CallOK, Locking, PlaySteps, StopSteps, AfterLoopCleared
<1> QED BY <1>3, <1>4 DEF Init, Waiting, IInv, LoopOnlyWhileRinging, NoteLeft

\* The tasks' program counters and copies keep their types.
LEMMA GotoType ==
  ASSUME TypeOK, NEW c \in Callers, NEW pc, Goto(c, pc),
         pc \in {"ready", "take", "give"} \cup PlaySteps \cup StopSteps
  PROVE  caller' \in [Callers -> [op : Ops, reg : Nat,
                        pc : {"ready", "take", "give"} \cup PlaySteps \cup StopSteps]]
BY DEF TypeOK, Goto

LEMMA TickTypeStep == ASSUME TypeOK, Tick PROVE TypeOK'
<1>1. Main \in Callers
  BY DEF Callers
<1> USE <1>1 DEF Take
<1>2. CASE TickFires
  <2>1. rings' \in 0 .. MaxRings /\ s_state' \in States
    BY <1>2, AlarmBuzzerConstants DEF TickFires, TypeOK, States
  <2>2. Goto(Main, "play_loop") /\ s_lock' = Main
    BY <1>2 DEF TickFires
  <2> QED BY <1>2, <2>1, <2>2, GotoType DEF TickFires, TypeOK, buzzer, PlaySteps
<1>3. CASE TickSnoozeOver
  <2>1. Goto(Main, "play_loop") /\ s_lock' = Main
    BY <1>3 DEF TickSnoozeOver
  <2> QED
    BY <1>3, <2>1, GotoType DEF TickSnoozeOver, TypeOK, buzzer, bounds, PlaySteps, States
<1>4. CASE TickRinging
  <2>1. Goto(Main, KeepRinging(s_active)) /\ s_lock' = Main
    BY <1>4 DEF TickRinging
  <2>2. KeepRinging(s_active) \in {"give", "play_loop"}
    BY DEF KeepRinging
  <2> QED
    BY <1>4, <2>1, <2>2, GotoType DEF TickRinging, TypeOK, buzzer, bounds, PlaySteps
<1>5. CASE TickDisabled
  <2>1. Goto(Main, "stop_active") /\ s_lock' = Main
    BY <1>5 DEF TickDisabled
  <2> QED BY <1>5, <2>1, GotoType DEF TickDisabled, TypeOK, buzzer, bounds, StopSteps
<1>6. CASE TickNothing
  <2>1. Goto(Main, "give") /\ s_lock' = Main
    BY <1>6 DEF TickNothing
  <2> QED BY <1>6, <2>1, GotoType DEF TickNothing, TypeOK, buzzer, bounds
<1> QED BY <1>2, <1>3, <1>4, <1>5, <1>6 DEF Tick

LEMMA CommandTypeStep ==
  ASSUME TypeOK, NEW c \in Callers, SnoozeTake(c) \/ DismissTake(c) PROVE TypeOK'
<1>1. PICK pc \in {"stop_active", "give"} : Goto(c, pc)
  BY DEF SnoozeTake, DismissTake
<1>2. s_lock' = c
  BY DEF SnoozeTake, DismissTake, Take
<1> QED
  BY <1>1, <1>2, GotoType DEF SnoozeTake, DismissTake, TypeOK, buzzer, bounds, StopSteps

\* A read of s_gen and its increment keep their types.
LEMMA GenTypeStep ==
  ASSUME TypeOK, NEW c \in Callers, NEW from,
         NEW to \in {"ready", "take", "give"} \cup PlaySteps \cup StopSteps,
         ReadGen(c, from, to) \/ WriteGen(c, from, to)
  PROVE  TypeOK'
<1> DEFINE At3 == {"ready", "take", "give"} \cup PlaySteps \cup StopSteps
            Locals == [op : Ops, reg : Nat, pc : At3]
<1>a. caller \in [Callers -> Locals] /\ s_gen \in Nat /\ to \in At3
  BY DEF TypeOK
<1> HIDE DEF At3
<1>b. ASSUME NEW n \in Nat PROVE [caller EXCEPT ![c].pc = to, ![c].reg = n] \in [Callers -> Locals]
  <2>1. caller[c] \in Locals
    BY <1>a
  <2>2. [caller[c] EXCEPT !.pc = to, !.reg = n] \in Locals
    BY <1>a, <2>1
  <2> QED
    BY <1>a, <2>2
<1>1. CASE ReadGen(c, from, to)
  <2>1. caller' \in [Callers -> Locals]
    BY <1>1, <1>a, <1>b DEF ReadGen
  <2>2. UNCHANGED <<s_lock, s_state, s_loop, s_active, s_gen, player, tone, rings, commands>>
    BY <1>1 DEF ReadGen, buzzer, bounds
  <2> QED BY <2>1, <2>2 DEF TypeOK, At3
<1>2. CASE WriteGen(c, from, to)
  <2>1. s_gen' \in Nat
    BY <1>2, <1>a DEF WriteGen
  <2>2. caller' \in [Callers -> Locals]
    BY <1>2, <1>b DEF WriteGen
  <2>3. UNCHANGED <<s_lock, s_state, s_loop, s_active, player, tone, rings, commands>>
    BY <1>2 DEF WriteGen, bounds
  <2> QED BY <2>1, <2>2, <2>3 DEF TypeOK, At3
<1> QED BY <1>1, <1>2

LEMMA CallTypeStep ==
  ASSUME TypeOK, NEW c \in Callers, Play(c) \/ Stop(c) \/ Give(c) PROVE TypeOK'
<1>1. CASE PlayLoop(c)
  <2>1. Goto(c, "play_active")
    BY <1>1 DEF PlayLoop
  <2> QED BY <1>1, <2>1, GotoType DEF PlayLoop, TypeOK, bounds, PlaySteps
<1>2. CASE PlayActive(c)
  <2>1. Goto(c, "play_read")
    BY <1>2 DEF PlayActive
  <2> QED BY <1>2, <2>1, GotoType DEF PlayActive, TypeOK, bounds, PlaySteps
<1>3. CASE ReadGen(c, "play_read", "play_gen")
  BY <1>3, GenTypeStep DEF PlaySteps
<1>4. CASE WriteGen(c, "play_gen", IF caller[c].op = "preview" THEN "ready" ELSE "give")
  <2>1. (IF caller[c].op = "preview" THEN "ready" ELSE "give") \in {"ready", "give"}
    OBVIOUS
  <2> QED BY <1>4, <2>1, GenTypeStep
<1>5. CASE StopActive(c)
  <2>1. Goto(c, "stop_loop")
    BY <1>5 DEF StopActive
  <2> QED BY <1>5, <2>1, GotoType DEF StopActive, TypeOK, bounds, StopSteps
<1>6. CASE StopLoop(c)
  <2>1. Goto(c, "stop_read")
    BY <1>6 DEF StopLoop
  <2> QED BY <1>6, <2>1, GotoType DEF StopLoop, LoopCleared, TypeOK, bounds, StopSteps
<1>7. CASE ReadGen(c, "stop_read", "stop_gen")
  BY <1>7, GenTypeStep DEF StopSteps
<1>8. CASE WriteGen(c, "stop_gen", "stop_tone")
  BY <1>8, GenTypeStep DEF StopSteps
<1>9. CASE StopTone(c)
  <2>1. Goto(c, "set_state")
    BY <1>9 DEF StopTone
  <2> QED BY <1>9, <2>1, GotoType DEF StopTone, TypeOK, bounds, StopSteps, buzzer
<1>10. CASE SetState(c)
  <2>1. Goto(c, "give") /\ s_state' \in States
    BY <1>10 DEF SetState, States
  <2> QED BY <1>10, <2>1, GotoType DEF SetState, TypeOK, bounds, buzzer
<1>11. CASE Give(c)
  <2> QED BY <1>11 DEF Give, Ready, Ops, TypeOK, bounds, buzzer
<1> QED
  BY <1>1, <1>2, <1>3, <1>4, <1>5, <1>6, <1>7, <1>8, <1>9, <1>10, <1>11
     DEF Play, Stop

LEMMA PlayerTypeStep == ASSUME TypeOK, NoteLeft, Player PROVE TypeOK' /\ NoteLeft'
<1> USE DEF TypeOK, NoteLeft, PlayerAt, PlayerGoto, Waiting, buzzer, bounds
<1>1. CASE PlayerWakes
  BY <1>1 DEF PlayerWakes
<1>2. CASE PlayerStarts
  BY <1>2, AlarmBuzzerConstants DEF PlayerStarts
<1>3. CASE PlayerChecks
  <2>1. PlayedAll(player.note) \/ player.note < Notes
    BY AlarmBuzzerConstants DEF PlayedAll
  <2> QED BY <1>3, <2>1 DEF PlayerChecks
<1>4. CASE PlayerTone
  BY <1>4 DEF PlayerTone
<1>5. CASE PlayerHolds
  <2>1. player.note + 1 \in 0 .. Notes
    BY <1>5, AlarmBuzzerConstants DEF PlayerHolds
  <2> QED BY <1>5, <2>1 DEF PlayerHolds
<1> 0 \in 0 .. Notes
  BY AlarmBuzzerConstants
<1>6. CASE PlayerEvaluates
  BY <1>6 DEF PlayerEvaluates
<1>7. CASE PlayerAgain
  BY <1>7 DEF PlayerAgain
<1>8. CASE PlayerOff
  BY <1>8 DEF PlayerOff
<1>9. CASE PlayerSilence
  BY <1>9 DEF PlayerSilence
<1> QED BY <1>1, <1>2, <1>3, <1>4, <1>5, <1>6, <1>7, <1>8, <1>9 DEF Player

LEMMA TypeStep == IInv /\ [Next]_vars => TypeOK' /\ NoteLeft'
<1> SUFFICES ASSUME IInv, [Next]_vars PROVE TypeOK' /\ NoteLeft'
  OBVIOUS
<1>0. TypeOK /\ NoteLeft
  BY DEF IInv
<1>1. CASE BeginTick
  <2>1. Main \in Callers
    BY DEF Callers
  <2> QED BY <1>0, <1>1, <2>1 DEF BeginTick, TypeOK, NoteLeft, Ops, buzzer, bounds
<1>2. ASSUME NEW c \in Callers, NEW op \in Commands, BeginCommand(c, op)
      PROVE  TypeOK' /\ NoteLeft'
  <2>1. commands' \in 0 .. MaxCommands
    BY <1>0, <1>2, AlarmBuzzerConstants DEF BeginCommand, TypeOK
  <2>2. caller' \in [Callers -> [op : Ops, reg : Nat,
                        pc : {"ready", "take", "give"} \cup PlaySteps \cup StopSteps]]
    BY <1>0, <1>2 DEF BeginCommand, TypeOK, Ops, PlaySteps
  <2> QED BY <1>0, <1>2, <2>1, <2>2 DEF BeginCommand, TypeOK, NoteLeft, buzzer
<1>3. ASSUME NEW c \in Callers, Continue(c) PROVE TypeOK' /\ NoteLeft'
  <2>1. TypeOK'
    BY <1>0, <1>3, TickTypeStep, CommandTypeStep, CallTypeStep DEF Continue
  <2>2. UNCHANGED player
    BY <1>3 DEF Continue, Tick, TickFires, TickSnoozeOver, TickRinging, TickDisabled,
                TickNothing, SnoozeTake, DismissTake, Play, PlayLoop, PlayActive, ReadGen,
                WriteGen, Stop, StopActive, StopLoop, StopTone, SetState, Give
  <2> QED BY <1>0, <2>1, <2>2 DEF NoteLeft
<1>4. CASE Player
  BY <1>0, <1>4, PlayerTypeStep
<1>5. CASE UNCHANGED vars
  BY <1>0, <1>5 DEF vars, buzzer, bounds, TypeOK, NoteLeft
<1> QED BY <1>1, <1>2, <1>3, <1>4, <1>5 DEF Next

-----------------------------------------------------------------------------
(* The lock. *)

CallsOK == \A c \in Callers : CallOK(c)

\* Only one call decides, plays or stops at a time, previews apart.
LEMMA OneLocking ==
  ASSUME CallsOK, NEW c \in Callers, NEW d \in Callers, Locking(c), Locking(d)
  PROVE  c = d
BY DEF CallsOK, CallOK

\* A call that is neither under the lock nor a preview asserts nothing.
LEMMA Outside ==
  ASSUME NEW c \in Callers, caller[c].op # "preview", caller[c].pc \in {"ready", "take"}
  PROVE  CallOK(c)
BY DEF CallOK, Locking, PlaySteps, StopSteps, AfterLoopCleared

\* What the decision and the other steps of one call leave of the others.
Others(c) == \A d \in Callers \ {c} : caller'[d] = caller[d]

LEMMA GotoOthers ==
  ASSUME TypeOK, NEW c \in Callers, NEW pc, Goto(c, pc)
  PROVE  /\ Others(c)
         /\ caller'[c].pc = pc
         /\ caller'[c].op = caller[c].op
BY DEF Goto, Others, TypeOK

\* The calls of other tasks are undisturbed by a step that keeps s_lock and
\* s_state and does not set s_loop.
LEMMA OthersKeep ==
  ASSUME CallsOK, NEW c \in Callers, Others(c), UNCHANGED <<s_lock, s_state>>,
         s_loop' => s_loop
  PROVE  \A d \in Callers \ {c} : CallOK(d)'
BY DEF CallsOK, CallOK, Locking, Others

\* They are undisturbed by any step, where they are outside the lock.
LEMMA OthersOutside ==
  ASSUME CallsOK, NEW c \in Callers, Others(c),
         \A d \in Callers \ {c} : ~Locking(d)
  PROVE  \A d \in Callers \ {c} : CallOK(d)'
BY DEF CallsOK, CallOK, Locking, Others, PlaySteps, StopSteps, AfterLoopCleared

\* Who takes the lock finds nobody under it.
LEMMA TakeAlone ==
  ASSUME CallsOK, NEW c \in Callers, s_lock = NoOne PROVE ~Locking(c)
BY AlarmBuzzerConstants DEF CallsOK, CallOK

LEMMA DecisionStep ==
  ASSUME TypeOK, CallsOK, LoopOnlyWhileRinging, NEW c \in Callers,
         (c = Main /\ Tick) \/ SnoozeTake(c) \/ DismissTake(c)
  PROVE  CallsOK' /\ LoopOnlyWhileRinging'
<1>1. PICK op \in {"tick", "snooze", "dismiss"} : Take(c, op)
  BY DEF Tick, TickFires, TickSnoozeOver, TickRinging, TickDisabled, TickNothing,
         SnoozeTake, DismissTake
<1>2. /\ s_lock = NoOne /\ s_lock' = c
      /\ caller[c].op = op /\ caller[c].pc = "take"
  BY <1>1 DEF Take, LockFree, At
<1>3. PICK pc \in {"give", "play_loop", "stop_active"} : Goto(c, pc)
  BY DEF Tick, TickFires, TickSnoozeOver, TickRinging, TickDisabled, TickNothing,
         SnoozeTake, DismissTake, KeepRinging
<1>4. Others(c) /\ caller'[c].pc = pc /\ caller'[c].op = op
  BY <1>2, <1>3, GotoOthers
<1>5. \A d \in Callers \ {c} : CallOK(d)'
  BY <1>2, <1>4, TakeAlone, OthersOutside
<1>6. /\ pc = "play_loop" => s_state' = "ringing"
      /\ pc = "stop_active" => s_state' # "idle"
      /\ pc = "stop_active" /\ op = "snooze" => s_state' = "ringing"
      /\ s_state' \in {s_state, "ringing"}
  <2>1. CASE SnoozeTake(c)
    BY <1>4, <2>1 DEF SnoozeTake, Take, TypeOK, Goto
  <2>2. CASE DismissTake(c)
    BY <1>2, <1>4, <2>2 DEF DismissTake, Take, TypeOK, Goto
  <2>3. CASE c = Main /\ Tick
    BY <1>2, <1>4, <2>3
       DEF Tick, TickFires, TickSnoozeOver, TickRinging, TickDisabled, TickNothing, Take,
           KeepRinging, TypeOK, Goto
  <2> QED BY <2>1, <2>2, <2>3
<1>7. CallOK(c)'
  BY <1>2, <1>4, <1>6 DEF CallOK, Locking, PlaySteps, StopSteps, AfterLoopCleared
<1>8. UNCHANGED s_loop
  BY DEF Tick, TickFires, TickSnoozeOver, TickRinging, TickDisabled, TickNothing,
         SnoozeTake, DismissTake, buzzer
<1> QED BY <1>5, <1>6, <1>7, <1>8 DEF CallsOK, LoopOnlyWhileRinging

LEMMA PlayStep ==
  ASSUME TypeOK, CallsOK, LoopOnlyWhileRinging, NEW c \in Callers, Play(c)
  PROVE  CallsOK' /\ LoopOnlyWhileRinging'
<1>0. UNCHANGED <<s_lock, s_state>>
  BY DEF Play, PlayLoop, PlayActive, ReadGen, WriteGen
<1>1. caller[c].pc \in PlaySteps /\ CallOK(c)
  BY DEF Play, PlayLoop, PlayActive, ReadGen, WriteGen, At, PlaySteps, CallsOK
<1>2. /\ Others(c)
      /\ caller'[c].op = caller[c].op
      /\ \/ caller'[c].pc \in PlaySteps
         \/ caller'[c].pc = IF caller[c].op = "preview" THEN "ready" ELSE "give"
  BY DEF Play, PlayLoop, PlayActive, ReadGen, WriteGen, Goto, Others, TypeOK, PlaySteps
<1>3. CallOK(c)'
  BY <1>0, <1>1, <1>2 DEF CallOK, Locking, PlaySteps, StopSteps, AfterLoopCleared
<1>4. s_loop' => s_state = "ringing"
  BY <1>1 DEF Play, PlayLoop, PlayActive, ReadGen, WriteGen, buzzer, CallOK, Locking,
              PlaySteps, LoopOnlyWhileRinging
<1>5. \A d \in Callers \ {c} : CallOK(d)'
  <2>1. CASE caller[c].op = "preview"
    <3>1. s_loop' => s_loop
      BY <2>1 DEF Play, PlayLoop, PlayActive, ReadGen, WriteGen, buzzer, TypeOK
    <3> QED BY <1>0, <1>2, <3>1, OthersKeep
  <2>2. CASE caller[c].op # "preview"
    <3>1. Locking(c)
      BY <1>1, <2>2 DEF Locking, PlaySteps
    <3>2. \A d \in Callers \ {c} : ~Locking(d)
      BY <3>1, OneLocking
    <3> QED BY <1>2, <3>2, OthersOutside
  <2> QED BY <2>1, <2>2
<1> QED BY <1>0, <1>3, <1>4, <1>5 DEF CallsOK, LoopOnlyWhileRinging

LEMMA StopStep ==
  ASSUME TypeOK, CallsOK, LoopOnlyWhileRinging, NEW c \in Callers, Stop(c)
  PROVE  CallsOK' /\ LoopOnlyWhileRinging'
<1>0. UNCHANGED s_lock /\ (s_loop' => s_loop)
  BY DEF Stop, StopActive, StopLoop, LoopCleared, ReadGen, WriteGen, StopTone, SetState,
         buzzer
<1>1. caller[c].pc \in StopSteps /\ CallOK(c)
  BY DEF Stop, StopActive, StopLoop, ReadGen, WriteGen, StopTone, SetState, At, StopSteps,
         CallsOK
<1>2. caller[c].op # "preview" /\ Locking(c)
  BY <1>1 DEF CallOK, Locking, StopSteps, PlaySteps
<1>3. \A d \in Callers \ {c} : ~Locking(d)
  BY <1>2, OneLocking
<1>4. Others(c) /\ caller'[c].op = caller[c].op
  BY DEF Stop, StopActive, StopLoop, ReadGen, WriteGen, StopTone, SetState, Goto, Others,
         TypeOK
<1>5. \A d \in Callers \ {c} : CallOK(d)'
  BY <1>3, <1>4, OthersOutside
<1>6. CASE SetState(c)
  <2>1. caller[c].pc = "set_state" /\ caller'[c].pc = "give" /\ UNCHANGED s_loop
    BY <1>6, GotoOthers DEF SetState, At, buzzer
  <2>2. ~s_loop'
    BY <1>1, <2>1 DEF CallOK, AfterLoopCleared
  <2>3. CallOK(c)'
    BY <1>0, <1>1, <1>2, <1>4, <2>1
       DEF CallOK, Locking, PlaySteps, StopSteps, AfterLoopCleared
  <2> QED BY <1>5, <2>2, <2>3 DEF CallsOK, LoopOnlyWhileRinging
<1>7. CASE ~SetState(c)
  <2>1. UNCHANGED s_state /\ caller'[c].pc \in StopSteps
    BY <1>7 DEF Stop, StopActive, StopLoop, ReadGen, WriteGen, StopTone, Goto, TypeOK,
                StopSteps
  <2>2. caller'[c].pc \in AfterLoopCleared => ~s_loop'
    BY <1>1, <1>7 DEF Stop, StopActive, StopLoop, LoopCleared, ReadGen, WriteGen, StopTone,
                      Goto, At, TypeOK, CallOK, AfterLoopCleared, buzzer
  <2>3. CallOK(c)'
    BY <1>0, <1>1, <1>2, <1>4, <2>1, <2>2 DEF CallOK, Locking, PlaySteps, StopSteps
  <2> QED BY <1>0, <1>5, <2>1, <2>3 DEF CallsOK, LoopOnlyWhileRinging
<1> QED BY <1>6, <1>7

LEMMA GiveStep ==
  ASSUME TypeOK, CallsOK, LoopOnlyWhileRinging, NEW c \in Callers, Give(c)
  PROVE  CallsOK' /\ LoopOnlyWhileRinging'
<1>1. caller[c].pc = "give" /\ CallOK(c)
  BY DEF Give, At, CallsOK
<1>2. caller[c].op # "preview" /\ Locking(c)
  BY <1>1 DEF CallOK, Locking, PlaySteps
<1>3. Others(c) /\ caller'[c].op = "tick" /\ caller'[c].pc = "ready"
  BY DEF Give, Ready, Others, TypeOK
<1>4. \A d \in Callers \ {c} : CallOK(d)'
  BY <1>2, <1>3, OneLocking, OthersOutside
<1>5. CallOK(c)'
  BY <1>2, <1>3 DEF CallOK, Locking, PlaySteps, StopSteps, AfterLoopCleared
<1> QED BY <1>4, <1>5 DEF CallsOK, LoopOnlyWhileRinging, Give, buzzer

LEMMA BeginStep ==
  ASSUME TypeOK, CallsOK, LoopOnlyWhileRinging, NEW c \in Callers,
         (c = Main /\ BeginTick) \/ \E op \in Commands : BeginCommand(c, op)
  PROVE  CallsOK' /\ LoopOnlyWhileRinging'
<1>0. UNCHANGED <<s_lock, s_state, s_loop>>
  BY DEF BeginTick, BeginCommand, buzzer
<1>1. /\ Others(c)
      /\ \/ caller'[c].op # "preview" /\ caller'[c].pc = "take"
         \/ caller'[c].op = "preview" /\ caller'[c].pc = "play_loop"
  BY DEF BeginTick, BeginCommand, Others, TypeOK
<1>2. CallOK(c)'
  BY <1>1 DEF CallOK, Locking, PlaySteps, StopSteps, AfterLoopCleared
<1>3. \A d \in Callers \ {c} : CallOK(d)'
  BY <1>0, <1>1, OthersKeep
<1> QED BY <1>0, <1>2, <1>3 DEF CallsOK, LoopOnlyWhileRinging

LEMMA LockStep == IInv /\ [Next]_vars => CallsOK' /\ LoopOnlyWhileRinging'
<1> SUFFICES ASSUME IInv, [Next]_vars PROVE CallsOK' /\ LoopOnlyWhileRinging'
  OBVIOUS
<1>0. TypeOK /\ CallsOK /\ LoopOnlyWhileRinging
  BY DEF IInv, CallsOK
<1>1. CASE BeginTick
  BY <1>0, <1>1, BeginStep DEF Callers
<1>2. ASSUME NEW c \in Callers, NEW op \in Commands, BeginCommand(c, op)
      PROVE  CallsOK' /\ LoopOnlyWhileRinging'
  BY <1>0, <1>2, BeginStep
<1>3. ASSUME NEW c \in Callers, Continue(c) PROVE CallsOK' /\ LoopOnlyWhileRinging'
  BY <1>0, <1>3, DecisionStep, PlayStep, StopStep, GiveStep DEF Continue
<1>4. CASE Player \/ UNCHANGED vars
  <2>1. UNCHANGED <<s_lock, s_state, s_loop, caller>>
    BY <1>4 DEF vars, buzzer, Player, PlayerWakes, PlayerStarts, PlayerChecks, PlayerTone,
                PlayerHolds, PlayerEvaluates, PlayerAgain, PlayerOff, PlayerSilence
  <2> QED BY <1>0, <2>1 DEF CallsOK, CallOK, Locking, LoopOnlyWhileRinging
<1> QED BY <1>1, <1>2, <1>3, <1>4 DEF Next

-----------------------------------------------------------------------------

\* The lock does its work: who acts on a decision still finds it true.
THEOREM Invariance == Spec => []IInv
<1>1. IInv /\ [Next]_vars => IInv'
  BY TypeStep, LockStep DEF IInv, CallsOK
<1> QED BY <1>1, InitHolds, PTL DEF Spec

\* Every variable of the alarm and its buzzer keeps its range.
THEOREM TypeCorrect == Spec => []TypeOK
<1>1. IInv => TypeOK
  BY DEF IInv
<1> QED BY <1>1, Invariance, PTL

\* However the statements of the tasks interleave, s_loop is set only while the
\* alarm rings.
THEOREM LoopBelongsToRing == Spec => []LoopOnlyWhileRinging
<1>1. IInv => LoopOnlyWhileRinging
  BY DEF IInv
<1> QED BY <1>1, Invariance, PTL

\* The interleaved calls still make the transitions of AlarmPromise.
THEOREM Refinement == Spec => KeepsPromise
<1>1. Init => Promise!Init
  BY DEF Init, Promise!Init, Phase
<1>2. IInv /\ [Next]_vars => [Promise!Next]_<<Phase, rings>>
  <2> SUFFICES ASSUME IInv, [Next]_vars
               PROVE  Promise!Next \/ UNCHANGED <<Phase, rings>>
    OBVIOUS
  <2>0. TypeOK /\ CallsOK
    BY DEF IInv, CallsOK
  <2> USE DEF Phase
  <2>1. CASE BeginTick
    BY <2>1 DEF BeginTick, bounds
  <2>2. ASSUME NEW c \in Callers, NEW op \in Commands, BeginCommand(c, op)
        PROVE  UNCHANGED <<Phase, rings>>
    BY <2>2 DEF BeginCommand
  <2>3. CASE TickFires
    <3>1. rings + 1 \in 1 .. MaxRings /\ rings + 1 # rings
      BY <2>0, <2>3, AlarmBuzzerConstants DEF TickFires, TypeOK
    <3>2. Promise!Sound(rings + 1)
      BY <2>3, <3>1 DEF TickFires, Promise!Sound
    <3> QED BY <3>1, <3>2 DEF Promise!Next
  <2>4. CASE TickSnoozeOver
    BY <2>4 DEF TickSnoozeOver, bounds, Promise!Next, Promise!Resume
  <2>5. CASE TickRinging \/ TickDisabled \/ TickNothing
    BY <2>5 DEF TickRinging, TickDisabled, TickNothing, bounds
  <2>6. ASSUME NEW c \in Callers, SetState(c)
        PROVE  Promise!Next \/ UNCHANGED <<Phase, rings>>
    <3>1. caller[c].pc = "set_state" /\ CallOK(c)
      BY <2>0, <2>6 DEF SetState, At, CallsOK
    <3>2. /\ s_state # "idle" /\ s_state \in States
          /\ caller[c].op = "snooze" => s_state = "ringing"
      BY <2>0, <3>1 DEF CallOK, StopSteps, TypeOK
    <3> QED
      BY <2>6, <3>2 DEF SetState, bounds, States, Promise!Next, Promise!Pause, Promise!Quiet
  <2>7. ASSUME NEW c \in Callers, Continue(c), ~Tick, ~SetState(c)
        PROVE  UNCHANGED <<Phase, rings>>
    BY <2>7 DEF Continue, SnoozeTake, DismissTake, Play, PlayLoop, PlayActive, ReadGen,
                WriteGen, Stop, StopActive, StopLoop, StopTone, Give, bounds
  <2>8. CASE Player \/ UNCHANGED vars
    BY <2>8 DEF vars, bounds, Player, PlayerWakes, PlayerStarts, PlayerChecks, PlayerTone,
                PlayerHolds, PlayerEvaluates, PlayerAgain, PlayerOff, PlayerSilence
  <2> QED
    BY <2>1, <2>2, <2>3, <2>4, <2>5, <2>6, <2>7, <2>8 DEF Next, Tick
<1> QED BY <1>1, <1>2, Invariance, PTL DEF Spec, KeepsPromise, Promise!Spec

-----------------------------------------------------------------------------
(* What silence rests on.                                                  *)

\* The channel has a duty only while the player holds a note.
ToneIsHeld == tone => player.pc = "hold"

\* A tone never outlasts its note: a stop that falls between the player's check and
\* its note does not leave the channel on, for the player itself ends every note it
\* begins (tone_off of buzzer_stop against play_once).
THEOREM NoToneIsLeftOn == Spec => []ToneIsHeld
<1>1. Init => ToneIsHeld
  BY DEF Init, ToneIsHeld
<1>2. TypeOK /\ ToneIsHeld /\ [Next]_vars => ToneIsHeld'
  <2> SUFFICES ASSUME TypeOK, ToneIsHeld, [Next]_vars PROVE ToneIsHeld'
    OBVIOUS
  <2> USE DEF ToneIsHeld, PlayerAt, PlayerGoto
  <2>1. CASE PlayerTone \/ PlayerHolds \/ PlayerSilence
    BY <2>1 DEF PlayerTone, PlayerHolds, PlayerSilence, TypeOK
  <2>2. CASE PlayerWakes \/ PlayerStarts \/ PlayerChecks \/ PlayerEvaluates
               \/ PlayerAgain \/ PlayerOff
    BY <2>2 DEF PlayerWakes, PlayerStarts, PlayerChecks, PlayerEvaluates, PlayerAgain,
                PlayerOff
  <2>3. ASSUME NEW c \in Callers, StopTone(c) PROVE ToneIsHeld'
    BY <2>3 DEF StopTone
  <2>4. CASE UNCHANGED <<tone, player>>
    BY <2>4
  <2>5. ASSUME NEW c \in Callers, Play(c) \/ Give(c) \/ SnoozeTake(c) \/ DismissTake(c)
        PROVE  UNCHANGED <<tone, player>>
    BY <2>5 DEF Play, PlayLoop, PlayActive, ReadGen, WriteGen, Give, SnoozeTake,
                DismissTake
  <2>6. ASSUME NEW c \in Callers, Stop(c), ~StopTone(c) PROVE UNCHANGED <<tone, player>>
    BY <2>6 DEF Stop, StopActive, StopLoop, ReadGen, WriteGen, SetState
  <2>7. CASE Tick \/ BeginTick \/ UNCHANGED vars
    BY <2>4, <2>7 DEF Tick, TickFires, TickSnoozeOver, TickRinging, TickDisabled,
                      TickNothing, BeginTick, vars
  <2>8. ASSUME NEW c \in Callers, NEW op \in Commands, BeginCommand(c, op)
        PROVE  UNCHANGED <<tone, player>>
    BY <2>8 DEF BeginCommand
  <2> QED
    BY <2>1, <2>2, <2>3, <2>4, <2>5, <2>6, <2>7, <2>8 DEF Next, Continue, Player
<1> QED
  BY <1>1, <1>2, TypeCorrect, PTL DEF Spec

===============================================================================
