------------------------------ MODULE AlarmProofs ------------------------------
(***************************************************************************)
(* Proofs about the alarm, for every day length, set of settings and every *)
(* bound on time and events.                                               *)
(***************************************************************************)
EXTENDS Alarm, TLAPS

\* An alarm that is not idle has rung for some minute.
RingHasKey == s_state # "idle" => s_fired_key # NoKey

\* The recorded rings are those of this alarm time; the last key is the latest
\* of them, and time has passed it but for the corrections.
KeyIsLatest ==
  rung # {} =>
    /\ s_fired_key \in rung
    /\ s_fired_key <= wall + behind
    /\ \A r \in rung : r <= s_fired_key /\ r % DayLen = cfg.at

\* What is dismissed is the day of the last ring ...
DismissalOfLastRing == s_dismiss_yday # NoDay => s_dismiss_yday = Day(s_fired_key)

\* ... and while the history says "hushed", the code's guard stands.
HushedIsDismissed == hushed # NoDay => hushed = Day(wall) /\ s_dismiss_yday = hushed

IInv ==
  /\ TypeOK
  /\ LoopsOnlyWhileRinging
  /\ RingHasKey
  /\ KeyIsLatest
  /\ DismissalOfLastRing
  /\ HushedIsDismissed
  /\ NoOccurrenceMissed

-----------------------------------------------------------------------------
(* Days and minutes. *)

\* A minute is its day and its minute of the day.
LEMMA DivMod ==
  ASSUME NEW d \in Nat \ {0}, NEW a \in Nat
  PROVE  a \div d \in Nat /\ a % d \in 0 .. d - 1 /\ a = d * (a \div d) + (a % d)
BY SMT

\* A bound of a bound (for terms with primes).
LEMMA LeqTransitive ==
  ASSUME NEW a \in Int, NEW b \in Int, NEW c \in Int, a <= b, b <= c
  PROVE  a <= c
OBVIOUS

\* Days follow each other as their minutes do.
LEMMA DivMono ==
  ASSUME NEW d \in Nat \ {0}, NEW a \in Nat, NEW b \in Nat, a <= b
  PROVE  a \div d <= b \div d
BY SMTT(30)

\* Two instants at the same time of different days are at least a day apart.
LEMMA Gap ==
  ASSUME NEW d \in Nat \ {0}, NEW p \in Nat, NEW q \in Nat, NEW r \in Nat,
         d * p + r < d * q + r
  PROVE  d * p + r + d <= d * q + r
<1>1. p < q
  BY SMT
<1>2. p + 1 <= q
  BY <1>1
<1>3. d * (p + 1) <= d * q
  BY <1>2, SMT
<1> QED BY <1>3, SMT

LEMMA DayApart ==
  ASSUME NEW d \in Nat \ {0}, NEW a \in Nat, NEW b \in Nat, a < b, a % d = b % d
  PROVE  a + d <= b
<1> DEFINE p == a \div d
           q == b \div d
           r == a % d
<1>1. p \in Nat /\ r \in 0 .. d - 1 /\ a = d * p + r
  BY DivMod
<1>2. q \in Nat /\ b % d = r /\ b = d * q + (b % d)
  BY DivMod
<1>3. r \in Nat /\ b = d * q + r
  BY <1>1, <1>2
<1> HIDE DEF p, q, r
<1> QED BY <1>1, <1>2, <1>3, Gap

\* The days of the modelled minutes.
LEMMA DayType ==
  ASSUME NEW m \in Minutes
  PROVE  Day(m) \in 0 .. Day(LastMinute) /\ Day(m) # NoDay
<1>1. m \in Nat /\ m <= LastMinute /\ LastMinute \in Nat /\ DayLen \in Nat \ {0}
  BY AlarmConstants DEF Minutes
<1>2. m \div DayLen \in Nat /\ LastMinute \div DayLen \in Nat
  BY <1>1, DivMod
<1>3. m \div DayLen <= LastMinute \div DayLen
  BY <1>1, DivMono
<1> QED BY <1>2, <1>3 DEF Day, NoDay

-----------------------------------------------------------------------------
(* The inductive invariant. *)

LEMMA InitHolds == Init => IInv
<1> SUFFICES ASSUME Init PROVE IInv
  OBVIOUS
<1>1. wall \in Minutes
  BY AlarmConstants DEF Init, Minutes
<1>2. 0 \in 0 .. MaxBack /\ 0 \in 0 .. MaxEvents
  BY AlarmConstants
<1>3. TypeOK
  BY <1>1, <1>2 DEF Init, TypeOK
<1> QED
  BY <1>3 DEF Init, IInv, LoopsOnlyWhileRinging, RingHasKey, KeyIsLatest,
              DismissalOfLastRing, HushedIsDismissed, NoOccurrenceMissed

\* The settings in use have the shape the constants promise.
LEMMA CfgType ==
  ASSUME TypeOK
  PROVE  /\ cfg.enabled \in BOOLEAN
         /\ cfg.at \in 0 .. DayLen - 1
         /\ cfg.snooze \in Nat
BY AlarmConstants DEF TypeOK

LEMMA TypeStep == IInv /\ [Next]_vars => TypeOK'
<1> SUFFICES ASSUME IInv, [Next]_vars PROVE TypeOK'
  OBVIOUS
<1>0. TypeOK
  BY DEF IInv
<1> USE <1>0 DEF TypeOK
<1>1. CASE Tick
  <2>1. s_snooze_min' \in Nat
    BY <1>1, CfgType, AlarmConstants DEF Tick, TickDisabled, TickEnabled
  <2>2. s_dismiss_yday' \in 0 .. Day(LastMinute) \cup {NoDay}
    BY <1>1 DEF Tick, ClearDismissal
  <2>3. /\ s_state' \in {"idle", "ringing", "snoozed"}
        /\ buzzer' \in {"off", "ring", "preview"}
        /\ s_fired_key' \in Minutes \cup {NoKey}
        /\ rung' \subseteq Minutes
    BY <1>1 DEF Tick, TickDisabled, TickEnabled, Fire, SnoozeOver, KeepRinging, Wait,
                StartRinging
  <2> QED BY <1>1, <2>1, <2>2, <2>3 DEF Tick
<1>2. CASE Snooze
  BY <1>2 DEF Snooze
<1>3. CASE Dismiss
  <2>1. s_fired_key \in Minutes
    BY <1>3 DEF Dismiss, IInv, RingHasKey
  <2>2. Day(s_fired_key) \in 0 .. Day(LastMinute) /\ Day(wall) \in 0 .. Day(LastMinute)
    BY <2>1, DayType
  <2> QED BY <1>3, <2>2 DEF Dismiss, DismissedDay
<1>4. CASE Preview
  BY <1>4, AlarmConstants DEF Preview
<1>5. CASE MelodyEnds
  BY <1>5 DEF MelodyEnds
<1>6. CASE Minute
  <2>1. wall' \in Minutes /\ behind' \in 0 .. MaxBack /\ s_snooze_left' \in Nat
    BY <1>6, AlarmConstants DEF Minute, Minutes
  <2> QED BY <1>6, <2>1 DEF Minute
<1>7. ASSUME NEW n \in 1 .. MaxBack, PutBack(n) PROVE TypeOK'
  <2>1. wall' \in Minutes /\ behind' \in 0 .. MaxBack /\ events' \in 0 .. MaxEvents
    BY <1>7, AlarmConstants DEF PutBack, Minutes
  <2> QED BY <1>7, <2>1 DEF PutBack
<1>8. ASSUME NEW c \in Configs, Edit(c) PROVE TypeOK'
  <2>1. rung' \subseteq Minutes /\ events' \in 0 .. MaxEvents
    BY <1>8, AlarmConstants DEF Edit
  <2> QED BY <1>8, <2>1 DEF Edit
<1>9. CASE UNCHANGED vars
  BY <1>9 DEF vars
<1> QED
  BY <1>1, <1>2, <1>3, <1>4, <1>5, <1>6, <1>7, <1>8, <1>9 DEF Next

\* What the state machine knows of its buzzer and of its last ring.
LEMMA RingStep == IInv /\ [Next]_vars => (LoopsOnlyWhileRinging /\ RingHasKey)'
<1> SUFFICES ASSUME IInv, [Next]_vars PROVE (LoopsOnlyWhileRinging /\ RingHasKey)'
  OBVIOUS
<1>0. TypeOK /\ LoopsOnlyWhileRinging /\ RingHasKey
  BY DEF IInv
<1> USE <1>0 DEF LoopsOnlyWhileRinging, RingHasKey
<1>1. CASE Tick
  <2>1. CASE Fire
    <3>1. wall # NoKey
      BY DEF TypeOK, Minutes, NoKey
    <3> QED BY <2>1, <3>1 DEF Fire, StartRinging
  <2> QED
    BY <1>1, <2>1 DEF Tick, TickDisabled, TickEnabled, SnoozeOver, KeepRinging, Wait,
                      StartRinging, TypeOK
<1>2. CASE Snooze
  BY <1>2 DEF Snooze
<1>3. CASE Dismiss
  BY <1>3 DEF Dismiss
<1>4. CASE Preview
  BY <1>4 DEF Preview
<1>5. CASE MelodyEnds
  BY <1>5 DEF MelodyEnds
<1>6. CASE Minute
  BY <1>6 DEF Minute
<1>7. ASSUME NEW n \in 1 .. MaxBack, PutBack(n)
      PROVE  (LoopsOnlyWhileRinging /\ RingHasKey)'
  BY <1>7 DEF PutBack
<1>8. ASSUME NEW c \in Configs, Edit(c) PROVE (LoopsOnlyWhileRinging /\ RingHasKey)'
  BY <1>8 DEF Edit
<1>9. CASE UNCHANGED vars
  BY <1>9 DEF vars
<1> QED
  BY <1>1, <1>2, <1>3, <1>4, <1>5, <1>6, <1>7, <1>8, <1>9 DEF Next

\* An alarm that goes off, goes off later than ever before.
LEMMA FiresLater ==
  ASSUME IInv, Fire
  PROVE  wall \notin rung /\ (rung # {} => s_fired_key < wall)
<1>1. /\ wall \in Nat /\ behind \in Nat /\ behind < DayLen
      /\ DayLen \in Nat \ {0} /\ cfg.at = wall % DayLen /\ wall # s_fired_key
  BY AlarmConstants DEF IInv, TypeOK, Fire, ShouldFire, TimeMatches, Minutes
<1>2. ASSUME rung # {} PROVE s_fired_key < wall
  <2>1. /\ s_fired_key \in Nat /\ s_fired_key <= wall + behind
        /\ s_fired_key % DayLen = cfg.at
    BY <1>2 DEF IInv, TypeOK, KeyIsLatest, Minutes
  <2>2. ASSUME wall < s_fired_key PROVE FALSE
    <3>1. wall + DayLen <= s_fired_key
      BY <1>1, <2>1, <2>2, DayApart
    <3> QED BY <1>1, <2>1, <3>1
  <2> QED BY <1>1, <2>1, <2>2
<1>3. \A r \in rung : r \in Nat /\ r <= s_fired_key
  BY DEF IInv, TypeOK, KeyIsLatest, Minutes
<1>4. rung # {} => s_fired_key \in Nat
  BY DEF IInv, TypeOK, KeyIsLatest, Minutes
<1> QED BY <1>1, <1>2, <1>3, <1>4

LEMMA KeyStep == IInv /\ [Next]_vars => KeyIsLatest'
<1> SUFFICES ASSUME IInv, [Next]_vars PROVE KeyIsLatest'
  OBVIOUS
<1>0. TypeOK /\ KeyIsLatest
  BY DEF IInv
<1>1. CASE Tick
  <2>1. CASE Fire
    <3>1. /\ rung' = rung \cup {wall} /\ s_fired_key' = wall
          /\ UNCHANGED <<wall, behind, cfg>>
      BY <1>1, <2>1 DEF Tick, Fire
    <3>2. wall \in Nat /\ behind \in Nat /\ cfg.at = wall % DayLen
      BY <1>0, <2>1, AlarmConstants DEF TypeOK, Minutes, Fire, ShouldFire, TimeMatches
    <3>3. \A r \in rung : r \in Nat /\ r < wall /\ r % DayLen = cfg.at
      <4>1. rung # {} => s_fired_key \in Nat /\ s_fired_key < wall
        BY <1>0, <2>1, FiresLater DEF TypeOK, KeyIsLatest, Minutes
      <4>2. \A r \in rung : r \in Nat /\ r <= s_fired_key /\ r % DayLen = cfg.at
        BY <1>0 DEF TypeOK, KeyIsLatest, Minutes
      <4> QED BY <3>2, <4>1, <4>2
    <3>4. \A r \in rung' : r <= wall /\ r % DayLen = cfg.at
      BY <3>1, <3>2, <3>3
    <3> QED BY <3>1, <3>2, <3>4 DEF KeyIsLatest
  <2>2. CASE UNCHANGED <<s_fired_key, rung>>
    BY <1>0, <1>1, <2>2 DEF Tick, KeyIsLatest
  <2> QED
    BY <1>1, <2>1, <2>2 DEF Tick, TickDisabled, TickEnabled, SnoozeOver, KeepRinging, Wait
<1>2. CASE Snooze
  BY <1>0, <1>2 DEF Snooze, KeyIsLatest
<1>3. CASE Dismiss
  BY <1>0, <1>3 DEF Dismiss, KeyIsLatest
<1>4. CASE Preview
  BY <1>0, <1>4 DEF Preview, KeyIsLatest
<1>5. CASE MelodyEnds
  BY <1>0, <1>5 DEF MelodyEnds, KeyIsLatest
<1>6. CASE Minute
  <2>1. wall + behind <= wall' + behind'
    BY <1>0, <1>6, AlarmConstants DEF Minute, TypeOK, Minutes
  <2>2. ASSUME rung # {} PROVE s_fired_key <= wall' + behind'
    <3>1. wall + behind \in Int /\ wall' + behind' \in Int
      BY <1>0, <1>6, AlarmConstants DEF Minute, TypeOK, Minutes
    <3>2. s_fired_key \in Int /\ s_fired_key <= wall + behind
      BY <1>0, <2>2 DEF TypeOK, Minutes, KeyIsLatest
    <3> QED BY <2>1, <3>1, <3>2, LeqTransitive
  <2> QED BY <1>0, <1>6, <2>2 DEF Minute, KeyIsLatest
<1>7. ASSUME NEW n \in 1 .. MaxBack, PutBack(n) PROVE KeyIsLatest'
  <2>1. wall' + behind' = wall + behind
    BY <1>0, <1>7, AlarmConstants DEF PutBack, TypeOK, Minutes
  <2> QED BY <1>0, <1>7, <2>1 DEF PutBack, KeyIsLatest
<1>8. ASSUME NEW c \in Configs, Edit(c) PROVE KeyIsLatest'
  <2>1. cfg' = c /\ rung' = (IF c.at = cfg.at THEN rung ELSE {})
        /\ UNCHANGED <<wall, behind, s_fired_key>>
    BY <1>8 DEF Edit
  <2> QED BY <1>0, <2>1 DEF KeyIsLatest
<1>9. CASE UNCHANGED vars
  BY <1>0, <1>9 DEF vars, KeyIsLatest
<1> QED
  BY <1>1, <1>2, <1>3, <1>4, <1>5, <1>6, <1>7, <1>8, <1>9 DEF Next

LEMMA DismissalStep == IInv /\ [Next]_vars => (DismissalOfLastRing /\ HushedIsDismissed)'
<1> SUFFICES ASSUME IInv, [Next]_vars
             PROVE  (DismissalOfLastRing /\ HushedIsDismissed)'
  OBVIOUS
<1>0. TypeOK /\ DismissalOfLastRing /\ HushedIsDismissed
  BY DEF IInv
<1> USE <1>0 DEF DismissalOfLastRing, HushedIsDismissed
<1>1. CASE Tick
  <2>1. UNCHANGED <<wall, hushed>> /\ s_dismiss_yday' \in {s_dismiss_yday, NoDay}
    BY <1>1 DEF Tick, ClearDismissal
  <2>2. hushed # NoDay => s_dismiss_yday' = hushed
    BY <1>1 DEF Tick, ClearDismissal
  <2>3. s_dismiss_yday' # NoDay => s_fired_key' = s_fired_key
    <3>1. s_dismiss_yday' # NoDay => Day(wall) = s_dismiss_yday'
      BY <1>1 DEF Tick, ClearDismissal
    <3> QED
      BY <1>1, <3>1 DEF Tick, TickDisabled, TickEnabled, Fire, ShouldFire, SnoozeOver,
                        KeepRinging, Wait
  <2> QED BY <2>1, <2>2, <2>3 DEF Day
<1>2. CASE Snooze
  BY <1>2 DEF Snooze, Day
<1>3. CASE Dismiss
  BY <1>3 DEF Dismiss, DismissedDay, Day
<1>4. CASE Preview
  BY <1>4 DEF Preview, Day
<1>5. CASE MelodyEnds
  BY <1>5 DEF MelodyEnds, Day
<1>6. CASE Minute
  <2>1. UNCHANGED <<s_dismiss_yday, s_fired_key>> /\ wall' = wall + 1
    BY <1>6 DEF Minute
  <2>2. hushed' = IF Day(wall') = Day(wall) THEN hushed ELSE NoDay
    BY <1>6 DEF Minute
  <2> QED BY <2>1, <2>2 DEF Day
<1>7. ASSUME NEW n \in 1 .. MaxBack, PutBack(n)
      PROVE  (DismissalOfLastRing /\ HushedIsDismissed)'
  <2>1. UNCHANGED <<s_dismiss_yday, s_fired_key>>
    BY <1>7 DEF PutBack
  <2>2. hushed' = IF Day(wall') = Day(wall) THEN hushed ELSE NoDay
    BY <1>7 DEF PutBack
  <2> QED BY <2>1, <2>2 DEF Day
<1>8. ASSUME NEW c \in Configs, Edit(c)
      PROVE  (DismissalOfLastRing /\ HushedIsDismissed)'
  BY <1>8 DEF Edit, Day
<1>9. CASE UNCHANGED vars
  BY <1>9 DEF vars, Day
<1> QED
  BY <1>1, <1>2, <1>3, <1>4, <1>5, <1>6, <1>7, <1>8, <1>9 DEF Next

LEMMA MissedStep == IInv /\ [Next]_vars => NoOccurrenceMissed'
<1> SUFFICES ASSUME IInv, [Next]_vars PROVE NoOccurrenceMissed'
  OBVIOUS
<1>0. TypeOK /\ NoOccurrenceMissed /\ DismissalOfLastRing
  BY DEF IInv
<1> USE <1>0 DEF NoOccurrenceMissed
<1>1. CASE Tick
  <2>0. UNCHANGED <<wall, cfg>>
    BY <1>1 DEF Tick
  <2>1. CASE TickDisabled
    BY <2>0, <2>1 DEF TickDisabled
  <2>2. CASE Fire \/ SnoozeOver \/ KeepRinging
    BY <2>2 DEF Fire, SnoozeOver, KeepRinging, StartRinging
  <2>3. CASE Wait
    <3>1. CASE s_state = "snoozed"
      BY <2>3, <3>1 DEF Wait
    <3>2. CASE ~ShouldFire
      <4>1. UNCHANGED s_fired_key
        BY <2>3 DEF Wait
      <4>2. s_dismiss_yday' = Day(wall) => s_dismiss_yday = Day(wall)
        <5>1. Day(wall) # NoDay
          BY DayType DEF TypeOK
        <5> QED BY <1>1, <5>1 DEF Tick, ClearDismissal
      <4>3. s_dismiss_yday = Day(wall) => Day(s_fired_key) = Day(wall)
        BY DayType DEF TypeOK, DismissalOfLastRing
      <4> QED BY <2>0, <3>2, <4>1, <4>2, <4>3 DEF ShouldFire, TimeMatches, Day
    <3> QED BY <2>3, <3>1, <3>2 DEF Wait
  <2> QED BY <1>1, <2>1, <2>2, <2>3 DEF Tick, TickEnabled
<1>2. CASE Snooze
  BY <1>2 DEF Snooze
<1>3. CASE Dismiss
  BY <1>3 DEF Dismiss
<1>4. CASE Preview
  BY <1>4 DEF Preview, TimeMatches, Day
<1>5. CASE MelodyEnds
  BY <1>5 DEF MelodyEnds, TimeMatches, Day
<1>6. CASE Minute
  BY <1>6 DEF Minute
<1>7. ASSUME NEW n \in 1 .. MaxBack, PutBack(n) PROVE NoOccurrenceMissed'
  BY <1>7 DEF PutBack
<1>8. ASSUME NEW c \in Configs, Edit(c) PROVE NoOccurrenceMissed'
  BY <1>8 DEF Edit
<1>9. CASE UNCHANGED vars
  BY <1>9 DEF vars, TimeMatches, Day
<1> QED
  BY <1>1, <1>2, <1>3, <1>4, <1>5, <1>6, <1>7, <1>8, <1>9 DEF Next

\* The invariant holds throughout: alarm_tick and the commands keep it.
THEOREM Invariance == Spec => []IInv
<1>1. IInv /\ [Next]_vars => IInv'
  BY TypeStep, RingStep, KeyStep, DismissalStep, MissedStep DEF IInv
<1> QED BY <1>1, InitHolds, PTL DEF Spec

\* Every variable of the alarm keeps its range.
THEOREM TypeCorrect == Spec => []TypeOK
<1>1. IInv => TypeOK
  BY DEF IInv
<1> QED BY <1>1, Invariance, PTL

\* The looping melody is on only while the state is RINGING.
THEOREM LoopOnlyInRinging == Spec => []LoopsOnlyWhileRinging
<1>1. IInv => LoopsOnlyWhileRinging
  BY DEF IInv
<1> QED BY <1>1, Invariance, PTL

\* Whatever was snoozed, dismissed, edited or put back, the loop misses no
\* occurrence.
THEOREM NothingMissed == Spec => []NoOccurrenceMissed
<1>1. IInv => NoOccurrenceMissed
  BY DEF IInv
<1> QED BY <1>1, Invariance, PTL

-----------------------------------------------------------------------------
(* Action properties. *)

LEMMA BeginsIsFire == ASSUME IInv, [Next]_vars, Begins PROVE Tick /\ Fire
<1>1. ~(UNCHANGED vars)
  BY DEF vars, Begins
<1>2. Next
  BY <1>1
<1>3. Tick
  BY <1>2 DEF Next, Begins, Snooze, Dismiss, Preview, MelodyEnds, Minute, PutBack, Edit
<1> QED
  BY <1>3 DEF Begins, Tick, TickDisabled, TickEnabled, SnoozeOver, KeepRinging, Wait

\* No minute rings twice: the s_fired_key guard of alarm_tick suffices as long
\* as corrections stay below a day.
THEOREM OncePerOccurrence == Spec => RingsOncePerOccurrence
<1>1. IInv /\ [Next]_vars => [Begins => wall \notin rung]_vars
  BY BeginsIsFire, FiresLater
<1> QED BY <1>1, Invariance, PTL DEF Spec, RingsOncePerOccurrence

\* A dismissal lasts for its day.
THEOREM DismissalLasts == Spec => DismissedUntilMidnight
<1>1. ASSUME IInv, [Next]_vars, Begins PROVE Day(wall) # hushed
  <2>1. Tick /\ Fire
    BY <1>1, BeginsIsFire
  <2>2. Day(wall) # s_dismiss_yday
    <3>1. Day(wall) # NoDay
      BY <1>1, DayType DEF IInv, TypeOK
    <3> QED BY <2>1, <3>1 DEF Tick, ClearDismissal, Fire, ShouldFire
  <2> QED BY <1>1, <2>2, DayType DEF IInv, TypeOK, HushedIsDismissed
<1>2. IInv /\ [Next]_vars => [Begins => Day(wall) # hushed]_vars
  BY <1>1
<1> QED BY <1>2, Invariance, PTL DEF Spec, DismissedUntilMidnight

-----------------------------------------------------------------------------
(* The refinement of AlarmPromise. *)

\* The alarm, seen through its phase and its last key, is the promise.
THEOREM Refinement == Spec => KeepsPromise
<1>1. Init => Promise!Init
  BY DEF Init, Promise!Init, Phase
<1>2. IInv /\ [Next]_vars => [Promise!Next]_<<Phase, s_fired_key>>
  <2> SUFFICES ASSUME IInv, [Next]_vars
               PROVE  Promise!Next \/ UNCHANGED <<Phase, s_fired_key>>
    OBVIOUS
  <2>0. TypeOK
    BY DEF IInv
  <2> USE DEF Phase
  <2>1. CASE Tick
    <3>1. CASE TickDisabled
      BY <2>0, <3>1 DEF TickDisabled, TypeOK, Promise!Next, Promise!Quiet
    <3>2. CASE Fire
      <4>1. Promise!Sound(wall)
        BY <3>2 DEF Fire, ShouldFire, StartRinging, Promise!Sound
      <4> QED BY <2>0, <4>1 DEF Promise!Next, TypeOK
    <3>3. CASE SnoozeOver
      BY <3>3 DEF SnoozeOver, StartRinging, Promise!Next, Promise!Resume
    <3>4. CASE KeepRinging \/ Wait
      BY <3>4 DEF KeepRinging, Wait
    <3> QED BY <2>1, <3>1, <3>2, <3>3, <3>4 DEF Tick, TickEnabled
  <2>2. CASE Snooze
    BY <2>2 DEF Snooze, Promise!Next, Promise!Pause
  <2>3. CASE Dismiss
    BY <2>0, <2>3 DEF Dismiss, TypeOK, Promise!Next, Promise!Quiet
  <2>4. CASE Preview \/ MelodyEnds \/ Minute
    BY <2>4 DEF Preview, MelodyEnds, Minute
  <2>5. ASSUME NEW n \in 1 .. MaxBack, PutBack(n) PROVE UNCHANGED <<Phase, s_fired_key>>
    BY <2>5 DEF PutBack
  <2>6. ASSUME NEW c \in Configs, Edit(c) PROVE UNCHANGED <<Phase, s_fired_key>>
    BY <2>6 DEF Edit
  <2>7. CASE UNCHANGED vars
    BY <2>7 DEF vars
  <2> QED BY <2>1, <2>2, <2>3, <2>4, <2>5, <2>6, <2>7 DEF Next
<1> QED BY <1>1, <1>2, Invariance, PTL DEF Spec, KeepsPromise, Promise!Spec

-----------------------------------------------------------------------------
(* What the end of a snooze rests on.                                      *)

\* An alarm that is not idle was armed with minutes to snooze, also where the setting is
\* 0; and once the loop has looked, no snooze whose minutes are over goes on.
SnoozeIsArmed == s_state # "idle" => s_snooze_min > 0
NoSnoozeOverdue == seen /\ s_state = "snoozed" => s_snooze_left > 0

LEMMA SnoozeStep ==
  TypeOK /\ SnoozeIsArmed /\ NoSnoozeOverdue /\ [Next]_vars
    => (SnoozeIsArmed /\ NoSnoozeOverdue)'
<1> SUFFICES ASSUME TypeOK, SnoozeIsArmed, NoSnoozeOverdue, [Next]_vars
             PROVE  (SnoozeIsArmed /\ NoSnoozeOverdue)'
  OBVIOUS
<1> USE DEF SnoozeIsArmed, NoSnoozeOverdue
<1>1. CASE Tick
  <2>1. CASE TickDisabled
    BY <2>1 DEF TickDisabled
  <2>2. CASE TickEnabled
    <3>1. s_snooze_min' > 0
      BY <2>2, CfgType, AlarmConstants DEF TickEnabled
    <3>2. s_snooze_left' = s_snooze_left /\ s_snooze_left \in Nat
      BY <1>1 DEF Tick, TypeOK
    <3>3. s_state' = "snoozed" => s_state = "snoozed" /\ ~SnoozeExpired
      BY <2>2 DEF TickEnabled, Fire, SnoozeOver, KeepRinging, Wait, StartRinging
    <3> QED
      BY <3>1, <3>2, <3>3 DEF SnoozeExpired
  <2> QED
    BY <1>1, <2>1, <2>2 DEF Tick
<1>2. CASE Snooze
  BY <1>2 DEF Snooze
<1>3. CASE Dismiss
  BY <1>3 DEF Dismiss
<1>4. CASE Preview
  BY <1>4 DEF Preview
<1>5. CASE MelodyEnds
  BY <1>5 DEF MelodyEnds
<1>6. CASE Minute
  BY <1>6 DEF Minute
<1>7. ASSUME NEW n \in 1 .. MaxBack, PutBack(n)
      PROVE  (SnoozeIsArmed /\ NoSnoozeOverdue)'
  BY <1>7 DEF PutBack
<1>8. ASSUME NEW c \in Configs, Edit(c) PROVE (SnoozeIsArmed /\ NoSnoozeOverdue)'
  BY <1>8 DEF Edit
<1>9. CASE UNCHANGED vars
  BY <1>9 DEF vars
<1> QED
  BY <1>1, <1>2, <1>3, <1>4, <1>5, <1>6, <1>7, <1>8, <1>9 DEF Next

\* A snooze is never overdue: alarm_tick ends it in the first turn after its minutes
\* are over, whatever was edited or put back, and a setting of 0 does not make it
\* end where it begins.
THEOREM SnoozesComeDue == Spec => []NoSnoozeOverdue
<1>1. Init => SnoozeIsArmed /\ NoSnoozeOverdue
  BY DEF Init, SnoozeIsArmed, NoSnoozeOverdue
<1> QED
  BY <1>1, SnoozeStep, TypeCorrect, PTL DEF Spec

===============================================================================
