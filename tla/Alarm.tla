--------------------------------- MODULE Alarm ---------------------------------
(***************************************************************************)
(* The alarm state machine (components/alarm) at the grain of its lock:    *)
(* alarm_tick, alarm_snooze and alarm_dismiss are single steps.  The wall  *)
(* clock has a resolution of a minute and may be put back while the alarm  *)
(* is in any state: the hour that repeats at the end of summer time, or a  *)
(* correction by SNTP, a phone or a Shelly sensor.                         *)
(*                                                                         *)
(* The buzzer is reduced to what it was last told to do; AlarmBuzzer has   *)
(* the statements of its calls and of its player task.                     *)
(***************************************************************************)
EXTENDS Integers

CONSTANTS
  DayLen,       \* minutes in a day
  LastMinute,   \* bound: the last minute of the modelled time
  Configs,      \* alarm settings: [enabled, at, dow, snooze]
  DefaultSnooze,\* the snooze used when the setting is 0
  MaxBack,      \* bound: corrections never leave the clock further behind than this
  MaxEvents     \* bound on corrections, edits and previews in a behaviour

ASSUME AlarmConstants ==
  /\ DayLen \in Nat \ {0}
  /\ LastMinute \in Nat
  /\ Configs \subseteq [enabled : BOOLEAN, at : 0 .. DayLen - 1,
                        dow : SUBSET (0 .. 6), snooze : Nat]
  /\ DefaultSnooze \in Nat \ {0}
  /\ MaxBack \in 0 .. DayLen - 1
  /\ MaxEvents \in Nat

VARIABLES
  wall,           \* local time, in minutes since midnight of day 0
  behind,         \* how far corrections have put it behind the latest time it showed
  cfg,            \* the main loop's copy of the settings
  s_state,
  s_snooze_left,  \* s_snooze_until_ms minus the time now, never below 0
  s_snooze_min,
  s_fired_key, s_dismiss_yday,
  buzzer,         \* "off", "ring" (looping) or "preview" (once)
  seen,           \* history: the tick has seen this minute and these settings
  rung,           \* history: minutes at which this alarm time began to ring
  hushed,         \* history: today, once a ring that began today was dismissed
  events

vars == <<wall, behind, cfg, s_state, s_snooze_left, s_snooze_min, s_fired_key,
          s_dismiss_yday, buzzer, seen, rung, hushed, events>>

Minutes == 0 .. LastMinute
Day(minute) == minute \div DayLen
NoKey == -1
NoDay == -1

\* dow_matches: an empty mask is every day
DowMatches(dow, wday) == dow = {} \/ wday \in dow

\* the alarm's minute on a day it rings
TimeMatches(c) ==
  /\ c.at = wall % DayLen
  /\ DowMatches(c.dow, Day(wall) % 7)

Init ==
  /\ wall \in 0 .. DayLen - 1
  /\ wall <= LastMinute
  /\ behind = 0
  /\ cfg \in Configs
  /\ s_state = "idle"
  /\ s_snooze_left = 0
  /\ s_snooze_min = 0
  /\ s_fired_key = NoKey
  /\ s_dismiss_yday = NoDay
  /\ buzzer = "off"
  /\ seen = FALSE
  /\ rung = {}
  /\ hushed = NoDay
  /\ events = 0

-----------------------------------------------------------------------------
(* alarm_tick, on the main loop. *)

\* A new day clears the "dismissed today" suppression.
ClearDismissal ==
  s_dismiss_yday' = IF Day(wall) # s_dismiss_yday THEN NoDay ELSE s_dismiss_yday

StartRinging == s_state' = "ringing" /\ buzzer' = "ring"

TickDisabled ==
  /\ ~cfg.enabled
  /\ s_state' = "idle"
  /\ buzzer' = IF s_state # "idle" THEN "off" ELSE buzzer
  /\ UNCHANGED <<s_snooze_min, s_fired_key, rung>>

\* ShouldFire without the s_fired_key guard
ShouldFireAgain == TimeMatches(cfg) /\ Day(wall) # s_dismiss_yday'

ShouldFire ==
  /\ TimeMatches(cfg)
  /\ wall # s_fired_key
  /\ Day(wall) # s_dismiss_yday'

Fire ==
  /\ s_state = "idle"
  /\ ShouldFire
  /\ s_fired_key' = wall
  /\ rung' = rung \cup {wall}
  /\ StartRinging

\* SnoozeExpired with the time match of the idle state asked of it too
SnoozeExpiredOnTime == s_snooze_left = 0 /\ TimeMatches(cfg)
SnoozeExpired == s_snooze_left = 0

SnoozeOver ==
  /\ s_state = "snoozed"
  /\ SnoozeExpired
  /\ StartRinging
  /\ UNCHANGED <<s_fired_key, rung>>

\* the buzzer task stopped: ring again
KeepRinging ==
  /\ s_state = "ringing"
  /\ buzzer' = IF buzzer = "off" THEN "ring" ELSE buzzer
  /\ UNCHANGED <<s_state, s_fired_key, rung>>

Wait ==
  /\ \/ s_state = "idle" /\ ~ShouldFire
     \/ s_state = "snoozed" /\ ~SnoozeExpired
  /\ UNCHANGED <<s_state, buzzer, s_fired_key, rung>>

TickEnabled ==
  /\ cfg.enabled
  /\ s_snooze_min' = IF cfg.snooze = 0 THEN DefaultSnooze ELSE cfg.snooze
  /\ Fire \/ SnoozeOver \/ KeepRinging \/ Wait

Tick ==
  /\ ClearDismissal
  /\ TickDisabled \/ TickEnabled
  /\ seen' = TRUE
  /\ UNCHANGED <<wall, behind, cfg, s_snooze_left, hushed, events>>

-----------------------------------------------------------------------------
(* Commands: a button on the main loop, the web page, MQTT. *)

\* Snooze without its early return
SnoozeAnytime ==
  /\ buzzer' = "off"
  /\ s_snooze_left' = s_snooze_min
  /\ s_state' = "snoozed"
  /\ UNCHANGED <<wall, behind, cfg, s_snooze_min, s_fired_key, s_dismiss_yday, seen,
                 rung, hushed, events>>

Snooze ==
  /\ s_state = "ringing"
  /\ buzzer' = "off"
  /\ s_snooze_left' = s_snooze_min
  /\ s_state' = "snoozed"
  /\ UNCHANGED <<wall, behind, cfg, s_snooze_min, s_fired_key, s_dismiss_yday, seen, rung,
                 hushed, events>>

\* two mistakes: today instead of the day the ring began, nothing at all
DismissToday == Day(wall)
DismissNothing == NoDay
\* the day s_dismiss_yday is set to: the day the ring began
DismissedDay == Day(s_fired_key)

Dismiss ==
  /\ s_state # "idle"
  /\ buzzer' = "off"
  /\ s_state' = "idle"
  /\ s_dismiss_yday' = DismissedDay
  /\ hushed' = IF Day(wall) = Day(s_fired_key) THEN Day(wall) ELSE NoDay
  /\ seen' = FALSE
  /\ UNCHANGED <<wall, behind, cfg, s_snooze_left, s_snooze_min, s_fired_key, rung, events>>

\* alarm_preview_melody takes no lock and asks nothing of the state
Preview ==
  /\ events < MaxEvents
  /\ events' = events + 1
  /\ buzzer' = "preview"
  /\ UNCHANGED <<wall, behind, cfg, s_state, s_snooze_left, s_snooze_min, s_fired_key,
                 s_dismiss_yday, seen, rung, hushed>>

-----------------------------------------------------------------------------
(* The rest of the clock. *)

\* A melody that does not loop ends.
MelodyEnds ==
  /\ buzzer = "preview"
  /\ buzzer' = "off"
  /\ UNCHANGED <<wall, behind, cfg, s_state, s_snooze_left, s_snooze_min, s_fired_key,
                 s_dismiss_yday, seen, rung, hushed, events>>

\* A minute goes by.  The loop runs every 50 ms, so it has seen this one.
Minute ==
  /\ seen
  /\ wall < LastMinute
  /\ wall' = wall + 1
  /\ behind' = IF behind = 0 THEN 0 ELSE behind - 1
  /\ s_snooze_left' = IF s_snooze_left = 0 THEN 0 ELSE s_snooze_left - 1
  /\ seen' = FALSE
  /\ hushed' = IF Day(wall + 1) = Day(wall) THEN hushed ELSE NoDay
  /\ UNCHANGED <<cfg, s_state, s_snooze_min, s_fired_key, s_dismiss_yday, buzzer,
                 rung, events>>

PutBack(n) ==
  /\ events < MaxEvents
  /\ n <= wall
  /\ behind + n <= MaxBack
  /\ events' = events + 1
  /\ wall' = wall - n
  /\ behind' = behind + n
  /\ seen' = FALSE
  /\ hushed' = IF Day(wall - n) = Day(wall) THEN hushed ELSE NoDay
  /\ UNCHANGED <<cfg, s_state, s_snooze_left, s_snooze_min, s_fired_key,
                 s_dismiss_yday, buzzer, rung>>

\* The main loop picks up an edit of the alarm settings.
Edit(c) ==
  /\ events < MaxEvents
  /\ c # cfg
  /\ events' = events + 1
  /\ cfg' = c
  /\ rung' = IF c.at = cfg.at THEN rung ELSE {}
  /\ seen' = FALSE
  /\ UNCHANGED <<wall, behind, s_state, s_snooze_left, s_snooze_min, s_fired_key,
                 s_dismiss_yday, buzzer, hushed>>

Next ==
  \/ Tick
  \/ Snooze
  \/ Dismiss
  \/ Preview
  \/ MelodyEnds
  \/ Minute
  \/ \E n \in 1 .. MaxBack : PutBack(n)
  \/ \E c \in Configs : Edit(c)

Spec == Init /\ [][Next]_vars

\* The main loop keeps ticking, time goes by and melodies end; nobody has to
\* press a button.
FairSpec == Spec /\ WF_vars(Tick) /\ WF_vars(Minute) /\ WF_vars(MelodyEnds)

-----------------------------------------------------------------------------
(* Properties. *)

\* Keys and days are those of minutes the clock has shown.
TypeOK ==
  /\ wall \in Minutes
  /\ behind \in 0 .. MaxBack
  /\ cfg \in Configs
  /\ s_state \in {"idle", "ringing", "snoozed"}
  /\ s_snooze_left \in Nat
  /\ s_snooze_min \in Nat
  /\ s_fired_key \in Minutes \cup {NoKey}
  /\ s_dismiss_yday \in 0 .. Day(LastMinute) \cup {NoDay}
  /\ buzzer \in {"off", "ring", "preview"}
  /\ seen \in BOOLEAN
  /\ rung \subseteq Minutes
  /\ hushed \in 0 .. Day(LastMinute) \cup {NoDay}
  /\ events \in 0 .. MaxEvents

\* The looping melody sounds only while the alarm rings: no path leaves the
\* ringing state with the buzzer told to loop.
LoopsOnlyWhileRinging == buzzer = "ring" => s_state = "ringing"

Begins == s_state = "idle" /\ s_state' = "ringing"

\* An occurrence begins to ring once, also when the clock is put back over it
\* or the alarm is switched off and on in its minute.
RingsOncePerOccurrence == [][Begins => wall \notin rung]_vars

\* After a dismissal the alarm does not begin to ring again before that day is
\* over, even if it is set to a later time or switched off and on.
DismissedUntilMidnight == [][Begins => Day(wall) # hushed]_vars

\* No occurrence is missed: once the loop has looked at the alarm's minute, the
\* alarm is ringing or snoozed, or the last ring began at this very minute, or
\* it began today and was dismissed.  Dismissing yesterday's ring after midnight
\* does not silence today's.
NoOccurrenceMissed ==
  seen /\ cfg.enabled /\ TimeMatches(cfg) =>
    \/ s_state # "idle"
    \/ s_fired_key = wall
    \/ s_dismiss_yday = Day(wall) /\ Day(s_fired_key) = Day(wall)

\* A snooze ends when its minutes are over (if they end within the modelled
\* time): the alarm rings again, unless it was dismissed or disabled meanwhile.
SnoozeEnds ==
  s_state = "snoozed" /\ wall + s_snooze_left <= LastMinute ~> s_state # "snoozed"

Phase ==
  CASE s_state = "idle" -> "quiet"
    [] s_state = "ringing" -> "sounding"
    [] s_state = "snoozed" -> "paused"

Promise ==
  INSTANCE AlarmPromise WITH phase <- Phase, last <- s_fired_key,
                             Occurrences <- Minutes, None <- NoKey

\* The state machine with its clock and guards does what AlarmPromise says.
KeepsPromise == Promise!Spec

===============================================================================
