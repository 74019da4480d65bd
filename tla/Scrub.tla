--------------------------------- MODULE Scrub ---------------------------------
(***************************************************************************)
(* The anti-poison scrub (components/antipoison) and the frames of the     *)
(* main loop that give it the tubes and their brightness, and take them    *)
(* back.  A frame is a step: the main loop alone owns the tubes.  Other    *)
(* tasks only raise the trigger request, ring or dismiss the alarm and     *)
(* change the settings or the light the brightness is computed from.       *)
(*                                                                         *)
(* Time is the position in the minute, Sub frames to a second.  What a     *)
(* frame draws is reduced to whether the scrub, the ringing time or the    *)
(* rest of the clock drew it; the animations are left out.                 *)
(***************************************************************************)
EXTENDS Integers, FiniteSets, FiniteSetsExt

CONSTANTS
  Seconds,      \* in a minute
  Sub,          \* frames in a second
  Scheds,       \* settings: [pause, windows, duration, period]
  Levels,       \* brightness the settings can ask for
  BootLevel,    \* the driver's own, until the first frame
  Full          \* SCRUB_LEVEL

\* A window is a temp or date interlude that is enabled and has a source.
Windows == [start : 0 .. Seconds - 1, len : Nat]

ASSUME ScrubConstants ==
  /\ Seconds \in Nat \ {0}
  /\ Sub \in Nat \ {0}
  /\ Scheds \subseteq [pause : BOOLEAN, windows : SUBSET Windows,
                       duration : Nat \ {0}, period : Nat]
  /\ Levels \subseteq Nat
  /\ BootLevel \in Nat
  /\ Full \in Nat

VARIABLES
  now,            \* frames since the minute began
  sched,          \* the settings of the scrub, in use throughout
  valid,          \* the time is known
  ringing,
  level,          \* settings_brightness_for of now
  tubes,          \* the driver's brightness
  last_level,     \* the main loop's record of what it pushed last, or NoLevel
  s_active, s_waiting, s_trigger_req, s_saved_level,
  running,        \* now_ms - s_started_ms, up to the duration
  rested,         \* now_ms - s_last_run_ms, up to the period
  drawn,          \* history: who drew the last frame
  manual,         \* history: this run was triggered
  rungOver,       \* history: the alarm drew over this run
  held            \* history: consecutive frames in which a due run was refused

scrub == <<s_active, s_waiting, s_saved_level, running, rested>>
history == <<drawn, manual, rungOver, held>>
vars == <<now, sched, valid, ringing, level, tubes, last_level, scrub, s_trigger_req,
          history>>

NoLevel == -1
Frames == Seconds * Sub

Init ==
  /\ now \in 0 .. Frames - 1
  /\ sched \in Scheds
  /\ valid \in BOOLEAN
  /\ ringing = FALSE
  /\ level \in Levels
  /\ tubes = BootLevel
  /\ last_level = NoLevel
  /\ s_active = FALSE
  /\ s_waiting = FALSE
  /\ s_trigger_req = FALSE
  /\ s_saved_level = 0
  /\ running = 0
  /\ rested = 0
  /\ drawn = "clock"
  /\ manual = FALSE
  /\ rungOver = FALSE
  /\ held = 0

-----------------------------------------------------------------------------
(* scrub_may_start, a function of the settings and the second *)

InWindow(sec, w) == \E i \in 0 .. w.len - 1 : sec = (w.start + i) % Seconds
Minute == 0 .. Seconds - 1
BusySeconds == [c \in Scheds |-> {sec \in Minute : \E w \in c.windows : InWindow(sec, w)}]
Busy(c, sec) == sec % Seconds \in BusySeconds[c]

\* seconds touched by a run that starts part-way into one, and the same with the
\* part forgotten
NeedWhole(c) == (c.duration + Sub - 1) \div Sub
Need(c) == (c.duration + Sub - 1) \div Sub + 1

\* the first seconds of the free stretches, and their lengths
Starts(c) == {sec \in Minute : ~Busy(c, sec) /\ Busy(c, sec + Seconds - 1)}
FreeLen(c, sec) ==
  CHOOSE n \in 1 .. Seconds :
    Busy(c, sec + n) /\ \A i \in 0 .. n - 1 : ~Busy(c, sec + i)
BestLen == [c \in Scheds |-> Max({0} \cup {FreeLen(c, sec) : sec \in Starts(c)})]
BestStart(c) == Min({sec \in Starts(c) : FreeLen(c, sec) = BestLen[c]})

Choosy(c) == c.pause /\ BusySeconds[c] \notin {{}, Minute}
Fits(c) == Need(c) <= BestLen[c]

\* where no gap is long enough, the run waits for one all the same
NeverLongest(c, sec) == FALSE
Longest(c, sec) == sec = BestStart(c)

MayStart ==
  [c \in Scheds |-> [sec \in Minute |->
     Choosy(c) => IF Fits(c)
                  THEN \A i \in 0 .. Need(c) - 1 : ~Busy(c, sec + i)
                  ELSE Longest(c, sec)]]

-----------------------------------------------------------------------------
(* antipoison_tick and the frame it is called from. *)

Next1(n, limit) == IF n < limit THEN n + 1 ELSE limit

Now == (now + 1) % Frames
Sec == Now \div Sub
Running == Next1(running, sched.duration)
Rested == Next1(rested, sched.period)

Due == sched.period > 0 /\ Rested >= sched.period
\* Begins without the else: a due run starts over for as long as it lasts
BeginsOver == s_trigger_req \/ (Due /\ MayStart[sched][Sec])
Begins == s_trigger_req \/ (~s_active /\ Due /\ MayStart[sched][Sec])
Refused == ~Begins /\ ~s_active /\ Due
Elapsed == IF Begins THEN 0 ELSE Running

\* begin: "a restart mid-run must not save the scrub level"
SavesAlways == TRUE
Saves == ~s_active

\* The frame's time passes.
Passes ==
  /\ now' = Now
  /\ rested' = Rested
  /\ UNCHANGED <<sched, valid, ringing, level>>

\* What the main loop notes of the brightness in a frame the scrub drew: that
\* it has to be pushed again, or nothing.
KeepsNote == last_level
ForgetsNote == NoLevel

ScrubFrame ==
  /\ valid /\ ~ringing
  /\ Begins \/ (s_active /\ Running < sched.duration)
  /\ Passes
  /\ running' = Elapsed
  /\ s_trigger_req' = FALSE
  /\ s_active' = TRUE
  /\ s_waiting' = IF Begins THEN FALSE ELSE s_waiting
  /\ s_saved_level' = IF Begins /\ Saves THEN tubes ELSE s_saved_level
  /\ tubes' = IF Begins THEN Full ELSE tubes
  /\ last_level' = ForgetsNote
  /\ drawn' = "scrub"
  /\ manual' = IF Begins THEN s_trigger_req ELSE manual
  /\ rungOver' = IF Begins THEN FALSE ELSE rungOver
  /\ held' = 0

\* "if (level != last_level) nixie_set_brightness(level)"
Push(before) ==
  /\ tubes' = IF level # last_level THEN level ELSE before
  /\ last_level' = level

\* The run is over; the same frame draws the clock again.
LastScrubFrame ==
  /\ valid /\ ~ringing
  /\ ~Begins
  /\ s_active
  /\ Running >= sched.duration
  /\ now' = Now
  /\ rested' = 0
  /\ s_active' = FALSE
  /\ Push(s_saved_level)
  /\ drawn' = "clock"
  /\ running' = Running
  /\ held' = 0
  /\ UNCHANGED <<sched, valid, ringing, level, s_waiting, s_trigger_req, s_saved_level,
                 manual, rungOver>>

ClockFrame ==
  /\ valid /\ ~ringing
  /\ ~Begins
  /\ ~s_active
  /\ Passes
  /\ Push(tubes)
  /\ s_waiting' = (sched.period > 0 /\ (Refused \/ s_waiting))
  /\ drawn' = "clock"
  /\ held' = IF Refused THEN held + 1 ELSE 0
  /\ UNCHANGED <<s_active, s_saved_level, running, s_trigger_req, manual, rungOver>>

\* The time is not known or the alarm rings: the scrub is not ticked at all.
OtherFrame ==
  /\ ~valid \/ ringing
  /\ Passes
  /\ running' = IF s_active THEN Running ELSE running
  /\ Push(tubes)
  /\ drawn' = IF ringing THEN "ring" ELSE "clock"
  /\ rungOver' = (rungOver \/ s_active)
  /\ held' = 0
  /\ UNCHANGED <<s_active, s_waiting, s_saved_level, s_trigger_req, manual>>

Frame == ScrubFrame \/ LastScrubFrame \/ ClockFrame \/ OtherFrame

-----------------------------------------------------------------------------
(* Between the frames. *)

\* antipoison_trigger, from a button, the web page or MQTT
Trigger ==
  /\ s_trigger_req' = TRUE
  /\ UNCHANGED <<now, sched, valid, ringing, level, tubes, last_level, scrub, history>>

\* The alarm goes off, is snoozed, dismissed or disabled.
RingChanges ==
  /\ valid
  /\ ringing' = ~ringing
  /\ UNCHANGED <<now, sched, valid, level, tubes, last_level, scrub, s_trigger_req, history>>

LevelChanges(l) ==
  /\ l # level
  /\ level' = l
  /\ UNCHANGED <<now, sched, valid, ringing, tubes, last_level, scrub, s_trigger_req, history>>

TimeIsSet ==
  /\ ~valid
  /\ valid' = TRUE
  /\ UNCHANGED <<now, sched, ringing, level, tubes, last_level, scrub, s_trigger_req, history>>

Next ==
  \/ Frame
  \/ Trigger
  \/ RingChanges
  \/ \E l \in Levels : LevelChanges(l)
  \/ TimeIsSet

Spec == Init /\ [][Next]_vars

\* The main loop draws frames for ever: only a frame changes now.
FairSpec == Spec /\ []<><<TRUE>>_now

-----------------------------------------------------------------------------
(* Properties. *)

\* brightness that is the clock's own, not the scrub's (unless they are equal)
ClockLevels == Levels \cup {BootLevel, 0}

\* What a run saves and what the clock pushes is never the level of the scrub.
TypeOK ==
  /\ now \in 0 .. Frames - 1
  /\ sched \in Scheds
  /\ valid \in BOOLEAN
  /\ ringing \in BOOLEAN
  /\ level \in Levels
  /\ tubes \in ClockLevels \cup {Full}
  /\ last_level \in Levels \cup {NoLevel}
  /\ s_active \in BOOLEAN
  /\ s_waiting \in BOOLEAN
  /\ s_trigger_req \in BOOLEAN
  /\ s_saved_level \in ClockLevels
  /\ running \in 0 .. sched.duration
  /\ rested \in 0 .. sched.period
  /\ drawn \in {"scrub", "ring", "clock"}
  /\ manual \in BOOLEAN
  /\ rungOver \in BOOLEAN
  /\ held \in Nat

\* "Pause for interludes": an automatic run that found a gap long enough never
\* draws over an interlude, from its first frame to its last.
InterludesKept ==
  drawn = "scrub" /\ ~manual /\ sched.pause /\ Fits(sched) =>
    ~Busy(sched, now \div Sub)

\* "never held back for more than a minute"
HeldAtMostAMinute == held < Frames

\* After a frame of the clock the tubes have the brightness it asked for, and
\* during a run they are at full brightness, as long as no ring cut in.
BrightnessUnlessRungOver ==
  ~rungOver =>
    /\ drawn = "clock" => tubes = last_level \/ last_level = NoLevel
    /\ drawn = "scrub" => tubes = Full

\* A run ends, unless the alarm rings or somebody triggers another one.
RunsEnd == s_active ~> (~s_active \/ ringing \/ s_trigger_req)

===============================================================================
