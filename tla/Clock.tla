--------------------------------- MODULE Clock ---------------------------------
(***************************************************************************)
(* Where the clock has its time from: the system clock, the RTC chip and   *)
(* the epoch saved in flash, the three tasks that set all three of them    *)
(* (SNTP's callback, the web interface and the portal, the Shelly          *)
(* synchronisation of the main loop), and the time zone.                   *)
(*                                                                         *)
(* A time is represented by its distance from the true UTC; clocks that    *)
(* run need no step.  The chip holds UTC or, written by older firmware,    *)
(* local time; a marker in flash says which, and is written after the chip.*)
(* The power may fail between any two writes.  A missing chip is one whose *)
(* reads and writes fail.                                                  *)
(***************************************************************************)
EXTENDS Integers

CONSTANTS
  Sources,    \* the errors of the times the web clients and Shellies send
  Zones, Offset,  \* the time zones and what their local time is ahead of UTC
  MaxDrift,   \* bound on the error that misreadings of the chip add up to
  None,       \* no epoch saved; a clock that was never set
  Approx,     \* the time of a saved epoch, late by however long the outage was
  Lost        \* the chip reports that its time is not to be relied on

ASSUME ClockConstants ==
  /\ Sources \subseteq Int
  /\ Offset \in [Zones -> Int]
  /\ MaxDrift \in Nat
  /\ {None, Approx, Lost} \cap Int = {}
  /\ None # Approx

Tasks == {"main", "sntp", "web"}

VARIABLES
  mode,     \* "off", "booting", "portal", "clock" or "erased"
  wall,     \* the system clock
  chip,     \* the RTC
  marker,   \* rtc_utc in flash: the chip holds UTC
  s_utc,    \* the same in RAM, since rtc_open
  epoch,    \* the epoch in flash
  zone,     \* the zone of the settings
  cfgTz,    \* the zone of the main loop's copy of them
  env,      \* the zone in the environment, with which local times are made
  job,      \* job[t]: what task t writes next, and which time
  put,      \* history: the time last given to the chip, had it been read right
  misread,  \* history: the marker says the wrong thing about the chip
  alone,    \* history: the last set of the clock was complete and alone
  tzRaced   \* history: the zone changed while a request was about to apply its own

rtc == <<chip, marker, s_utc>>
zones == <<zone, cfgTz, env>>
history == <<put, misread, alone, tzRaced>>
vars == <<mode, wall, rtc, epoch, zones, job, history>>

Idle == [at |-> "idle", time |-> None, tz |-> None]
Busy == {t \in Tasks : job[t].at # "idle"}

Init ==
  /\ mode = "off"
  /\ wall = None
  /\ s_utc = FALSE
  /\ epoch = None
  /\ zone \in Zones /\ cfgTz = zone /\ env = zone
  /\ job = [t \in Tasks |-> Idle]
  /\ put = 0
  /\ marker \in BOOLEAN
  /\ chip = IF marker THEN 0 ELSE Offset[zone]
  /\ misread = FALSE
  /\ alone = FALSE
  /\ tzRaced = FALSE

-----------------------------------------------------------------------------
(* Boot. *)

\* rtc_get_epoch: a chip without the marker is read as local time; and one that takes
\* every chip for that.
ReadingLocal == chip - Offset[zone]
Reading == IF marker THEN chip ELSE chip - Offset[zone]

BootCommon(m) ==
  /\ mode = "off"
  /\ mode' = m
  /\ s_utc' = marker
  /\ cfgTz' = zone /\ env' = zone
  /\ alone' = FALSE /\ tzRaced' = FALSE

\* BootFromChip without a look at the oscillator's flag.
BootFromAnyChip ==
  /\ BootCommon("clock")
  /\ marker
  /\ wall' = chip
  /\ UNCHANGED <<chip, marker, epoch, zone, job, put, misread>>

\* seed_system_clock_from_rtc, from a chip that holds UTC.
BootFromChip ==
  /\ BootCommon("clock")
  /\ chip # Lost /\ marker
  /\ wall' = Reading
  /\ UNCHANGED <<chip, marker, epoch, zone, job, put, misread>>

\* The same, rewriting as UTC what older firmware wrote; the marker is next.  When
\* the chip cannot be written all stays as it was.
BootMigrating(written) ==
  /\ BootCommon(IF written THEN "booting" ELSE "clock")
  /\ chip # Lost /\ ~marker
  /\ Reading \in -MaxDrift .. MaxDrift
  /\ wall' = Reading
  /\ chip' = IF written THEN Reading ELSE chip
  /\ job' = IF written THEN [job EXCEPT !["main"].at = "mark"] ELSE job
  /\ UNCHANGED <<marker, epoch, zone, put, misread>>

\* No chip, or one that lost its time: the saved epoch, or nothing.
BootWithoutChip ==
  /\ BootCommon("clock")
  /\ wall' = IF epoch = None THEN None ELSE Approx
  /\ UNCHANGED <<chip, marker, epoch, zone, job, put, misread>>

\* provision_requested; the portal opens the RTC when the time is set.
BootPortal ==
  /\ BootCommon("portal")
  /\ wall' = None
  /\ UNCHANGED <<chip, marker, epoch, zone, job, put, misread>>

\* The marker is outstanding: a task wrote the chip, or the flash was erased.
Unmarked == mode = "erased" \/ \E t \in Tasks : job[t].at = "mark"

PowerOff ==
  /\ mode' = "off"
  /\ wall' = None
  /\ s_utc' = FALSE
  /\ job' = [t \in Tasks |-> Idle]
  /\ alone' = FALSE
  /\ UNCHANGED <<epoch, zones, put, tzRaced>>

PowerLoss ==
  /\ mode # "off"
  /\ PowerOff
  /\ chip' \in {chip, Lost}
  /\ misread' = (misread \/ Unmarked)
  /\ UNCHANGED marker

-----------------------------------------------------------------------------
(* Setting the clock: system clock, chip, marker, epoch. *)

Running == mode \in {"clock", "portal"}

\* A task that begins while another is at it makes the outcome a mixture.
Begin(t, at, time) ==
  /\ job' = [job EXCEPT ![t] = [at |-> at, time |-> time, tz |-> None]]
  /\ wall' = time
  /\ alone' = (Busy \ {t} = {})

\* try_sync of the main loop, with the median of the Shellies.
ShellySync(time) ==
  /\ mode = "clock" /\ job["main"].at = "idle"
  /\ Begin("main", "chip", time)
  /\ UNCHANGED <<mode, rtc, epoch, zones, put, misread, tzRaced>>

\* SNTP sets the system clock, then calls on_time_sync, which asks what time it is.
SntpSync ==
  /\ mode = "clock" /\ job["sntp"].at = "idle"
  /\ Begin("sntp", "ask", 0)
  /\ UNCHANGED <<mode, rtc, epoch, zones, put, misread, tzRaced>>

OnTimeSync ==
  /\ job["sntp"].at = "ask"
  /\ job' = [job EXCEPT !["sntp"] = [at |-> "chip", time |-> wall, tz |-> None]]
  /\ UNCHANGED <<mode, wall, rtc, epoch, zones, history>>

\* settime_req and settime_post: without a zone the clock is set at once.
WebSetTime(time) ==
  /\ Running /\ job["web"].at = "idle"
  /\ Begin("web", "chip", time)
  /\ UNCHANGED <<mode, rtc, epoch, zones, put, misread, tzRaced>>

\* A changed zone makes a chip in local time be read wrongly.
NewZone(z) ==
  /\ zone' = z
  /\ misread' = (misread \/ (~marker /\ Offset[z] # Offset[zone]))

\* With a zone, the settings get it first and the environment next.
WebSetZone(time, z) ==
  /\ Running /\ job["web"].at = "idle"
  /\ NewZone(z)
  /\ job' = [job EXCEPT !["web"] = [at |-> "env", time |-> time, tz |-> z]]
  /\ alone' = FALSE
  /\ tzRaced' = FALSE
  /\ UNCHANGED <<mode, wall, rtc, epoch, cfgTz, env, put>>

WebSetEnv ==
  /\ job["web"].at = "env"
  /\ env' = job["web"].tz
  /\ Begin("web", "chip", job["web"].time)
  /\ UNCHANGED <<mode, rtc, epoch, zone, cfgTz, put, misread, tzRaced>>

\* What comes after the chip; and a chip with which all is done.
NextWriteNone(written) == IF written /\ ~s_utc THEN "mark" ELSE "idle"
NextWrite(written) == IF written /\ ~s_utc THEN "mark" ELSE "epoch"

\* rtc_set_epoch: the chip may refuse, and then no marker is written either.
WriteChip(t, written) ==
  /\ job[t].at = "chip"
  /\ job' = [job EXCEPT ![t].at = NextWrite(written)]
  /\ IF written
     THEN /\ chip' = job[t].time
          /\ put' = job[t].time
          /\ misread' = (misread /\ ~marker)
          /\ UNCHANGED alone
     ELSE /\ alone' = FALSE
          /\ UNCHANGED <<chip, put, misread>>
  /\ UNCHANGED <<mode, wall, marker, s_utc, epoch, zones, tzRaced>>

\* settings_mark_rtc_utc, whose failure nobody notices.
WriteMarker(t, stored) ==
  /\ job[t].at = "mark"
  /\ s_utc' = TRUE
  /\ marker' = (marker \/ stored)
  /\ misread' = IF mode = "booting" \/ ~marker' THEN misread \/ ~marker' ELSE FALSE
  /\ mode' = IF mode = "booting" THEN "clock" ELSE mode
  /\ job' = [job EXCEPT ![t].at = IF mode = "booting" THEN "idle" ELSE "epoch"]
  /\ UNCHANGED <<wall, chip, epoch, zones, put, alone, tzRaced>>

\* settings_persist_epoch.
SaveEpoch(t, stored) ==
  /\ job[t].at = "epoch"
  /\ job' = [job EXCEPT ![t] = Idle]
  /\ epoch' = IF stored THEN job[t].time ELSE epoch
  /\ alone' = (alone /\ stored)
  /\ UNCHANGED <<mode, wall, rtc, zones, put, misread, tzRaced>>

-----------------------------------------------------------------------------
(* The rest of the main loop, and the other ways to change the zone. *)

\* The time read in this iteration is saved, once after boot and every 3 hours.
PeriodicSave ==
  /\ mode = "clock" /\ job["main"].at = "idle" /\ wall # None
  /\ job' = [job EXCEPT !["main"] = [at |-> "epoch", time |-> wall, tz |-> None]]
  /\ alone' = (alone /\ Busy = {})
  /\ UNCHANGED <<mode, wall, rtc, epoch, zones, put, misread, tzRaced>>

\* ApplyZone without tzset.
ApplyZoneLater ==
  /\ mode = "clock" /\ job["main"].at = "idle"
  /\ cfgTz # zone
  /\ cfgTz' = zone
  /\ tzRaced' = (tzRaced /\ job["web"].at = "env")
  /\ UNCHANGED <<mode, wall, rtc, epoch, zone, env, job, put, misread, alone>>

\* A new version of the settings: only a zone other than the copy's is applied.
ApplyZone ==
  /\ mode = "clock" /\ job["main"].at = "idle"
  /\ cfgTz # zone
  /\ cfgTz' = zone /\ env' = zone
  /\ tzRaced' = (tzRaced /\ job["web"].at = "env")
  /\ UNCHANGED <<mode, wall, rtc, epoch, zone, job, put, misread, alone>>

SetZone(z) ==
  /\ mode = "clock" /\ z # zone
  /\ NewZone(z)
  /\ tzRaced' = (tzRaced \/ job["web"].at = "env" \/ cfgTz # zone)
  /\ UNCHANGED <<mode, wall, rtc, epoch, cfgTz, env, job, put, alone>>

\* netcfg_factory_reset: the flash is erased, then the marker is set, whatever the
\* chip holds, then the clock restarts.
Erase ==
  /\ mode = "clock"
  /\ mode' = "erased"
  /\ marker' = FALSE
  /\ epoch' = None
  /\ misread' = (misread \/ ~marker)
  /\ \E z \in Zones : zone' = z
  /\ UNCHANGED <<wall, chip, s_utc, cfgTz, env, job, put, alone, tzRaced>>

RestartErased(stored) ==
  /\ mode = "erased"
  /\ PowerOff
  /\ marker' = (marker \/ stored)
  /\ misread' = (misread \/ ~marker')
  /\ UNCHANGED chip

-----------------------------------------------------------------------------

Next ==
  \/ BootFromChip \/ BootWithoutChip \/ BootPortal \/ PowerLoss
  \/ SntpSync \/ OnTimeSync \/ WebSetEnv
  \/ \E time \in Sources :
       ShellySync(time) \/ WebSetTime(time) \/ \E z \in Zones : WebSetZone(time, z)
  \/ \E ok \in BOOLEAN :
       \/ BootMigrating(ok) \/ RestartErased(ok)
       \/ \E t \in Tasks : WriteChip(t, ok) \/ WriteMarker(t, ok) \/ SaveEpoch(t, ok)
  \/ PeriodicSave \/ ApplyZone \/ Erase
  \/ \E z \in Zones : SetZone(z)

Spec == Init /\ [][Next]_vars

-----------------------------------------------------------------------------
(* Properties. *)

Times == Int \cup {None, Approx}

\* The variables range over the values the code can give them.
TypeOK ==
  /\ mode \in {"off", "booting", "portal", "clock", "erased"}
  /\ wall \in Times
  /\ chip \in Int \cup {Lost}
  /\ marker \in BOOLEAN
  /\ s_utc \in BOOLEAN
  /\ epoch \in Times
  /\ zone \in Zones /\ cfgTz \in Zones /\ env \in Zones
  /\ job \in [Tasks -> [at : {"idle", "ask", "env", "chip", "mark", "epoch"},
                        time : Times, tz : Zones \cup {None}]]
  /\ put \in Int
  /\ misread \in BOOLEAN /\ alone \in BOOLEAN /\ tzRaced \in BOOLEAN

\* A clock seeded from its chip shows the time that was last given to the chip,
\* whether that was local time or UTC and however often the power failed, unless
\* the power failed or flash did between the chip and its marker, or the zone
\* changed while the chip held local time (rtc_get_epoch, rtc_set_epoch,
\* settings_mark_rtc_utc, netcfg_factory_reset).
SeedIsTrue ==
  [][(BootFromChip \/ \E ok \in BOOLEAN : BootMigrating(ok)) /\ ~misread
       => wall' = put]_vars

\* Once a set of the clock is complete that no other task overlapped, and of which
\* no write failed, system clock, chip and saved epoch tell the same time
\* (on_time_sync, settime_req, try_sync).
SetsAgree ==
  mode = "clock" /\ Busy = {} /\ alone => wall = put /\ epoch = wall

\* With the settings seen by the main loop and no request between its two steps,
\* local time is made with the zone of the settings, unless the zone was set again
\* between those steps or before the main loop had seen the zone of the request
\* (settime_req, app_main).
ZoneApplied ==
  mode = "clock" /\ cfgTz = zone /\ job["web"].at # "env" /\ ~tzRaced => env = zone

==============================================================================
