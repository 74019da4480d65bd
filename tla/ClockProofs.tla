----------------------------- MODULE ClockProofs -----------------------------
(***************************************************************************)
(* Proofs about the time, for any sources with any errors, any zones and   *)
(* any number of misreadings; and about the time Shelly devices broadcast, *)
(* for any senders with any errors, any table and any periods.             *)
(***************************************************************************)
EXTENDS Clock, Shelly, FiniteSetTheorems, WellFoundedInduction, TLAPS

Jobs == [at : {"idle", "ask", "env", "chip", "mark", "epoch"},
         time : Times, tz : Zones \cup {None}]

\* What the tasks are about to write has the type of what they write it to.
JobsTimed ==
  /\ \A t \in Tasks : job[t].at = "chip" => job[t].time \in Int
  /\ job["web"].at = "env" => job["web"].time \in Int /\ job["web"].tz \in Zones
  /\ job["sntp"].at = "ask" => wall \in Int
  /\ job["main"].at \notin {"ask", "env"} /\ job["sntp"].at # "env" /\ job["web"].at # "ask"

\* Nothing runs while the power is off, and only the migration while the clock boots.
Calm ==
  /\ mode = "off" => \A t \in Tasks : job[t].at = "idle"
  /\ mode = "booting" => job["sntp"].at = "idle" /\ job["web"].at = "idle"

Shape == TypeOK /\ JobsTimed /\ Calm

LEMMA TasksAre ==
  /\ "main" \in Tasks /\ "sntp" \in Tasks /\ "web" \in Tasks
  /\ "main" # "sntp" /\ "main" # "web" /\ "sntp" # "web"
BY DEF Tasks

LEMMA TimesAre ==
  /\ Int \subseteq Times /\ None \in Times /\ Approx \in Times
  /\ None \notin Int /\ Approx \notin Int /\ Lost \notin Int
  /\ Sources \subseteq Int
  /\ \A z \in Zones : Offset[z] \in Int
BY ClockConstants DEF Times

LEMMA IdleJob == Idle \in Jobs /\ Idle.at = "idle"
BY TimesAre DEF Idle, Jobs

\* One task's job changes.
LEMMA OneJob ==
  ASSUME job \in [Tasks -> Jobs], NEW t \in Tasks, NEW new \in Jobs,
         job' = [job EXCEPT ![t] = new]
  PROVE  /\ job' \in [Tasks -> Jobs]
         /\ job'[t] = new
         /\ \A u \in Tasks : u # t => job'[u] = job[u]
OBVIOUS

LEMMA OneStage ==
  ASSUME job \in [Tasks -> Jobs], NEW t \in Tasks,
         NEW at \in {"idle", "ask", "env", "chip", "mark", "epoch"},
         job' = [job EXCEPT ![t].at = at]
  PROVE  /\ job' \in [Tasks -> Jobs]
         /\ job'[t].at = at /\ job'[t].time = job[t].time /\ job'[t].tz = job[t].tz
         /\ \A u \in Tasks : u # t => job'[u] = job[u]
<1>1. job[t] \in Jobs
  OBVIOUS
<1>2. job' = [job EXCEPT ![t] = [job[t] EXCEPT !.at = at]]
  OBVIOUS
<1>3. [job[t] EXCEPT !.at = at] \in Jobs
  BY <1>1 DEF Jobs
<1>4. /\ [job[t] EXCEPT !.at = at].at = at
      /\ [job[t] EXCEPT !.at = at].time = job[t].time
      /\ [job[t] EXCEPT !.at = at].tz = job[t].tz
  BY <1>1 DEF Jobs
<1> QED
  BY <1>2, <1>3, <1>4, OneJob

LEMMA ShapeInit == Init => Shape
<1> SUFFICES ASSUME Init PROVE Shape
  OBVIOUS
<1>1. job \in [Tasks -> Jobs] /\ \A t \in Tasks : job[t].at = "idle"
  BY IdleJob DEF Init
<1>2. chip \in Int
  BY TimesAre DEF Init
<1>3. TypeOK
  <2>1. /\ mode = "off" /\ wall \in Times /\ epoch \in Times /\ put \in Int
        /\ zone \in Zones /\ cfgTz \in Zones /\ env \in Zones
    BY TimesAre DEF Init
  <2>2. /\ marker \in BOOLEAN /\ s_utc \in BOOLEAN
        /\ misread \in BOOLEAN /\ alone \in BOOLEAN /\ tzRaced \in BOOLEAN
    BY DEF Init
  <2> QED
    BY <1>1, <1>2, <2>1, <2>2, TimesAre DEF TypeOK, Jobs
<1> QED
  BY <1>1, <1>3, TasksAre DEF Shape, JobsTimed, Calm, Init

\* A task sets the system clock and goes on.
LEMMA BeginJob ==
  ASSUME Shape, NEW t \in Tasks, NEW at \in {"ask", "chip"}, NEW time \in Int,
         Begin(t, at, time)
  PROVE  /\ job' \in [Tasks -> Jobs]
         /\ job'[t].at = at /\ job'[t].time = time
         /\ \A u \in Tasks : u # t => job'[u] = job[u]
         /\ wall' = time /\ wall' \in Times
         /\ alone' \in BOOLEAN
<1>1. [at |-> at, time |-> time, tz |-> None] \in Jobs
  BY TimesAre DEF Jobs
<1>2. job \in [Tasks -> Jobs]
  BY DEF Shape, TypeOK, Jobs
<1>3. job'[t] = [at |-> at, time |-> time, tz |-> None]
  BY <1>1, <1>2, OneJob DEF Begin
<1>4. job'[t].at = at /\ job'[t].time = time
  BY <1>3
<1> QED
  BY <1>1, <1>2, <1>4, OneJob, TimesAre DEF Begin

LEMMA BeginShape ==
  ASSUME Shape, NEW t \in Tasks, NEW at \in {"ask", "chip"}, NEW time \in Int,
         Begin(t, at, time), at = "ask" => t = "sntp", mode \notin {"off", "booting"},
         UNCHANGED <<mode, chip, marker, s_utc, epoch, zone, cfgTz, put, misread, tzRaced>>,
         env' \in Zones
  PROVE  Shape'
<1>1. /\ job' \in [Tasks -> Jobs]
      /\ job'[t].at = at /\ job'[t].time = time
      /\ \A u \in Tasks : u # t => job'[u] = job[u]
      /\ wall' = time /\ wall' \in Times
      /\ alone' \in BOOLEAN
  BY BeginJob
<1>2. job'[t].at = at /\ job'[t].time \in Int
  BY <1>1
<1>3. TypeOK'
  BY <1>1 DEF Shape, TypeOK, Jobs
<1>4. t \in {"main", "sntp", "web"}
  BY DEF Tasks
<1>5. JobsTimed'
  BY <1>1, <1>2, <1>4, TasksAre DEF Shape, JobsTimed
<1>6. Calm'
  BY DEF Calm
<1> QED
  BY <1>3, <1>5, <1>6 DEF Shape

LEMMA ShapeStep == Shape /\ [Next]_vars => Shape'
<1> SUFFICES ASSUME Shape, [Next]_vars PROVE Shape'
  OBVIOUS
<1>0. job \in [Tasks -> Jobs] /\ TypeOK /\ JobsTimed /\ Calm
  BY DEF Shape, TypeOK, Jobs
<1>a. \A t \in Tasks : t = "main" \/ t = "sntp" \/ t = "web"
  BY DEF Tasks
<1> USE TasksAre
<1>1. CASE BootFromChip \/ BootWithoutChip \/ BootPortal
  BY <1>0, <1>1, TimesAre
  DEF BootFromChip, BootWithoutChip, BootPortal, BootCommon, Reading, Shape, TypeOK,
      JobsTimed, Calm
<1>2. ASSUME NEW written \in BOOLEAN, BootMigrating(written) PROVE Shape'
  <2>1. Reading \in Int /\ chip \in Int
    BY <1>0, <1>2, TimesAre DEF BootMigrating, Reading, TypeOK
  <2>2. CASE written
    <3>1. mode = "off" /\ mode' = "booting" /\ job' = [job EXCEPT !["main"].at = "mark"]
      BY <1>2, <2>2 DEF BootMigrating, BootCommon
    <3>2. job["sntp"].at = "idle" /\ job["web"].at = "idle"
      BY <1>0, <3>1 DEF Calm
    <3>3. /\ job' \in [Tasks -> Jobs] /\ job'["main"].at = "mark"
          /\ \A u \in Tasks : u # "main" => job'[u] = job[u]
      BY <1>0, <3>1, OneStage
    <3>4. job'["sntp"].at = "idle" /\ job'["web"].at = "idle"
      BY <3>2, <3>3
    <3>5. JobsTimed' /\ Calm'
      BY <3>1, <3>3, <3>4, <1>a DEF JobsTimed, Calm
    <3>6. TypeOK'
      BY <1>0, <1>2, <2>1, <2>2, <3>3, TimesAre
      DEF BootMigrating, BootCommon, TypeOK, Jobs
    <3> QED
      BY <3>5, <3>6 DEF Shape
  <2>3. CASE ~written
    BY <1>0, <1>2, <2>1, <2>3, TimesAre
    DEF BootMigrating, BootCommon, Shape, TypeOK, JobsTimed, Calm
  <2> QED
    BY <2>2, <2>3
<1>3. ASSUME PowerOff, chip' \in Int \cup {Lost}, marker' \in BOOLEAN, misread' \in BOOLEAN
      PROVE  Shape'
  <2>1. job' \in [Tasks -> Jobs] /\ \A t \in Tasks : job'[t].at = "idle"
    BY <1>3, IdleJob DEF PowerOff
  <2> QED
    BY <1>0, <1>3, <2>1, TimesAre DEF PowerOff, zones, Shape, TypeOK, JobsTimed, Calm, Jobs
<1>4. CASE PowerLoss
  BY <1>0, <1>3, <1>4 DEF PowerLoss, TypeOK
<1>5. ASSUME NEW stored \in BOOLEAN, RestartErased(stored) PROVE Shape'
  BY <1>0, <1>3, <1>5 DEF RestartErased, TypeOK
<1>6. ASSUME NEW time \in Sources, ShellySync(time) PROVE Shape'
  <2>1. time \in Int
    BY TimesAre
  <2> QED
    BY <1>0, <1>6, <2>1, BeginShape DEF ShellySync, rtc, zones, TypeOK
<1>7. CASE SntpSync
  BY <1>0, <1>7, BeginShape DEF SntpSync, rtc, zones, TypeOK
<1>8. CASE OnTimeSync
  <2>1. wall \in Int /\ [at |-> "chip", time |-> wall, tz |-> None] \in Jobs
    BY <1>0, <1>8, TimesAre DEF OnTimeSync, JobsTimed, Jobs
  <2>2. /\ job' \in [Tasks -> Jobs]
        /\ job'["sntp"] = [at |-> "chip", time |-> wall, tz |-> None]
        /\ \A u \in Tasks : u # "sntp" => job'[u] = job[u]
    BY <1>0, <1>8, <2>1, OneJob DEF OnTimeSync
  <2> QED
    BY <1>0, <1>8, <2>1, <2>2
    DEF OnTimeSync, rtc, zones, history, Shape, TypeOK, JobsTimed, Calm, Jobs
<1>9. ASSUME NEW time \in Sources, WebSetTime(time) PROVE Shape'
  <2>1. time \in Int
    BY TimesAre
  <2> QED
    BY <1>0, <1>9, <2>1, BeginShape DEF WebSetTime, Running, rtc, zones, TypeOK
<1>10. ASSUME NEW time \in Sources, NEW z \in Zones, WebSetZone(time, z) PROVE Shape'
  <2>1. time \in Int /\ [at |-> "env", time |-> time, tz |-> z] \in Jobs
    BY TimesAre DEF Jobs
  <2>2. /\ job' \in [Tasks -> Jobs]
        /\ job'["web"] = [at |-> "env", time |-> time, tz |-> z]
        /\ \A u \in Tasks : u # "web" => job'[u] = job[u]
    BY <1>0, <1>10, <2>1, OneJob DEF WebSetZone
  <2>3. misread' \in BOOLEAN /\ zone' \in Zones
    BY <1>10 DEF WebSetZone, NewZone
  <2>4. mode \notin {"off", "booting"} /\ mode' = mode /\ wall' = wall
    BY <1>10 DEF WebSetZone, Running
  <2>5. TypeOK'
    BY <1>0, <1>10, <2>2, <2>3, <2>4 DEF WebSetZone, rtc, TypeOK, Jobs
  <2>6. JobsTimed'
    BY <1>0, <1>a, <2>1, <2>2, <2>4 DEF JobsTimed
  <2> QED
    BY <2>4, <2>5, <2>6 DEF Shape, Calm
<1>11. CASE WebSetEnv
  <2>1. job["web"].time \in Int /\ job["web"].tz \in Zones
    BY <1>0, <1>11 DEF WebSetEnv, JobsTimed
  <2>2. mode \notin {"off", "booting"}
    BY <1>0, <1>11 DEF WebSetEnv, Calm
  <2> QED
    BY <1>0, <1>11, <2>1, <2>2, BeginShape DEF WebSetEnv, rtc, TypeOK
<1>12. ASSUME NEW t \in Tasks, NEW written \in BOOLEAN, WriteChip(t, written) PROVE Shape'
  <2>1. NextWrite(written) \in {"mark", "epoch"}
    BY DEF NextWrite
  <2>2. /\ job' \in [Tasks -> Jobs] /\ job'[t].at \in {"mark", "epoch"}
        /\ \A u \in Tasks : u # t => job'[u] = job[u]
    BY <1>0, <1>12, <2>1, OneStage DEF WriteChip
  <2>3. chip' \in Int \cup {Lost} /\ put' \in Int /\ misread' \in BOOLEAN /\ alone' \in BOOLEAN
    BY <1>0, <1>12 DEF WriteChip, JobsTimed, TypeOK
  <2>4. mode # "off" /\ (mode = "booting" => t = "main")
    BY <1>0, <1>12, <1>a DEF WriteChip, Calm
  <2>5. TypeOK'
    BY <1>0, <1>12, <2>2, <2>3 DEF WriteChip, zones, TypeOK, Jobs
  <2>6. JobsTimed' /\ Calm'
    BY <1>0, <1>12, <1>a, <2>2, <2>4 DEF WriteChip, zones, JobsTimed, Calm
  <2> QED
    BY <2>5, <2>6 DEF Shape
<1>13. ASSUME NEW t \in Tasks, NEW stored \in BOOLEAN, WriteMarker(t, stored) PROVE Shape'
  <2>2. /\ job' \in [Tasks -> Jobs] /\ job'[t].at \in {"idle", "epoch"}
        /\ \A u \in Tasks : u # t => job'[u] = job[u]
    BY <1>0, <1>13, OneStage DEF WriteMarker
  <2>3. misread' \in BOOLEAN /\ marker' \in BOOLEAN
    BY <1>0, <1>13 DEF WriteMarker, TypeOK
  <2>4. mode # "off" /\ mode' # "off" /\ mode' # "booting"
    BY <1>0, <1>13 DEF WriteMarker, Calm
  <2>5. TypeOK'
    BY <1>0, <1>13, <2>2, <2>3 DEF WriteMarker, zones, TypeOK, Jobs
  <2>6. JobsTimed' /\ Calm'
    BY <1>0, <1>13, <1>a, <2>2, <2>4 DEF WriteMarker, zones, JobsTimed, Calm
  <2> QED
    BY <2>5, <2>6 DEF Shape
<1>14. ASSUME NEW t \in Tasks, NEW stored \in BOOLEAN, SaveEpoch(t, stored) PROVE Shape'
  <2>1. job[t] \in Jobs
    BY <1>0
  <2>2. /\ job' \in [Tasks -> Jobs] /\ job'[t].at = "idle"
        /\ \A u \in Tasks : u # t => job'[u] = job[u]
    BY <1>0, <1>14, IdleJob, OneJob DEF SaveEpoch
  <2>3. epoch' \in Times /\ alone' \in BOOLEAN
    BY <1>0, <1>14, <2>1 DEF SaveEpoch, TypeOK, Jobs
  <2>4. TypeOK'
    BY <1>0, <1>14, <2>2, <2>3 DEF SaveEpoch, rtc, zones, TypeOK, Jobs
  <2>5. JobsTimed' /\ Calm'
    BY <1>0, <1>14, <1>a, <2>2 DEF SaveEpoch, rtc, zones, JobsTimed, Calm
  <2> QED
    BY <2>4, <2>5 DEF Shape
<1>15. CASE PeriodicSave
  <2>1. [at |-> "epoch", time |-> wall, tz |-> None] \in Jobs
    BY <1>0 DEF TypeOK, Jobs
  <2>2. /\ job' \in [Tasks -> Jobs]
        /\ job'["main"] = [at |-> "epoch", time |-> wall, tz |-> None]
        /\ \A u \in Tasks : u # "main" => job'[u] = job[u]
    BY <1>0, <1>15, <2>1, OneJob DEF PeriodicSave
  <2>3. alone' \in BOOLEAN
    BY <1>15 DEF PeriodicSave
  <2> QED
    BY <1>0, <1>15, <2>2, <2>3
    DEF PeriodicSave, rtc, zones, Shape, TypeOK, JobsTimed, Calm, Jobs
<1>16. CASE ApplyZone
  <2>1. tzRaced' \in BOOLEAN
    BY <1>16 DEF ApplyZone
  <2> QED
    BY <1>0, <1>16, <2>1 DEF ApplyZone, rtc, Shape, TypeOK, JobsTimed, Calm
<1>17. ASSUME NEW z \in Zones, SetZone(z) PROVE Shape'
  <2>1. tzRaced' \in BOOLEAN /\ misread' \in BOOLEAN /\ zone' \in Zones
    BY <1>17 DEF SetZone, NewZone
  <2> QED
    BY <1>0, <1>17, <2>1 DEF SetZone, rtc, Shape, TypeOK, JobsTimed, Calm
<1>18. CASE Erase
  <2>1. misread' \in BOOLEAN /\ zone' \in Zones
    BY <1>18 DEF Erase
  <2> QED
    BY <1>0, <1>18, <2>1, TimesAre DEF Erase, rtc, Shape, TypeOK, JobsTimed, Calm
<1>19. CASE UNCHANGED vars
  BY <1>0, <1>19 DEF vars, rtc, zones, history, Shape, TypeOK, JobsTimed, Calm
<1> QED
  BY <1>1, <1>2, <1>4, <1>5, <1>6, <1>7, <1>8, <1>9, <1>10, <1>11, <1>12, <1>13, <1>14, <1>15,
     <1>16, <1>17, <1>18, <1>19
  DEF Next

\* Every variable keeps its type, for any sources, zones and misreadings.
THEOREM TypeCorrect == Spec => []TypeOK
<1>1. Shape => TypeOK
  BY DEF Shape
<1> QED
  BY <1>1, ShapeInit, ShapeStep, PTL DEF Spec

-----------------------------------------------------------------------------
(* The chip and its marker. *)

Marking == \E t \in Tasks : job[t].at = "mark"

\* Unless the marker says the wrong thing, the chip holds the time last given to it:
\* in UTC when it is marked or about to be, else in local time.
ChipTrue ==
  chip # Lost /\ ~misread =>
    chip = IF marker \/ Unmarked THEN put ELSE put + Offset[zone]

\* Before the marker comes the chip.
MarkFollows == Marking /\ mode # "booting" => chip = put

\* RAM takes for marked what is not only after a failed write of the marker.
KnownUtc == s_utc /\ ~marker /\ mode # "erased" => misread

ChipInv == ChipTrue /\ MarkFollows /\ KnownUtc

LEMMA UnmarkedIs == Unmarked <=> mode = "erased" \/ Marking
BY DEF Unmarked, Marking

\* A task whose job changes elsewhere marks no more and no less.
LEMMA MarkingKept ==
  ASSUME NEW t \in Tasks, job[t].at # "mark", job'[t].at # "mark",
         \A u \in Tasks : u # t => job'[u] = job[u]
  PROVE  Marking' <=> Marking
BY DEF Marking

LEMMA ChipKept ==
  ASSUME ChipInv, UNCHANGED <<mode, chip, marker, s_utc, put>>, misread => misread',
         \/ Offset[zone'] = Offset[zone]
         \/ marker
         \/ misread',
         Marking' <=> Marking
  PROVE  ChipInv'
<1>1. Unmarked' <=> Unmarked
  BY DEF Unmarked, Marking
<1>2. ChipTrue'
  BY <1>1 DEF ChipInv, ChipTrue
<1> QED
  BY <1>2 DEF ChipInv, MarkFollows, KnownUtc

LEMMA ChipInit == Init => ChipInv
<1> SUFFICES ASSUME Init PROVE ChipInv
  OBVIOUS
<1>1. ~Marking /\ ~Unmarked
  BY IdleJob DEF Init, Marking, Unmarked
<1>2. Offset[zone] \in Int /\ put = 0
  BY TimesAre DEF Init
<1>3. chip = IF marker THEN put ELSE put + Offset[zone]
  BY <1>2 DEF Init
<1> QED
  BY <1>1, <1>3 DEF Init, ChipInv, ChipTrue, MarkFollows, KnownUtc

LEMMA NotMarkingOff == Shape /\ mode = "off" => ~Marking /\ ~Unmarked
BY DEF Shape, Calm, Marking, Unmarked

\* The power goes; the marker of what is outstanding is missed.
LEMMA OffStep ==
  ASSUME Shape, ChipInv, PowerOff, chip' \in {chip, Lost},
         \/ marker' = marker /\ (~misread' => ~misread /\ ~Unmarked)
         \/ mode = "erased" /\ (~misread' => ~misread /\ marker')
  PROVE  ChipInv'
<1>1. ~Marking' /\ mode' = "off" /\ s_utc' = FALSE /\ put' = put /\ zone' = zone
  BY IdleJob DEF PowerOff, Marking, zones
<1>2. ~Unmarked'
  BY <1>1 DEF Unmarked, Marking
<1>3. ChipTrue'
  BY <1>1, <1>2 DEF ChipInv, ChipTrue, Unmarked
<1> QED
  BY <1>1, <1>3 DEF ChipInv, MarkFollows, KnownUtc

LEMMA ChipStep == Shape /\ ChipInv /\ [Next]_vars => ChipInv'
<1> SUFFICES ASSUME Shape, ChipInv, [Next]_vars PROVE ChipInv'
  OBVIOUS
<1>0. job \in [Tasks -> Jobs] /\ TypeOK /\ JobsTimed /\ Calm
  BY DEF Shape, TypeOK, Jobs
<1> USE TasksAre
<1>1. CASE BootFromChip \/ BootWithoutChip \/ BootPortal
  <2>1. /\ mode = "off" /\ mode' \in {"clock", "portal"} /\ s_utc' = marker
        /\ UNCHANGED <<chip, marker, zone, job, put, misread>>
    BY <1>1 DEF BootFromChip, BootWithoutChip, BootPortal, BootCommon
  <2>2. ~Marking' /\ ~Unmarked /\ ~Unmarked'
    BY <2>1, NotMarkingOff DEF Marking, Unmarked
  <2> QED
    BY <2>1, <2>2 DEF ChipInv, ChipTrue, MarkFollows, KnownUtc
<1>2. ASSUME NEW written \in BOOLEAN, BootMigrating(written) PROVE ChipInv'
  <2>1. /\ mode = "off" /\ s_utc' = marker /\ ~marker /\ chip \in Int
        /\ mode' = (IF written THEN "booting" ELSE "clock")
        /\ UNCHANGED <<marker, zone, put, misread>>
        /\ chip' = IF written THEN Reading ELSE chip
        /\ job' = IF written THEN [job EXCEPT !["main"].at = "mark"] ELSE job
    BY <1>0, <1>2 DEF BootMigrating, BootCommon, TypeOK
  <2>2. ~Marking /\ ~Unmarked
    BY <2>1, NotMarkingOff
  <2>3. CASE written
    <3>1. job'["main"].at = "mark"
      BY <1>0, <2>1, <2>3, OneStage
    <3>2. Unmarked' /\ Marking' /\ mode' = "booting"
      BY <2>1, <2>3, <3>1 DEF Unmarked, Marking
    <3>3. Offset[zone] \in Int /\ put \in Int
      BY <1>0, TimesAre DEF TypeOK
    <3>4. ~misread => chip = put + Offset[zone]
      BY <2>1, <2>2, TimesAre DEF ChipInv, ChipTrue
    <3>5. ~misread' => chip' = put'
      BY <2>1, <2>3, <3>3, <3>4 DEF Reading
    <3> QED
      BY <2>1, <3>2, <3>5 DEF ChipInv, ChipTrue, MarkFollows, KnownUtc
  <2>4. CASE ~written
    <3>1. ~Marking' /\ ~Unmarked'
      BY <2>1, <2>2, <2>4 DEF Unmarked, Marking
    <3> QED
      BY <2>1, <2>2, <2>4, <3>1 DEF ChipInv, ChipTrue, MarkFollows, KnownUtc
  <2> QED
    BY <2>3, <2>4
<1>3. CASE PowerLoss
  <2>1. ~misread' => ~misread /\ ~Unmarked
    BY <1>3 DEF PowerLoss
  <2> QED
    BY <1>3, <2>1, OffStep DEF PowerLoss
<1>4. ASSUME NEW stored \in BOOLEAN, RestartErased(stored) PROVE ChipInv'
  <2>1. ~misread' => ~misread /\ marker'
    BY <1>4 DEF RestartErased
  <2> QED
    BY <1>4, <2>1, OffStep DEF RestartErased
<1>5. ASSUME NEW t \in Tasks, NEW at \in {"ask", "chip"}, NEW time \in Int, Begin(t, at, time),
             job[t].at # "mark",
             UNCHANGED <<mode, chip, marker, s_utc, put, misread, zone>>
      PROVE  ChipInv'
  <2>1. job'[t].at = at /\ \A u \in Tasks : u # t => job'[u] = job[u]
    BY <1>5, BeginJob
  <2>2. Marking' <=> Marking
    BY <1>5, <2>1, MarkingKept
  <2> QED
    BY <1>5, <2>2, ChipKept
<1>6. ASSUME NEW time \in Sources, ShellySync(time) \/ WebSetTime(time) PROVE ChipInv'
  <2>1. time \in Int
    BY TimesAre
  <2> QED
    BY <1>5, <1>6, <2>1 DEF ShellySync, WebSetTime, rtc, zones
<1>7. CASE SntpSync \/ WebSetEnv
  <2>1. WebSetEnv => job["web"].time \in Int
    BY <1>0 DEF WebSetEnv, JobsTimed
  <2> QED
    BY <1>5, <1>7, <2>1 DEF SntpSync, WebSetEnv, rtc, zones
<1>8. CASE OnTimeSync
  <2>1. [at |-> "chip", time |-> wall, tz |-> None] \in Jobs
    BY <1>0, <1>8, TimesAre DEF OnTimeSync, JobsTimed, Jobs
  <2>2. job'["sntp"].at # "mark" /\ \A u \in Tasks : u # "sntp" => job'[u] = job[u]
    BY <1>0, <1>8, <2>1, OneJob DEF OnTimeSync
  <2>3. Marking' <=> Marking
    BY <1>8, <2>2, MarkingKept DEF OnTimeSync
  <2> QED
    BY <1>8, <2>3, ChipKept DEF OnTimeSync, rtc, zones, history
<1>9. ASSUME NEW time \in Sources, NEW z \in Zones, WebSetZone(time, z) PROVE ChipInv'
  <2>1. [at |-> "env", time |-> time, tz |-> z] \in Jobs
    BY TimesAre DEF Jobs
  <2>2. job'["web"].at # "mark" /\ \A u \in Tasks : u # "web" => job'[u] = job[u]
    BY <1>0, <1>9, <2>1, OneJob DEF WebSetZone
  <2>3. Marking' <=> Marking
    BY <1>9, <2>2, MarkingKept DEF WebSetZone
  <2> QED
    BY <1>9, <2>3, ChipKept DEF WebSetZone, NewZone, rtc
<1>10. ASSUME NEW t \in Tasks, NEW written \in BOOLEAN, WriteChip(t, written) PROVE ChipInv'
  <2>1. /\ job[t].at = "chip" /\ job' = [job EXCEPT ![t].at = NextWrite(written)]
        /\ UNCHANGED <<mode, marker, s_utc, zone>>
    BY <1>10 DEF WriteChip, zones
  <2>2. NextWrite(written) \in {"mark", "epoch"}
    BY DEF NextWrite
  <2>3. /\ job'[t].at = NextWrite(written)
        /\ \A u \in Tasks : u # t => job'[u] = job[u]
    BY <1>0, <2>1, <2>2, OneStage
  <2>4. CASE written
    <3>1. chip' = put' /\ (misread' <=> misread /\ ~marker)
      BY <1>10, <2>4 DEF WriteChip
    <3>2. ~s_utc => Unmarked'
      BY <2>3, <2>4 DEF NextWrite, Unmarked
    <3>3. ~misread' => marker' \/ Unmarked'
      BY <2>1, <3>1, <3>2 DEF ChipInv, KnownUtc, Unmarked
    <3>4. KnownUtc'
      BY <2>1, <3>1 DEF ChipInv, KnownUtc
    <3> QED
      BY <3>1, <3>3, <3>4 DEF ChipInv, ChipTrue, MarkFollows
  <2>5. CASE ~written
    <3>1. job'[t].at # "mark"
      BY <2>3, <2>5 DEF NextWrite
    <3>2. Marking' <=> Marking
      BY <2>1, <2>3, <3>1, MarkingKept
    <3> QED
      BY <1>10, <2>1, <2>5, <3>2, ChipKept DEF WriteChip
  <2> QED
    BY <2>4, <2>5
<1>11. ASSUME NEW t \in Tasks, NEW stored \in BOOLEAN, WriteMarker(t, stored) PROVE ChipInv'
  <2>1. /\ job[t].at = "mark" /\ UNCHANGED <<chip, put, zone>>
        /\ mode' = (IF mode = "booting" THEN "clock" ELSE mode)
        /\ (~misread' => marker')
        /\ mode = "booting" => (misread' <=> misread \/ ~marker')
    BY <1>11, Zenon DEF WriteMarker, zones
  <2>2. Marking /\ Unmarked
    BY <2>1 DEF Marking, Unmarked
  <2>3. ~misread' /\ chip' # Lost => chip' = put'
    BY <2>1, <2>2 DEF ChipInv, ChipTrue, MarkFollows
  <2>4. MarkFollows'
    <3>1. CASE mode = "booting"
      <4>1. t = "main" /\ \A u \in Tasks : u # "main" => job[u].at = "idle"
        BY <1>0, <2>1, <3>1 DEF Calm, Tasks
      <4>2. job'[t].at = "idle" /\ \A u \in Tasks : u # t => job'[u] = job[u]
        BY <1>0, <1>11, <3>1, OneStage DEF WriteMarker
      <4>3. ~Marking'
        BY <4>1, <4>2 DEF Marking
      <4> QED
        BY <4>3 DEF MarkFollows
    <3>2. CASE mode # "booting"
      BY <2>1, <2>2, <3>2 DEF ChipInv, MarkFollows
    <3> QED
      BY <3>1, <3>2
  <2> QED
    BY <2>1, <2>3, <2>4 DEF ChipInv, ChipTrue, KnownUtc
<1>12. ASSUME NEW t \in Tasks, NEW stored \in BOOLEAN, SaveEpoch(t, stored) PROVE ChipInv'
  <2>0. job' = [job EXCEPT ![t] = Idle] /\ Idle \in Jobs
    BY <1>12, IdleJob DEF SaveEpoch
  <2>1. job'[t].at = "idle" /\ \A u \in Tasks : u # t => job'[u] = job[u]
    BY <1>0, <2>0, IdleJob, OneJob
  <2>2. Marking' <=> Marking
    BY <1>12, <2>1, MarkingKept DEF SaveEpoch
  <2> QED
    BY <1>12, <2>2, ChipKept DEF SaveEpoch, rtc, zones
<1>13. CASE PeriodicSave
  <2>1. [at |-> "epoch", time |-> wall, tz |-> None] \in Jobs
    BY <1>0, TimesAre DEF TypeOK, Jobs
  <2>2. job'["main"].at = "epoch" /\ \A u \in Tasks : u # "main" => job'[u] = job[u]
    BY <1>0, <1>13, <2>1, OneJob DEF PeriodicSave
  <2>3. Marking' <=> Marking
    BY <1>13, <2>2, MarkingKept DEF PeriodicSave
  <2> QED
    BY <1>13, <2>3, ChipKept DEF PeriodicSave, rtc, zones
<1>14. CASE ApplyZone
  BY <1>14, ChipKept DEF ApplyZone, rtc, Marking
<1>15. ASSUME NEW z \in Zones, SetZone(z) PROVE ChipInv'
  BY <1>15, ChipKept DEF SetZone, NewZone, rtc, Marking
<1>16. CASE Erase
  <2>1. /\ mode = "clock" /\ mode' = "erased" /\ UNCHANGED <<chip, put, job>>
        /\ (~misread' => ~misread /\ marker)
    BY <1>16 DEF Erase
  <2>2. Unmarked' /\ (Marking' <=> Marking)
    BY <2>1 DEF Unmarked, Marking
  <2> QED
    BY <2>1, <2>2 DEF ChipInv, ChipTrue, MarkFollows, KnownUtc
<1>17. CASE UNCHANGED vars
  BY <1>17, ChipKept DEF vars, rtc, zones, history, Marking
<1> QED
  BY <1>1, <1>2, <1>3, <1>4, <1>6, <1>7, <1>8, <1>9, <1>10, <1>11, <1>12, <1>13, <1>14, <1>15,
     <1>16, <1>17
  DEF Next

LEMMA ChipInvariant == Spec => [](Shape /\ ChipInv)
BY ShapeInit, ShapeStep, ChipInit, ChipStep, PTL DEF Spec

\* A clock seeded from its chip shows the time last given to the chip, unless the
\* marker says the wrong thing.
THEOREM SeedTrue == Spec => SeedIsTrue
<1> DEFINE Seeded == (BootFromChip \/ \E ok \in BOOLEAN : BootMigrating(ok)) /\ ~misread
                       => wall' = put
<1>1. Shape /\ ChipInv /\ [Next]_vars => [Seeded]_vars
  <2> SUFFICES ASSUME Shape, ChipInv, ~misread,
                      BootFromChip \/ \E ok \in BOOLEAN : BootMigrating(ok)
               PROVE  wall' = put
    OBVIOUS
  <2>1. mode = "off" /\ chip # Lost /\ wall' = Reading
    BY DEF BootFromChip, BootMigrating, BootCommon
  <2>2. chip = IF marker THEN put ELSE put + Offset[zone]
    BY <2>1, NotMarkingOff DEF ChipInv, ChipTrue
  <2>3. put \in Int /\ Offset[zone] \in Int
    BY TimesAre DEF Shape, TypeOK
  <2> QED
    BY <2>1, <2>2, <2>3 DEF Reading
<1>2. Spec => [][Seeded]_vars
  BY <1>1, ChipInvariant, PTL DEF Spec
<1> QED
  BY <1>2 DEF SeedIsTrue

-----------------------------------------------------------------------------
(* The zone. *)

\* A request about to apply its zone has put it into the settings; otherwise the
\* environment follows the copy of the main loop.
ZoneInv ==
  mode \notin {"off", "erased"} /\ ~tzRaced =>
    IF job["web"].at = "env" THEN job["web"].tz = zone ELSE cfgTz = zone => env = zone

LEMMA ZoneKept ==
  ASSUME ZoneInv, UNCHANGED <<zone, cfgTz, env, tzRaced>>,
         mode' \notin {"off", "erased"} => mode \notin {"off", "erased"},
         \/ job'["web"] = job["web"]
         \/ job["web"].at # "env" /\ job'["web"].at # "env"
  PROVE  ZoneInv'
BY DEF ZoneInv

LEMMA ZoneStep == Shape /\ ZoneInv /\ [Next]_vars => ZoneInv'
<1> SUFFICES ASSUME Shape, ZoneInv, [Next]_vars PROVE ZoneInv'
  OBVIOUS
<1>0. job \in [Tasks -> Jobs] /\ TypeOK /\ JobsTimed /\ Calm
  BY DEF Shape, TypeOK, Jobs
<1> USE TasksAre
<1>1. CASE BootFromChip \/ BootWithoutChip \/ BootPortal
  <2>1. mode = "off" /\ job' = job /\ cfgTz' = zone /\ env' = zone /\ zone' = zone
    BY <1>1 DEF BootFromChip, BootWithoutChip, BootPortal, BootCommon
  <2> QED
    BY <1>0, <2>1 DEF ZoneInv, Calm
<1>2. ASSUME NEW written \in BOOLEAN, BootMigrating(written) PROVE ZoneInv'
  <2>1. /\ mode = "off" /\ env' = zone /\ zone' = zone
        /\ job' = IF written THEN [job EXCEPT !["main"].at = "mark"] ELSE job
    BY <1>2 DEF BootMigrating, BootCommon
  <2>2. job'["web"] = job["web"]
    BY <1>0, <2>1, OneStage
  <2> QED
    BY <1>0, <2>1, <2>2 DEF ZoneInv, Calm
<1>3. CASE PowerLoss \/ Erase
  BY <1>3 DEF PowerLoss, PowerOff, Erase, ZoneInv
<1>4. ASSUME NEW stored \in BOOLEAN, RestartErased(stored) PROVE ZoneInv'
  BY <1>4 DEF RestartErased, PowerOff, ZoneInv
<1>5. ASSUME NEW time \in Sources, ShellySync(time) PROVE ZoneInv'
  <2>1. job'["web"] = job["web"]
    <3>1. time \in Int
      BY TimesAre
    <3> QED
      BY <1>5, <3>1, BeginJob DEF ShellySync
  <2> QED
    BY <1>5, <2>1, ZoneKept DEF ShellySync, zones
<1>6. CASE SntpSync
  <2>1. job'["web"] = job["web"]
    BY <1>6, BeginJob DEF SntpSync
  <2> QED
    BY <1>6, <2>1, ZoneKept DEF SntpSync, zones
<1>7. CASE OnTimeSync
  <2>1. [at |-> "chip", time |-> wall, tz |-> None] \in Jobs
    BY <1>0, <1>7, TimesAre DEF OnTimeSync, JobsTimed, Jobs
  <2>2. job'["web"] = job["web"]
    BY <1>0, <1>7, <2>1, OneJob DEF OnTimeSync
  <2> QED
    BY <1>7, <2>2, ZoneKept DEF OnTimeSync, zones, history
<1>8. ASSUME NEW time \in Sources, WebSetTime(time) PROVE ZoneInv'
  <2>1. job["web"].at = "idle" /\ time \in Int
    BY <1>8, TimesAre DEF WebSetTime
  <2>2. job'["web"].at = "chip"
    BY <1>8, <2>1, BeginJob DEF WebSetTime
  <2> QED
    BY <1>8, <2>1, <2>2, ZoneKept DEF WebSetTime, zones
<1>9. ASSUME NEW time \in Sources, NEW z \in Zones, WebSetZone(time, z) PROVE ZoneInv'
  <2>1. [at |-> "env", time |-> time, tz |-> z] \in Jobs
    BY TimesAre DEF Jobs
  <2>2. job'["web"] = [at |-> "env", time |-> time, tz |-> z]
    BY <1>0, <1>9, <2>1, OneJob DEF WebSetZone
  <2> QED
    BY <1>9, <2>2 DEF WebSetZone, NewZone, ZoneInv
<1>10. CASE WebSetEnv
  <2>1. job["web"].at = "env" /\ job["web"].time \in Int
    BY <1>0, <1>10 DEF WebSetEnv, JobsTimed
  <2>2. job'["web"].at = "chip"
    BY <1>10, <2>1, BeginJob DEF WebSetEnv
  <2> QED
    BY <1>10, <2>1, <2>2 DEF WebSetEnv, ZoneInv
<1>11. ASSUME NEW t \in Tasks, NEW written \in BOOLEAN, WriteChip(t, written) PROVE ZoneInv'
  <2>1. NextWrite(written) \in {"mark", "epoch"}
    BY DEF NextWrite
  <2>2. job'[t].at # "env" /\ job[t].at # "env" /\ \A u \in Tasks : u # t => job'[u] = job[u]
    BY <1>0, <1>11, <2>1, OneStage DEF WriteChip
  <2> QED
    BY <1>11, <2>2, ZoneKept DEF WriteChip, zones
<1>12. ASSUME NEW t \in Tasks, NEW stored \in BOOLEAN, WriteMarker(t, stored) PROVE ZoneInv'
  <2>2. job'[t].at # "env" /\ job[t].at # "env" /\ \A u \in Tasks : u # t => job'[u] = job[u]
    BY <1>0, <1>12, OneStage DEF WriteMarker
  <2>3. mode' \notin {"off", "erased"} => mode \notin {"off", "erased"}
    BY <1>0, <1>12 DEF WriteMarker, Calm
  <2> QED
    BY <1>12, <2>2, <2>3, ZoneKept DEF WriteMarker, zones
<1>13. ASSUME NEW t \in Tasks, NEW stored \in BOOLEAN, SaveEpoch(t, stored) PROVE ZoneInv'
  <2>1. job' = [job EXCEPT ![t] = Idle] /\ job[t].at # "env"
    BY <1>13 DEF SaveEpoch
  <2>2. job'[t].at # "env" /\ \A u \in Tasks : u # t => job'[u] = job[u]
    BY <1>0, <2>1, IdleJob, OneJob
  <2> QED
    BY <1>13, <2>1, <2>2, ZoneKept DEF SaveEpoch, zones
<1>14. CASE PeriodicSave
  <2>1. [at |-> "epoch", time |-> wall, tz |-> None] \in Jobs
    BY <1>0, TimesAre DEF TypeOK, Jobs
  <2>2. job'["web"] = job["web"]
    BY <1>0, <1>14, <2>1, OneJob DEF PeriodicSave
  <2> QED
    BY <1>14, <2>2, ZoneKept DEF PeriodicSave, zones
<1>15. CASE ApplyZone
  <2>1. /\ cfgTz' = zone /\ env' = zone /\ zone' = zone /\ job' = job /\ mode' = mode
        /\ tzRaced' <=> tzRaced /\ job["web"].at = "env"
    BY <1>15 DEF ApplyZone
  <2> QED
    BY <2>1 DEF ZoneInv
<1>16. ASSUME NEW z \in Zones, SetZone(z) PROVE ZoneInv'
  <2>1. /\ z # zone /\ zone' = z /\ cfgTz' = cfgTz /\ job' = job
        /\ tzRaced' <=> (tzRaced \/ job["web"].at = "env" \/ cfgTz # zone)
    BY <1>16 DEF SetZone, NewZone
  <2> QED
    BY <2>1 DEF ZoneInv
<1>17. CASE UNCHANGED vars
  BY <1>17, ZoneKept DEF vars, zones, history
<1> QED
  BY <1>1, <1>2, <1>3, <1>4, <1>5, <1>6, <1>7, <1>8, <1>9, <1>10, <1>11, <1>12, <1>13, <1>14,
     <1>15, <1>16, <1>17
  DEF Next

\* Local time is made with the zone of the settings once the main loop has seen them,
\* unless the zone was set again in between.
THEOREM ZoneIsApplied == Spec => []ZoneApplied
<1>1. Init => ZoneInv
  BY DEF Init, ZoneInv
<1>2. ZoneInv => ZoneApplied
  BY DEF ZoneInv, ZoneApplied
<1> QED
  BY <1>1, <1>2, ShapeInit, ShapeStep, ZoneStep, PTL DEF Spec

-----------------------------------------------------------------------------
(* The three clocks. *)

\* Task t alone is setting the clocks, and those it has set tell the system's time.
AloneAtIt(t) ==
  /\ \A u \in Tasks : u # t => job[u].at = "idle"
  /\ job[t].at # "env"
  /\ job[t].at \in {"chip", "mark", "epoch"} => job[t].time = wall
  /\ job[t].at \in {"mark", "epoch"} => put = wall

SetsInv ==
  alone /\ mode # "erased" =>
    /\ mode # "booting"
    /\ (\A t \in Tasks : job[t].at = "idle") => put = wall /\ epoch = wall
    /\ \A t \in Tasks : job[t].at # "idle" => AloneAtIt(t)

LEMMA SetsKept ==
  ASSUME SetsInv, UNCHANGED <<wall, epoch, job, put>>, alone' => alone,
         mode' = mode
  PROVE  SetsInv'
BY DEF SetsInv, AloneAtIt

\* The only task at it gets further, or a first one begins.
LEMMA SetsMoved ==
  ASSUME NEW t \in Tasks, job'[t].at # "idle", AloneAtIt(t)', mode' # "booting"
  PROVE  SetsInv'
<1>1. \A u \in Tasks : u # t => job'[u].at = "idle"
  BY DEF AloneAtIt
<1> QED
  BY <1>1 DEF SetsInv

LEMMA SetsStep == Shape /\ SetsInv /\ [Next]_vars => SetsInv'
<1> SUFFICES ASSUME Shape, SetsInv, [Next]_vars PROVE SetsInv'
  OBVIOUS
<1>0. job \in [Tasks -> Jobs] /\ TypeOK /\ JobsTimed /\ Calm
  BY DEF Shape, TypeOK, Jobs
<1> USE TasksAre
<1>1. ASSUME ~alone' PROVE SetsInv'
  BY <1>1 DEF SetsInv
<1>2. CASE BootFromChip \/ BootWithoutChip \/ BootPortal \/ PowerLoss
  BY <1>1, <1>2
  DEF BootFromChip, BootWithoutChip, BootPortal, BootCommon, PowerLoss, PowerOff
<1>3. ASSUME NEW ok \in BOOLEAN, BootMigrating(ok) \/ RestartErased(ok) PROVE SetsInv'
  BY <1>1, <1>3 DEF BootMigrating, BootCommon, RestartErased, PowerOff
<1>4. ASSUME NEW t \in Tasks, NEW at \in {"ask", "chip"}, NEW time \in Int, Begin(t, at, time),
             mode # "booting", mode' = mode
      PROVE  SetsInv'
  <2> SUFFICES ASSUME alone' PROVE SetsInv'
    BY <1>1
  <2>1. Busy \ {t} = {}
    BY <1>4 DEF Begin
  <2>2. \A u \in Tasks : u # t => job[u].at = "idle"
    BY <2>1 DEF Busy
  <2>3. /\ job'[t].at = at /\ job'[t].time = time /\ wall' = time
        /\ \A u \in Tasks : u # t => job'[u] = job[u]
    BY <1>4, BeginJob
  <2>4. mode' # "booting" /\ at \notin {"idle", "env", "mark", "epoch"}
    BY <1>4
  <2> QED
    BY <2>2, <2>3, <2>4, SetsMoved DEF AloneAtIt
<1>5. ASSUME NEW time \in Sources, ShellySync(time) \/ WebSetTime(time) PROVE SetsInv'
  BY <1>4, <1>5, TimesAre DEF ShellySync, WebSetTime, Running
<1>6. CASE SntpSync \/ WebSetEnv
  BY <1>0, <1>4, <1>6 DEF SntpSync, WebSetEnv, JobsTimed, Calm
<1>7. CASE OnTimeSync
  <2> SUFFICES ASSUME alone', mode' # "erased" PROVE SetsInv'
    BY DEF SetsInv
  <2>1. [at |-> "chip", time |-> wall, tz |-> None] \in Jobs
    BY <1>0, <1>7, TimesAre DEF OnTimeSync, JobsTimed, Jobs
  <2>2. /\ job'["sntp"] = [at |-> "chip", time |-> wall, tz |-> None]
        /\ \A u \in Tasks : u # "sntp" => job'[u] = job[u]
    BY <1>0, <1>7, <2>1, OneJob DEF OnTimeSync
  <2>3. AloneAtIt("sntp") /\ wall' = wall /\ mode' # "booting"
    BY <1>7 DEF OnTimeSync, history, SetsInv
  <2> QED
    BY <2>2, <2>3, SetsMoved DEF AloneAtIt
<1>8. ASSUME NEW time \in Sources, NEW z \in Zones, WebSetZone(time, z) PROVE SetsInv'
  BY <1>1, <1>8 DEF WebSetZone
<1>9. ASSUME NEW t \in Tasks, NEW written \in BOOLEAN, WriteChip(t, written) PROVE SetsInv'
  <2> SUFFICES ASSUME alone', mode' # "erased" PROVE SetsInv'
    BY DEF SetsInv
  <2>1. /\ written /\ alone /\ mode # "erased" /\ wall' = wall /\ put' = job[t].time
        /\ job[t].at = "chip"
        /\ job' = [job EXCEPT ![t].at = NextWrite(written)]
    BY <1>9 DEF WriteChip
  <2>2. NextWrite(written) \in {"mark", "epoch"}
    BY DEF NextWrite
  <2>3. /\ job'[t].at = NextWrite(written) /\ job'[t].time = job[t].time
        /\ \A u \in Tasks : u # t => job'[u] = job[u]
    BY <1>0, <2>1, <2>2, OneStage
  <2>4. AloneAtIt(t) /\ mode' # "booting"
    BY <1>9, <2>1 DEF SetsInv, WriteChip
  <2>5. /\ \A u \in Tasks : u # t => job'[u].at = "idle"
        /\ job'[t].time = wall' /\ put' = wall'
    BY <2>1, <2>3, <2>4 DEF AloneAtIt
  <2>6. job'[t].at \notin {"idle", "env"}
    BY <2>2, <2>3
  <2>7. AloneAtIt(t)'
    BY <2>5, <2>6 DEF AloneAtIt
  <2> QED
    BY <2>4, <2>6, <2>7, SetsMoved
<1>10. ASSUME NEW t \in Tasks, NEW stored \in BOOLEAN, WriteMarker(t, stored) PROVE SetsInv'
  <2> SUFFICES ASSUME alone', mode' # "erased" PROVE SetsInv'
    BY DEF SetsInv
  <2>1. /\ alone /\ mode # "erased" /\ wall' = wall /\ put' = put
        /\ job[t].at = "mark"
    BY <1>10, <1>0 DEF WriteMarker, Calm
  <2>2. AloneAtIt(t) /\ mode # "booting"
    BY <2>1 DEF SetsInv
  <2>3. job' = [job EXCEPT ![t].at = "epoch"] /\ mode' # "booting"
    BY <1>10, <2>2 DEF WriteMarker
  <2>4. /\ job'[t].at = "epoch" /\ job'[t].time = job[t].time
        /\ \A u \in Tasks : u # t => job'[u] = job[u]
    BY <1>0, <2>3, OneStage
  <2> QED
    BY <2>1, <2>2, <2>3, <2>4, SetsMoved DEF AloneAtIt
<1>11. ASSUME NEW t \in Tasks, NEW stored \in BOOLEAN, SaveEpoch(t, stored) PROVE SetsInv'
  <2> SUFFICES ASSUME alone', mode' # "erased" PROVE SetsInv'
    BY DEF SetsInv
  <2>1. /\ alone /\ stored /\ mode # "erased" /\ wall' = wall /\ put' = put
        /\ epoch' = job[t].time /\ job[t].at = "epoch"
        /\ job' = [job EXCEPT ![t] = Idle]
    BY <1>11 DEF SaveEpoch
  <2>2. AloneAtIt(t) /\ mode' # "booting"
    BY <1>11, <2>1 DEF SetsInv, SaveEpoch
  <2>3. \A u \in Tasks : job'[u].at = "idle"
    BY <1>0, <2>1, <2>2, IdleJob, OneJob DEF AloneAtIt
  <2>4. put' = wall' /\ epoch' = wall'
    BY <2>1, <2>2 DEF AloneAtIt
  <2> QED
    BY <2>2, <2>3, <2>4 DEF SetsInv
<1>12. CASE PeriodicSave
  <2> SUFFICES ASSUME alone', mode' # "erased" PROVE SetsInv'
    BY DEF SetsInv
  <2>1. /\ alone /\ Busy = {} /\ mode = "clock" /\ mode' = "clock"
        /\ wall' = wall /\ put' = put
        /\ job' = [job EXCEPT !["main"] = [at |-> "epoch", time |-> wall, tz |-> None]]
    BY <1>12 DEF PeriodicSave
  <2>2. \A u \in Tasks : job[u].at = "idle"
    BY <2>1 DEF Busy
  <2>3. put = wall
    BY <2>1, <2>2 DEF SetsInv
  <2>4. [at |-> "epoch", time |-> wall, tz |-> None] \in Jobs
    BY <1>0, TimesAre DEF TypeOK, Jobs
  <2>5. /\ job'["main"] = [at |-> "epoch", time |-> wall, tz |-> None]
        /\ \A u \in Tasks : u # "main" => job'[u] = job[u]
    BY <1>0, <2>1, <2>4, OneJob
  <2> QED
    BY <2>1, <2>2, <2>3, <2>5, SetsMoved DEF AloneAtIt
<1>13. CASE ApplyZone
  BY <1>13, SetsKept DEF ApplyZone
<1>14. ASSUME NEW z \in Zones, SetZone(z) PROVE SetsInv'
  BY <1>14, SetsKept DEF SetZone
<1>15. CASE Erase
  BY <1>15 DEF Erase, SetsInv
<1>16. CASE UNCHANGED vars
  BY <1>16, SetsKept DEF vars, history
<1> QED
  BY <1>2, <1>3, <1>5, <1>6, <1>7, <1>8, <1>9, <1>10, <1>11, <1>12, <1>13, <1>14, <1>15, <1>16
  DEF Next

\* A set of the clock that no other overlapped and of which no write failed leaves the
\* system clock, the chip and the saved epoch with the same time.
THEOREM SetsLeaveOneTime == Spec => []SetsAgree
<1>1. Init => SetsInv
  BY DEF Init, SetsInv
<1>2. SetsInv => SetsAgree
  BY DEF SetsInv, SetsAgree, Busy
<1> QED
  BY <1>1, <1>2, ShapeInit, ShapeStep, SetsStep, PTL DEF Spec

-----------------------------------------------------------------------------
(* The Shelly time. *)

\* The table has no more senders than slots, and an entry's time is that of its sender's
\* clock, or late.
TableTrue ==
  /\ DOMAIN s_snd \subseteq Senders
  /\ Cardinality(DOMAIN s_snd) <= MaxSenders
  /\ \A m \in DOMAIN s_snd :
       /\ s_snd[m] \in [age : 0 .. AgeCap, err : Int, clean : BOOLEAN]
       /\ s_snd[m].err \in {Error[m], Error[m] - Late[m]}

\* What the next attempt waits for and what has gone by add up to a day.
DayRuns ==
  /\ nextDaily \in 0 .. Daily
  /\ ntpAge \in 0 .. Daily \cup {Never}
  /\ quiet \in 0 .. Daily + 1
  /\ daily \in BOOLEAN
  /\ daily => quiet + nextDaily <= Daily
  /\ Yields => quiet <= ntpAge

RequestRuns == s_req \in BOOLEAN /\ pending \in 0 .. ReqWait + 1 \cup {Never}

LEMMA ShellySizes ==
  /\ {MaxSenders, Fresh, ReqWait, Daily, FirstDaily, Retry} \subseteq Nat \ {0}
  /\ FirstDaily <= Daily /\ Retry <= Daily
  /\ AgeCap \in Nat /\ AgeCap = Fresh + 1
  /\ Never \notin Int
BY ShellyConstants DEF AgeCap

LEMMA TableFinite ==
  ASSUME TableTrue
  PROVE  IsFiniteSet(DOMAIN s_snd) /\ Cardinality(DOMAIN s_snd) \in Nat
<1>1. IsFiniteSet(DOMAIN s_snd)
  BY ShellyConstants, FS_Subset DEF TableTrue
<1> QED
  BY <1>1, FS_CardinalityType

\* There is a slot for the sender that is heard: its own, a free one, or that of
\* the one it evicts.
LEMMA SlotFound ==
  ASSUME TableTrue, NEW m \in Senders, NEW out \in Evicted(m)
  PROVE  Cardinality((DOMAIN s_snd \ out) \cup {m}) <= MaxSenders
<1> DEFINE D == DOMAIN s_snd
           n == Cardinality(D)
<1>1. IsFiniteSet(D) /\ n \in Nat /\ n <= MaxSenders /\ MaxSenders \in Nat \ {0}
  BY TableFinite, ShellySizes DEF TableTrue
<1>2. CASE m \in D
  <2>1. out = {} /\ (D \ out) \cup {m} = D
    BY <1>2 DEF Evicted
  <2> QED
    BY <1>1, <2>1
<1>3. CASE m \notin D /\ n < MaxSenders
  <2>1. out = {} /\ D \ out = D
    BY <1>3 DEF Evicted
  <2>2. Cardinality(D \cup {m}) = n + 1
    BY <1>1, <1>3, FS_AddElement
  <2> HIDE DEF n
  <2> QED
    BY <1>1, <1>3, <2>1, <2>2
<1>4. CASE m \notin D /\ ~(n < MaxSenders)
  <2>1. PICK o \in D : out = {o}
    BY <1>4 DEF Evicted
  <2>2. IsFiniteSet(D \ out) /\ Cardinality(D \ out) = n - 1 /\ m \notin D \ out
    BY <1>1, <1>4, <2>1, FS_RemoveElement
  <2>3. Cardinality((D \ out) \cup {m}) = (n - 1) + 1
    BY <2>2, FS_AddElement
  <2> HIDE DEF n
  <2> QED
    BY <1>1, <2>3
<1> QED
  BY <1>2, <1>3, <1>4

LEMMA FeedStep ==
  ASSUME TableTrue, NEW m \in Senders, NEW late \in {0, Late[m]}, Feed(m, Error[m] - late)
  PROVE  TableTrue'
<1> DEFINE err == Error[m] - late
           known == m \in DOMAIN s_snd
           clean == known /\ IsFresh(m)
           entry == IF known /\ s_snd[m].age = 0 THEN s_snd[m]
                    ELSE [age |-> 0, err |-> err, clean |-> clean]
<1>1. PICK out \in Evicted(m) :
        s_snd' = [o \in (DOMAIN s_snd \ out) \cup {m} |->
                    IF o = m THEN entry ELSE s_snd[o]]
  BY DEF Feed
<1>2. DOMAIN s_snd' = (DOMAIN s_snd \ out) \cup {m}
  BY <1>1
<1>3. DOMAIN s_snd' \subseteq Senders /\ Cardinality(DOMAIN s_snd') <= MaxSenders
  BY <1>2, SlotFound DEF TableTrue
<1>4. err \in Int /\ err \in {Error[m], Error[m] - Late[m]}
  BY ShellyConstants
<1>5. /\ entry \in [age : 0 .. AgeCap, err : Int, clean : BOOLEAN]
      /\ entry.err \in {Error[m], Error[m] - Late[m]}
  <2>1. CASE known /\ s_snd[m].age = 0
    BY <2>1 DEF TableTrue
  <2>2. CASE ~(known /\ s_snd[m].age = 0)
    <3>1. entry = [age |-> 0, err |-> err, clean |-> clean]
      BY <2>2
    <3>2. clean \in BOOLEAN /\ 0 \in 0 .. AgeCap
      BY ShellySizes
    <3> HIDE DEF clean, err, entry
    <3> QED
      BY <1>4, <3>1, <3>2
  <2> QED
    BY <2>1, <2>2
<1> HIDE DEF entry
<1>6. ASSUME NEW o \in DOMAIN s_snd'
      PROVE  /\ s_snd'[o] \in [age : 0 .. AgeCap, err : Int, clean : BOOLEAN]
             /\ s_snd'[o].err \in {Error[o], Error[o] - Late[o]}
  <2>1. CASE o = m
    BY <1>1, <1>5, <2>1
  <2>2. CASE o # m
    BY <1>1, <1>2, <1>6, <2>2 DEF TableTrue
  <2> QED
    BY <2>1, <2>2
<1> QED
  BY <1>3, <1>6 DEF TableTrue

LEMMA AgeingStep ==
  ASSUME TableTrue,
         s_snd' = [m \in DOMAIN s_snd |-> [s_snd[m] EXCEPT !.age = Older(@, AgeCap)]]
  PROVE  TableTrue'
<1>1. ASSUME NEW m \in DOMAIN s_snd
      PROVE  /\ s_snd'[m] \in [age : 0 .. AgeCap, err : Int, clean : BOOLEAN]
             /\ s_snd'[m].err = s_snd[m].err
  <2>1. s_snd[m] \in [age : 0 .. AgeCap, err : Int, clean : BOOLEAN]
    BY DEF TableTrue
  <2>2. Older(s_snd[m].age, AgeCap) \in 0 .. AgeCap
    BY <2>1, ShellySizes DEF Older
  <2>3. s_snd'[m] = [s_snd[m] EXCEPT !.age = Older(s_snd[m].age, AgeCap)]
    OBVIOUS
  <2> QED
    BY <2>1, <2>2, <2>3
<1>2. DOMAIN s_snd' = DOMAIN s_snd
  OBVIOUS
<1> QED
  BY <1>1, <1>2 DEF TableTrue

LEMMA TableStep == TableTrue /\ [ShellyNext]_shellyVars => TableTrue'
<1> SUFFICES ASSUME TableTrue, [ShellyNext]_shellyVars PROVE TableTrue'
  OBVIOUS
<1>1. ASSUME NEW m \in Senders, Heard(m) PROVE TableTrue'
  BY <1>1, FeedStep DEF Heard
<1>2. CASE UNCHANGED s_snd
  BY <1>2 DEF TableTrue
<1>3. CASE Pass
  BY <1>3, AgeingStep DEF Pass
<1> QED
  BY <1>1, <1>2, <1>3
     DEF ShellyNext, Tick, Request, NtpSync, SetDaily, shellyVars

LEMMA RequestStep == RequestRuns /\ [ShellyNext]_shellyVars => RequestRuns'
<1> SUFFICES ASSUME RequestRuns, [ShellyNext]_shellyVars PROVE RequestRuns'
  OBVIOUS
<1> USE DEF schedule
<1>1. ReqWait \in Nat /\ Never \notin Int
  BY ShellySizes
<1>2. CASE Tick
  <2>1. Waiting \in 0 .. ReqWait + 1 \cup {Never}
    BY <1>1 DEF Waiting, RequestRuns
  <2>2. NextPending \in 0 .. ReqWait + 1 \cup {Never}
    BY <2>1 DEF NextPending
  <2>3. pending' = NextPending /\ s_req' = FALSE
    BY <1>2 DEF Tick
  <2> QED
    BY <2>2, <2>3 DEF RequestRuns
<1>3. CASE Pass
  <2>1. pending # Never => pending \in 0 .. ReqWait
    BY <1>1, <1>3 DEF Pass, NextPending, Waiting, RequestRuns
  <2> QED
    BY <1>1, <1>3, <2>1 DEF Pass, RequestRuns
<1> QED
  BY <1>2, <1>3 DEF ShellyNext, Heard, Request, NtpSync, SetDaily, shellyVars, RequestRuns

LEMMA DayStep == DayRuns /\ [ShellyNext]_shellyVars => DayRuns'
<1> SUFFICES ASSUME DayRuns, [ShellyNext]_shellyVars PROVE DayRuns'
  OBVIOUS
<1> USE DEF schedule
<1>1. /\ Daily \in Nat \ {0} /\ Retry \in Nat /\ Retry <= Daily /\ Never \notin Int
  BY ShellySizes
<1>2. CASE Tick
  <2>1. UNCHANGED <<daily, ntpAge>>
    BY <1>2 DEF Tick
  <2>2. CASE Due /\ Yields
    <3>1. ntpAge \in 0 .. Daily - 1 /\ quiet <= ntpAge
      BY <1>1, <2>2 DEF DayRuns, Yields
    <3>2. nextDaily' = Daily - ntpAge /\ quiet' = quiet
      BY <1>2, <2>2 DEF Tick, PutOff
    <3>3. nextDaily' \in 0 .. Daily /\ quiet' + nextDaily' <= Daily
      BY <1>1, <3>1, <3>2 DEF DayRuns
    <3> QED
      BY <2>1, <3>1, <3>2, <3>3 DEF DayRuns, Yields
  <2>3. CASE Due /\ ~Yields
    <3>1. nextDaily' \in 0 .. Daily /\ quiet' = 0
      BY <1>1, <1>2, <2>3 DEF Tick, PutOff
    <3>2. quiet' + nextDaily' <= Daily
      <4>1. \A n \in 0 .. Daily : 0 + n <= Daily
        BY <1>1
      <4> QED
        BY <3>1, <4>1
    <3>3. quiet' \in 0 .. Daily + 1
      BY <1>1, <3>1
    <3>4. Yields' => quiet' <= ntpAge'
      BY <2>1, <2>3 DEF Yields
    <3> QED
      BY <2>1, <3>1, <3>2, <3>3, <3>4 DEF DayRuns
  <2>4. CASE ~Due
    <3>1. nextDaily' = nextDaily /\ quiet' = quiet
      BY <1>2, <2>4 DEF Tick
    <3> QED
      BY <2>1, <3>1 DEF DayRuns, Yields
  <2> QED
    BY <2>2, <2>3, <2>4
<1>3. CASE NtpSync
  BY <1>1, <1>3 DEF NtpSync, DayRuns, Yields
<1>4. CASE SetDaily
  BY <1>1, <1>4 DEF SetDaily, DayRuns, Yields
<1>5. CASE Pass
  <2>1. daily => nextDaily # 0
    BY <1>5 DEF Pass, Due
  <2>2. /\ nextDaily' = IF nextDaily = 0 THEN 0 ELSE nextDaily - 1
        /\ ntpAge' = Older(ntpAge, Daily)
        /\ quiet' = Older(quiet, Daily + 1)
        /\ daily' = daily
    BY <1>5 DEF Pass
  <2>3. nextDaily' \in 0 .. Daily /\ quiet' \in 0 .. Daily + 1
    BY <1>1, <2>2 DEF DayRuns, Older
  <2>4. ntpAge' \in 0 .. Daily \cup {Never}
    BY <1>1, <2>2 DEF DayRuns, Older
  <2>5. daily => quiet' + nextDaily' <= Daily
    BY <1>1, <2>1, <2>2 DEF DayRuns, Older
  <2>6. Yields' => quiet' <= ntpAge'
    BY <1>1, <2>2 DEF DayRuns, Older, Yields
  <2> QED
    BY <2>2, <2>3, <2>4, <2>5, <2>6 DEF DayRuns
<1> QED
  BY <1>2, <1>3, <1>4, <1>5
     DEF ShellyNext, Heard, Request, shellyVars, DayRuns, Yields

ShellyInv == TableTrue /\ RequestRuns /\ DayRuns

LEMMA ShellyStarts == ShellyInit => ShellyInv
<1> SUFFICES ASSUME ShellyInit PROVE ShellyInv
  OBVIOUS
<1>1. TableTrue
  <2>1. DOMAIN s_snd = {}
    BY DEF ShellyInit
  <2>2. Cardinality(DOMAIN s_snd) <= MaxSenders
    BY <2>1, FS_EmptySet, ShellySizes
  <2> QED
    BY <2>1, <2>2 DEF TableTrue
<1>2. RequestRuns
  BY DEF ShellyInit, RequestRuns
<1>3. DayRuns
  BY ShellySizes DEF ShellyInit, DayRuns, Yields
<1> QED
  BY <1>1, <1>2, <1>3 DEF ShellyInv

LEMMA ShellyInvariant == ShellySpec => []ShellyInv
<1>1. ShellyInv /\ [ShellyNext]_shellyVars => ShellyInv'
  BY TableStep, RequestStep, DayStep DEF ShellyInv
<1> QED
  BY <1>1, ShellyStarts, PTL DEF ShellySpec

\* The table never holds more senders than it has slots, and every age and timer keeps
\* its range, for any senders and times.
THEOREM ShellyTypes == ShellySpec => []ShellyTypeOK
<1>1. ShellyInv => ShellyTypeOK
  BY DEF ShellyInv, TableTrue, RequestRuns, DayRuns, ShellyTypeOK
<1> QED
  BY <1>1, ShellyInvariant, PTL

\* No day is missed, however NTP, the settings and the attempts interleave.
THEOREM NoDayIsMissed == ShellySpec => []NoDayMissed
<1>1. ShellyInv => NoDayMissed
  BY ShellySizes DEF ShellyInv, DayRuns, NoDayMissed
<1> QED
  BY <1>1, ShellyInvariant, PTL

-----------------------------------------------------------------------------
(* The median. *)

NatLess == {ss \in Nat \X Nat : ss[1] < ss[2]}

\* The least number principle.
LEMMA LeastNumber ==
  ASSUME NEW T, T \subseteq Nat, T # {}
  PROVE  \E m \in T : \A n \in T : m <= n
<1>1. IsWellFoundedOn(NatLess, Nat)
  BY NatLessThanWellFounded, Zenon DEF OpToRel, NatLess
<1>2. PICK m \in T : \A n \in T : <<n, m>> \notin NatLess
  BY <1>1, WFMin
<1>3. \A n \in T : n \in Nat /\ m \in Nat /\ ~(n < m)
  BY <1>2 DEF NatLess
<1>4. \A n \in T : m <= n
  BY <1>3
<1> QED
  BY <1>4

\* A finite set of readings has a latest one; those later than it would be fewer.
LEMMA LatestExists ==
  ASSUME NEW S, IsFiniteSet(S), S # {}, NEW f \in [S -> Int]
  PROVE  \E q \in S : \A p \in S : f[p] <= f[q]
<1> DEFINE Later(q) == {p \in S : f[p] > f[q]}
           counts == {Cardinality(Later(q)) : q \in S}
<1>1. \A q \in S : IsFiniteSet(Later(q)) /\ Cardinality(Later(q)) \in Nat
  BY FS_Subset, FS_CardinalityType
<1>2. counts \subseteq Nat /\ counts # {}
  BY <1>1
<1>3. PICK c \in counts : \A n \in counts : c <= n
  <2> HIDE DEF counts
  <2> QED
    BY <1>2, LeastNumber
<1>4. PICK q \in S : c = Cardinality(Later(q))
  BY <1>3
<1>5. ASSUME NEW p \in S, ~(f[p] <= f[q]) PROVE FALSE
  <2>1. f[p] > f[q] /\ f[p] \in Int /\ f[q] \in Int
    BY <1>5
  <2>2. Later(p) \in SUBSET Later(q) /\ p \in Later(q) /\ p \notin Later(p)
    BY <2>1
  <2>3. Later(p) # Later(q)
    BY <2>2
  <2>4. Cardinality(Later(p)) <= Cardinality(Later(q))
          /\ Cardinality(Later(p)) # Cardinality(Later(q))
    <3> HIDE DEF Later
    <3> QED
      BY <1>1, <2>2, <2>3, FS_Subset
  <2>5. Cardinality(Later(p)) \in counts
    OBVIOUS
  <2>6. c <= Cardinality(Later(p)) /\ c \in Nat /\ Cardinality(Later(p)) \in Nat
    BY <1>1, <1>2, <1>3, <2>5
  <2> HIDE DEF Later
  <2> QED
    BY <1>4, <2>4, <2>6
<1> QED
  BY <1>5

\* And an earliest one.
LEMMA EarliestExists ==
  ASSUME NEW S, IsFiniteSet(S), S # {}, NEW f \in [S -> Int]
  PROVE  \E q \in S : \A p \in S : f[q] <= f[p]
<1> DEFINE g == [p \in S |-> -f[p]]
<1>1. g \in [S -> Int]
  OBVIOUS
<1>2. PICK q \in S : \A p \in S : g[p] <= g[q]
  <2> HIDE DEF g
  <2> QED
    BY <1>1, LatestExists
<1>3. \A p \in S : g[p] = -f[p] /\ f[p] \in Int /\ f[q] \in Int
  OBVIOUS
<1>4. ASSUME NEW p \in S PROVE f[q] <= f[p]
  <2>1. -f[p] <= -f[q]
    BY <1>2, <1>3
  <2> QED
    BY <1>3, <2>1
<1> QED
  BY <1>4

\* Readings no later, and earlier, than that of q.
Upto(S, f, q) == {p \in S : f[p] <= f[q]}
Before(S, f, q) == {p \in S : f[p] < f[q]}

\* Readings have a median: of those that more than half are no later than, the
\* earliest.
LEMMA MedianExists ==
  ASSUME NEW S, IsFiniteSet(S), S # {}, NEW f \in [S -> Int],
         NEW half \in Nat, half < Cardinality(S)
  PROVE  \E q \in S : /\ Cardinality(Before(S, f, q)) <= half
                      /\ half < Cardinality(Upto(S, f, q))
<1> USE DEF Upto, Before
<1> DEFINE T == {q \in S : half < Cardinality(Upto(S, f, q))}
<1>1. T # {} /\ IsFiniteSet(T)
  <2>1. PICK q \in S : \A p \in S : f[p] <= f[q]
    BY LatestExists
  <2>2. Upto(S, f, q) = S
    BY <2>1
  <2> QED
    BY <2>2, FS_Subset
<1>2. PICK q \in T : \A p \in T : f[q] <= f[p]
  <2>1. [p \in T |-> f[p]] \in [T -> Int]
    OBVIOUS
  <2>2. PICK q \in T : \A p \in T : [r \in T |-> f[r]][q] <= [r \in T |-> f[r]][p]
    <3> HIDE DEF T
    <3> QED
      BY <1>1, <2>1, EarliestExists
  <2> QED
    BY <2>2
<1>3. Cardinality(Before(S, f, q)) <= half
  <2>1. CASE Before(S, f, q) = {}
    BY <2>1, FS_EmptySet
  <2>2. CASE Before(S, f, q) # {}
    <3>1. IsFiniteSet(Before(S, f, q)) /\ [p \in Before(S, f, q) |-> f[p]] \in [Before(S, f, q) -> Int]
      BY FS_Subset
    <3>2. PICK l \in Before(S, f, q) : \A p \in Before(S, f, q) : f[p] <= f[l]
      <4>1. PICK l \in Before(S, f, q) : \A p \in Before(S, f, q) :
                [r \in Before(S, f, q) |-> f[r]][p] <= [r \in Before(S, f, q) |-> f[r]][l]
        <5> HIDE DEF Before
        <5> QED
          BY <2>2, <3>1, LatestExists
      <4> QED
        BY <4>1
    <3>3. l \in S /\ f[l] < f[q] /\ f[l] \in Int /\ f[q] \in Int
      OBVIOUS
    <3>4. Upto(S, f, l) = Before(S, f, q)
      <4>1. \A p \in Upto(S, f, l) : p \in Before(S, f, q)
        BY <3>3
      <4>2. \A p \in Before(S, f, q) : p \in Upto(S, f, l)
        BY <3>2
      <4> QED
        BY <4>1, <4>2
    <3>5. l \notin T
      BY <1>2, <3>3
    <3>6. Cardinality(Upto(S, f, l)) \in Nat
      BY FS_Subset, FS_CardinalityType
    <3>7. ~(half < Cardinality(Upto(S, f, l)))
      BY <3>3, <3>5
    <3>8. Cardinality(Upto(S, f, l)) <= half
      <4> HIDE DEF Upto
      <4> QED
        BY <3>6, <3>7
    <3> QED
      BY <3>4, <3>8
  <2> QED
    BY <2>1, <2>2
<1> QED
  BY <1>2, <1>3

LEMMA PoolType ==
  ASSUME TableTrue
  PROVE  /\ Pool \subseteq DOMAIN s_snd
         /\ IsFiniteSet(Pool)
         /\ Cardinality(Pool) \in Nat
<1>1. Pool \in SUBSET DOMAIN s_snd
  BY DEF Pool
<1> QED
  BY <1>1, TableFinite, FS_Subset, FS_CardinalityType

LEMMA HalfOf ==
  ASSUME NEW n \in Nat
  PROVE  /\ n \div 2 \in Nat
         /\ 2 * (n \div 2) <= n
         /\ n <= 2 * (n \div 2) + 1
OBVIOUS

\* try_sync sets the clock to a median.
LEMMA MedianIs ==
  ASSUME TableTrue, Pool # {}
  PROVE  Median(Pool) \in Int /\ IsMedian(Median(Pool), Pool)
<1> DEFINE n == Cardinality(Pool)
           half == n \div 2
           f == [m \in Pool |-> s_snd[m].err]
<1>1. f \in [Pool -> Int]
  BY PoolType DEF TableTrue
<1>2. n \in Nat /\ n # 0 /\ IsFiniteSet(Pool)
  BY PoolType, FS_EmptySet
<1>3. half \in Nat /\ half < n
  <2> HIDE DEF n
  <2> QED
    BY <1>2, HalfOf
<1>4. PICK q \in Pool : /\ Cardinality(Before(Pool, f, q)) <= half
                        /\ half < Cardinality(Upto(Pool, f, q))
  <2>1. half < Cardinality(Pool) /\ Pool # {}
    BY <1>3
  <2> HIDE DEF f, half, n
  <2> QED
    BY <1>1, <1>2, <1>3, <2>1, MedianExists
<1>5. /\ Before(Pool, f, q) = {p \in Pool : s_snd[p].err < s_snd[q].err}
      /\ Upto(Pool, f, q) = {p \in Pool : s_snd[p].err <= s_snd[q].err}
  BY DEF Before, Upto
<1>6. IsMedian(s_snd[q].err, Pool)
  BY <1>4, <1>5 DEF IsMedian
<1>7. Median(Pool) \in {s_snd[m].err : m \in Pool} /\ IsMedian(Median(Pool), Pool)
  BY <1>6 DEF Median
<1>8. \A m \in Pool : s_snd[m].err \in Int
  BY PoolType DEF TableTrue
<1> QED
  BY <1>7, <1>8

LEMMA MajorityIs == TableTrue => MajorityRules
<1> SUFFICES ASSUME TableTrue, 2 * Cardinality(Pool \cap Right) > Cardinality(Pool)
             PROVE  \E m \in Pool \cap Right : Median(Pool) \in -Late[m] .. 0
  BY DEF MajorityRules
<1> DEFINE n == Cardinality(Pool)
           half == n \div 2
           R == Pool \cap Right
           k == Cardinality(R)
           e == Median(Pool)
           before == {m \in Pool : s_snd[m].err < e}
           upto == {m \in Pool : s_snd[m].err <= e}
<1>1. IsFiniteSet(Pool) /\ n \in Nat
  BY PoolType
<1>2. IsFiniteSet(R) /\ k \in Nat
  BY <1>1, FS_Intersection, FS_CardinalityType
<1>3. IsFiniteSet(before) /\ Cardinality(before) \in Nat
      /\ IsFiniteSet(upto) /\ Cardinality(upto) \in Nat
  BY <1>1, FS_Subset, FS_CardinalityType
<1>4. Pool # {}
  <2> SUFFICES ASSUME Pool = {} PROVE FALSE
    OBVIOUS
  <2>1. R = {} /\ Cardinality(R) = 0 /\ Cardinality(Pool) = 0
    BY FS_EmptySet
  <2> QED
    BY <2>1
<1>5. e \in Int /\ Cardinality(before) <= half /\ half < Cardinality(upto)
  BY <1>4, MedianIs DEF IsMedian
<1>6. half \in Nat /\ 2 * half <= n /\ n <= 2 * half + 1 /\ 2 * k > n
  <2>1. 2 * k > n
    OBVIOUS
  <2> HIDE DEF n, k
  <2> QED
    BY <1>1, <2>1, HalfOf
<1>7. \A m \in R : /\ s_snd[m].err \in Int /\ Late[m] \in Nat
                   /\ s_snd[m].err \in {0, -Late[m]}
  <2> TAKE m \in R
  <2>1. m \in DOMAIN s_snd /\ m \in Senders /\ Error[m] = 0
    BY PoolType DEF TableTrue, Right
  <2>2. Late[m] \in Nat /\ 0 - Late[m] = -Late[m]
    BY <2>1, ShellyConstants
  <2> QED
    BY <2>1, <2>2 DEF TableTrue
<1> SUFFICES ASSUME \A m \in R : ~(e \in -Late[m] .. 0)
             PROVE  FALSE
  OBVIOUS
<1> HIDE DEF e
\* A median after the true time is after every right sender's.
<1>8. CASE e > 0
  <2>1. R \in SUBSET before
    BY <1>5, <1>7, <1>8
  <2>2. k <= Cardinality(before)
    <3> HIDE DEF R, before
    <3> QED
      BY <1>3, <2>1, FS_Subset
  <2> HIDE DEF before, n, half, k
  <2> QED
    BY <1>1, <1>2, <1>3, <1>5, <1>6, <2>2
\* One before it, and before the latest a right one may be, before every right one's.
<1>9. CASE e <= 0
  <2>1. \A m \in R : e < s_snd[m].err
    BY <1>5, <1>7, <1>9
  <2>2. R \cap upto = {}
    <3>1. \A m \in R : ~(s_snd[m].err <= e)
      BY <1>5, <1>7, <2>1
    <3> QED
      BY <3>1
  <2>3. k + Cardinality(upto) <= n
    <3>1. ~(k + Cardinality(upto) > n)
      <4>1. R \subseteq Pool /\ upto \subseteq Pool
        OBVIOUS
      <4> HIDE DEF R, upto
      <4> QED
        BY <1>1, <2>2, <4>1, FS_MajoritiesIntersect
    <3> HIDE DEF k, n, upto
    <3> QED
      BY <1>1, <1>2, <1>3, <3>1
  <2> HIDE DEF upto, n, half, k
  <2> QED
    BY <1>1, <1>2, <1>3, <1>5, <1>6, <2>3
<1> QED
  BY <1>5, <1>8, <1>9

\* Most of the senders being right, the clock is set right, for any senders, errors and
\* latenesses and any table.
THEOREM MajorityIsRight == ShellySpec => []MajorityRules
<1>1. ShellyInv => MajorityRules
  BY MajorityIs DEF ShellyInv
<1> QED
  BY <1>1, ShellyInvariant, PTL

-----------------------------------------------------------------------------
(* What the answer to a request rests on.                                  *)

\* After a turn of the main loop it has nothing left to do: no request, no attempt that
\* is due, and no waiting that a further turn would end.
OneTickIsEnough == [][Tick => ~s_req' /\ ~Due' /\ NextPending' = pending']_shellyVars

\* One turn is enough to leave the Shelly time at rest until time passes, so that it does
\* pass and a request that finds no sender runs into its timeout.
THEOREM TickLeavesNothing == ShellySpec => OneTickIsEnough
<1>1. ASSUME ShellyInv, Tick PROVE ~s_req' /\ ~Due' /\ NextPending' = pending'
  <2>1. ~s_req' /\ UNCHANGED <<s_snd, daily, ntpAge>>
    BY <1>1 DEF Tick
  <2>2. /\ Daily \in Nat \ {0} /\ Retry \in Nat \ {0} /\ ReqWait \in Nat
        /\ Never \notin Int
    BY ShellySizes
  <2>3. ~Due'
    <3>1. CASE Due
      <4>1. nextDaily' = PutOff
        BY <1>1, <3>1 DEF Tick
      <4>2. PutOff # 0
        <5>1. CASE Yields
          <6>1. ntpAge \in 0 .. Daily - 1
            BY <1>1, <2>2, <5>1 DEF Yields, ShellyInv, DayRuns
          <6>2. PutOff = Daily - ntpAge
            BY <5>1 DEF PutOff
          <6> QED
            BY <2>2, <6>1, <6>2
        <5>2. CASE ~Yields
          BY <2>2, <5>2 DEF PutOff
        <5> QED
          BY <5>1, <5>2
      <4> QED
        BY <4>1, <4>2 DEF Due
    <3>2. CASE ~Due
      BY <1>1, <3>2 DEF Tick, Due
    <3> QED
      BY <3>1, <3>2
  <2>4. NextPending' = pending'
    <3>1. Pool' = Pool
      BY <2>1 DEF Pool, IsFresh
    <3>2. Synced' <=> Synced
      BY <3>1 DEF Synced
    <3>3. pending' = NextPending /\ Waiting' = pending'
      BY <1>1 DEF Tick, Waiting
    <3>4. NextPending # Never =>
            NextPending = Waiting /\ ~Synced /\ ~(Waiting > ReqWait)
      BY DEF NextPending
    <3>5. CASE pending' = Never
      BY <3>3, <3>5 DEF NextPending
    <3>6. CASE pending' # Never
      <4>1. Waiting' = Waiting /\ ~Synced' /\ ~(Waiting > ReqWait)
        BY <3>2, <3>3, <3>4, <3>6
      <4>2. ~(Waiting' > ReqWait) /\ Waiting' # Never
        BY <3>3, <3>6, <4>1
      <4> QED
        BY <3>3, <4>1, <4>2 DEF NextPending
    <3> QED
      BY <3>5, <3>6
  <2> QED
    BY <2>1, <2>3, <2>4
<1>2. ShellyInv /\ [ShellyNext]_shellyVars =>
        [Tick => ~s_req' /\ ~Due' /\ NextPending' = pending']_shellyVars
  BY <1>1
<1> QED
  BY <1>2, ShellyInvariant, PTL DEF ShellySpec, OneTickIsEnough

===============================================================================
