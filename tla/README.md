# NixieClock in TLA+

Specifications of the firmware of the six-tube Nixie clock (ESP32, ESP-IDF, C),
the TLC models that check them and the theorems TLAPS proves about them. Paths
are relative to the root of the repository; the firmware is in `src/src/main.c`
and `src/components/`.

`PROJECT.json` lists the components, runs, mutants, findings, hazards and
theorems, and maps every definition to the lines it stands for.

## 1. The system

### Tasks

| task | what it does | state it owns |
|---|---|---|
| main loop (`app_main`, every 50 ms) | buttons, refresh of the settings, alarm tick, scrub, one frame on the tubes, I2C, epoch saved to flash | `cfg`, `cfg_ver`, `last_level`, all of antipoison, buttons, alarm's tick |
| refresh interrupt (GPTimer) | selects one tube after the other, samples the button of the lit one | `s_key_bits`, the scan of `nixie.c` |
| buzzer player | plays the melody in `s_rtttl`, note by note | `s_active`, `s_gen`, `s_loop` shared with everyone who plays or stops |
| httpd worker | settings, actions, time, network form, firmware update | none; calls the other components |
| MQTT client task and `state_task` | commands; publish the state document and discovery | `s_connected`, availability and discovery retained at the broker |
| NimBLE host | advertisements of sensors and of Shelly time beacons | device table, `sender_t` table |
| temperature poll | OneWire scans and reads | snapshots, fed to the slots |
| SNTP callback | the clock has been corrected: RTC and flash follow | `s_last_sync_ms` |

They share state in three ways: under a mutex (settings, alarm, temperatures,
BLE devices, Shelly senders, web log), through single volatile variables
(buzzer, trigger and sync requests, the held-off tubes), and through flash.
Nothing is queued; every request is a call from the requester's task.

### Components

| component | state | operations | what is hard | what makes it correct | modelled in |
|---|---|---|---|---|---|
| settings store | record, version number, blob in flash | init (load, migrate, default), get, set, version | copies taken and put back without a lock in between; failed writes; power failures; polling of the version | flash and RAM agree; a request changes one field; the main loop is not stale | `Settings` |
| control core | none | apply one key, state document | shared by httpd and MQTT | as above | `Settings` |
| alarm | idle/ringing/snoozed, fired key, dismissed day | tick, snooze, dismiss, preview | midnight, clock put back, edits, three tasks | no occurrence missed or rung twice; a snooze ends; dismissed means dismissed | `Alarm`, `AlarmBuzzer` |
| buzzer | `s_loop`, `s_active`, `s_gen`, melody | play, stop, player task | unlocked variables read and written by two sides | a ringing alarm is heard, a stopped one falls silent | `AlarmBuzzer` |
| anti-poison | running, waiting, saved brightness, times | trigger, tick | owns tubes and brightness for a while; interludes; the alarm rings over it | brightness comes back; interludes are kept; runs are not starved and end | `Scrub` |
| buttons | debounce and hold times, combination | init, tick | samples freeze while a tube is dark; bounces; combinations | events say what the fingers did | `Panel` |
| Nixie driver | digits, brightness, scan, held off | set, brightness, hold off, interrupt | the interrupt against everyone | one tube lit; dark while held off | `Panel` (sampling), `Scrub` (brightness) |
| main loop | the rest of the frame, boot sequence, zone, epoch | one turn | order of the calls in a turn | the pieces above fit together | in part, in every module |
| network clock, RTC, Shelly time, set time | system clock, RTC contents and format, marker in flash, saved epoch, senders | SNTP callback, get/set epoch, migration, feed, tick, `/api/settime` | power failure between chip and marker; four sources of time | time never off by the zone; a wrong sender does not win | `Clock`, `Shelly` |
| network credentials, provisioning | keys in flash, one-shot flag | get, set, factory reset, portal | several keys, written one by one, power failures | new network with new password; a reset clock ends in the portal | `Network` |
| MQTT | connection, what the broker retains (availability, discovery; not the state document), version published | commands, publish, discovery, reconnect | two publishers, lost connections | the broker ends with the present state | `Publisher` |
| temperatures, BLE scan | slots, snapshots, device table, slot map | scan, poll, feed, configure | slots re-assigned between look-up and feed | a slot shows its own sensor and nothing stale | `Sensors` |
| firmware update (web) | upload, held-off tubes, boot partition | begin, receive, end, abort | every failure path; interrupts stalled by flash writes | tubes are lit again or the clock restarts; only a whole image boots | not modelled (section 6) |
| web log | ring buffer | vprintf hook, read | wrap-around | readers get the last bytes, in order | not modelled |
| light sensor, I2C, pins | presence | read | none: pure I/O | - | not modelled |
| case, boards | - | - | no code | - | not modelled |

## 2. The modules

### Settings

`s_cfg`, `s_ver` and the blob `nvs` are the store of `settings.c`. A task that
serves a request is `handler[w]`: `Take` is `settings_get` and the edit of the
copy in `control_apply_kv` (`Apply`) or in `nudge_brightness` and the alarm
toggle (`Press`), `Set` is `settings_set`. Each is a step of its own, because
each holds `s_lock` and nothing holds it in between. A write to flash succeeds
or fails, and a failed one may still have replaced the blob; RAM is changed
either way and the version only on success (`Put`). `RefreshCopy` and
`RefreshVersion` are the two calls at `main.c:433-434`. `PowerLoss` may come at
any time; `Boot` reads the blob as `settings_init` does: version 7 as it is,
version 6 with the appended tail replaced by its defaults, anything else by the
factory defaults. While the power is off, `s_cfg` is what the clock was last used with; before
the first boot, that is what the blob holds, or the factory defaults if it holds nothing.
`PowerCycleKeeps` says that a boot that finds its partition usable brings exactly this back,
with the appended fields at their factory values when it is the update from version 6.

History variables: `fresh` (whose copy nobody overtook), `unsaved` (the last
write failed), `raced` (a set fell between the two reads). No action of the code
reads them.

### AlarmPromise, Alarm, AlarmBuzzer

`AlarmPromise` says what an alarm is for: it sounds for an occurrence it has not
just sounded for, then pauses, resumes or falls quiet. Two modules implement it.

`Alarm` has one action per call, each under the alarm's lock: `Tick` with its
four branches (`Fire`, `SnoozeOver`, `KeepRinging`, `Wait`) and `TickDisabled`,
`Snooze`, `Dismiss`, `Preview`. Time is the local minute, `wall`, counted from
the midnight of day 0, so that a key (`tm_yday * 1440 + minute`) is a minute and
`Day` of it is the day of the year. `Minute` lets a minute pass, after the loop
has seen it; `PutBack` is the hour that repeats at the end of summer time or a
correction. `Edit` is the main loop's refresh with another alarm. The buzzer is
what it was last told.

`AlarmBuzzer` has the same calls statement by statement, together with the
player task. Whether it is time to ring is a choice here. `s_gen++` is a read and
a write. The lock excludes the callers that take it; the preview takes none, and
the player reads and writes `s_active` and `s_gen` outside it.

### Scrub

One step per frame of the main loop: `ScrubFrame` (a run begins or goes on),
`LastScrubFrame` (it ends and the clock is drawn in the same frame),
`ClockFrame`, `OtherFrame` (the alarm rings or the time is not known, and
`antipoison_tick` is not called). Each has the calls of that frame that touch
brightness, in their order: `begin` saves and raises it, `end` restores it, and
the main loop pushes the level it computed if it differs from `last_level`.
`MayStart` is `scrub_may_start`, over the seconds of a minute. Between frames a
task may `Trigger`, the alarm may start or stop ringing, the level may change and
the time may become known.

### Panel

The samples of the driver, the debouncing and classification of `buttons_tick`
and what fingers and contacts do. A contact that has just moved may read as
anything for `Bounce` turns; a button whose tube is dark in the present frame
keeps its sample. `Tick` is one call of `buttons_tick`; `Ticked` is the loop's
body for one button, `ComboHeld` and `Toggles` the combination. A provision or
factory-reset event restarts the clock, and with it all of this state; of a press
that goes on meanwhile the restarted clock has not seen all (`blind`), nor of one in
which a dark tube kept a sample that was no longer true.

A turn is 50 ms and a button is debounced for 30 ms, so `DebounceTime` is one
turn. `Debounced` says what the window is for: a contact bounces no longer than it,
and a finger stays (or stays away) longer than both together. The frames that leave tubes dark are those of the IP display, of the
ringing flash, of the confirmation blink and of the temperatures; the model lets
any frame of `DarkSets` follow any other.

### Network

`nvs` has one key per field, as flash has. A form is being stored while `web.at`
is not 0: `PutKey` is one `put()` of `netcfg.c`, which leaves the key alone,
stores it, or fails and ends its group, WiFi (two keys) or MQTT (three). `NetPuts`
and `PortalPuts` are what `netset_post` and `save_post` make of blank fields;
`Effective` is `netcfg_get`. `conf` is what the running clock was given:
`JoinNetwork` at boot, and `UseMqtt` when a form or the broker test calls
`mqttctrl_reconnect`. `Boot` is the gate of `provision_requested`; `Erase`,
`Flag` and `Restart` are the three things a factory reset does, on whichever task
it was asked for, beside a form that another task may be storing. The power may
fail between any two of these steps.

History variables: `asked`, what the owner was told the clock has, `whole` (no
form was left stored in part) and `borrowed` (a blank field relied on a value of
`secrets.h`, which an SSID in flash switches off).

### Clock

Every time is its distance from true UTC, so clocks that run need no step. The
system clock, the chip and the saved epoch are set one after the other by three
tasks: `job[t]` is what task `t` writes next. `WriteChip`, `WriteMarker` and
`SaveEpoch` are `rtc_set_epoch`, `settings_mark_rtc_utc` and
`settings_persist_epoch`, each of which may fail; `ShellySync`, `SntpSync` with
`OnTimeSync`, and `WebSetTime` or `WebSetZone` with `WebSetEnv` begin them.
`BootFromChip`, `BootMigrating`, `BootWithoutChip` and `BootPortal` are the ways
to start. A chip without the marker holds local time; `put` is the time last
given to it, `misread` that the marker says the wrong thing about it. `zone`,
`cfgTz` and `env` are the zone of the settings, of the main loop's copy and of
`setenv`; `tzRaced` that the zone was changed between a request's two writes, or
again before the main loop had seen the first change.

### Shelly

The table of senders, `Feed` with its eviction, and `Tick`, which takes the median
of the fresh senders for a request or for the day. A unit of time is the ten
seconds in which a Shelly sends one stamp, in a burst of packets of which any are
lost: `late` is how much of it was missed. `Pass` lets a unit pass once the main
loop has nothing left to do, for it runs some two hundred times in one. That the
clock is then set is `ShellySync` of `Clock`.

`MajorityRules` speaks of the senders that are right (`Right`): if they are more than
half of those gone by, the median is not later than the true time, and not earlier
than a right sender heard late makes it, whatever the others say. The names of
`Shelly`'s and `Publisher`'s specifications have a prefix (`ShellySpec`,
`PublisherNext`), because the proofs about each share a module with those about
another component.

### Sensors

A slot with its three sources, the 1-Wire task with its scan, reads and fan-out,
and the Bluetooth host with its device table and slot map. `TempsApply` and
`BlescanApply` are the two calls by which the main loop applies the settings, and
all other tasks run between them. `Hear` is `bthome_handle` up to its unlock;
`SetShelly` and `SetBattery` feed the slot afterwards, whatever it has become.
`Registered` is the table after `find_or_add`, the last heard last: the entry of
the sensor, a new one, or one for which that of the sensor unheard for longest is given up.
The slots share nothing but the sensors, so one stands for both. The bus holds any
set of sensors at a scan, and any of them may not answer a read. `Never` is the age of
a sensor that a scan has found and no read has answered (`ts_ms` of 0), which `FanOut` passes over.

### Publisher

The MQTT client's task and `mqtt_state`, each of which announces (`Announce`),
renders (`Render`) and sends (`Publish`) in steps of its own; the client's outbox
of QoS 1 messages; the connection, which breaks, or is ended by `mqttctrl_reconnect` or by a
restart; and the broker with its will. The broker retains the availability and the sensors'
discovery. It does not retain the state document (`mqttctrl.c:250`): `doc` is the one it was
sent last, by which whoever listened goes; one sent while the connection is gone is lost.

`mqttctrl_reconnect` is three actions for its three outcomes. Without a broker it stops
the client (`ClearBroker`) and then notes that it is not connected (`Stopped`); of what the
stopped client had yet to deliver, all or nothing is left. With a broker it starts an
idle client (`SetBroker`) or bounces a running one (`Reconnect`). `idle` says that no broker is
configured; a restart comes up with one or without. It is always the same broker: one that
replaces another knows nothing of the clock and gets everything from `Connected`.

## 3. The runs

| run | instance | shows |
|---|---|---|
| `settings` | httpd, MQTT, main loop; an old field and one of the tail; 2 values; 3 requests, 2 boots | flash holds what RAM holds unless a write failed; a boot brings every setting back, and an update adds the appended ones; undisturbed requests change one field; the main loop is current unless a set fell between its reads |
| `alarm` | days of 4 minutes, 11 of them; alarms at 0 and 3, daily or one weekday; snooze 0 or 1; 3 corrections, edits or previews; corrections of up to 2 minutes | nothing missed, nothing twice, dismissed until midnight, snoozes end, `AlarmPromise` is kept |
| `alarm_buzzer` | main loop and one worker, 2 notes, 1 ring, 2 commands | a ringing alarm is heard, a stopped one falls silent, `AlarmPromise` is kept |
| `alarm_buzzer_stop` | same | a stop can be missed by the player (violation) |
| `scrub` | minute of 5 seconds of 2 frames; no, one and two gaps, shorter and longer than a run; periodic or manual | interludes are kept, a run is held back for a minute at most, brightness is handed back unless the alarm rang over the run, runs end |
| `panel` | all four kinds of buttons, 2 fingers, bounce 1, provision 3, reset 5, snooze 2, combination 3 turns | holds are real and events unique as long as the tubes were lit; sampled buttons become stable; the combination is held and toggles once |
| `panel_frozen` | provision button alone | a tap becomes a hold while its tube is dark (violation) |
| `network` | two networks, one compiled in; five forms: all fields, WiFi with and without a password, MQTT only, a new user | the next boot finds what was asked for unless a form was torn or relied on `secrets.h`; the MQTT client has what flash says |
| `clock` | one source wrong by two units, two zones one unit apart, misreadings of up to one unit | a clock seeded from its chip shows what the chip was given; an undisturbed set leaves all three clocks equal; local time is made with the zone of the settings |
| `shelly` | four senders for three slots, one wrong by seven seconds, one that may be heard three seconds late; a day of three units | a right majority wins; no day passes without an attempt or NTP; every request is answered |
| `sensors` | two DS18B20s, two Shellies, tables of one, fresh for two polls | a slot shows its source, its ROM and its Shelly, and nothing silent |
| `publisher` | one DS18B20, one further version of settings and of the rest, two scans, two breaks or clearings of the broker | every sensor is announced once its scan is noted; the broker ends up true |

Every passing property has a mutant of the code in its module (a dropped guard, a
missing reset, a wrong operand) that breaks it; they are defined next to the
definition they replace and are used by no specification.

### Bounds, and why they are enough

- *Settings.* Two requests that overlap are enough to lose an update and one set
  in a refresh to go stale; three requests let each happen after the other, two
  boots let a record be migrated, changed and read again. Two fields tell the
  requested one from the others, and the old part of the record from its tail.
- *Alarm.* A day has to be longer than the corrections, a snooze and a ring; four
  minutes let a ring begin on one day and be dismissed on the next, and eleven
  minutes hold two midnights and the alarms on either side of each. `MaxBack`
  (corrections behind the latest time shown, in total less than a day) is a real
  restriction: the code remembers one key and one day, so a clock put back by
  days does ring again.
- *AlarmBuzzer.* A ring and two commands, any of snooze, dismissal and preview
  from either task, give a stop and a play that overlap with each other, with the
  tick and with the player; one pause and one pitched note tell "plays" from
  "sounds". The generation is a natural number: it wraps only after 2^32 calls.
- *Scrub.* The windows leave one gap that wraps the minute, two gaps of
  different lengths, one gap too short for a run, or none; runs last one or two
  seconds, and the period is shorter than a minute or 0 (manual runs only). Two brightness levels, one more at boot and full are all different.
- *Network.* The forms name every combination of blank and filled fields that
  `netset_post` and `save_post` tell apart; two networks tell new from old.
  Nothing else is bounded: any number of forms, resets and power failures.
- *Clock.* One wrong source tells every write from the true time SNTP gives. A chip
  read twice as local time is off by a zone; `MaxDrift` stops a third time.
- *Shelly.* Three slots for four senders make the table evict. `Fresh`, the wait for
  a request, the first attempt, the retry and the day keep their order; a day of
  three units still has room for NTP to fall between any two attempts.
- *Sensors.* Two of each kind let a slot change to another; tables of one make
  the second sensor compete with the first. The sensors of a kind are symmetric.
- *Publisher.* Two breaks let the connection be lost while it is repaired, two scans
  let a sensor come and go, one change of each sort tells an old document
  from the new.
- *Panel.* Times keep the order of the firmware's (debounce < snooze <
  provision < factory reset), and stop counting where nothing tells them apart.
  Two fingers make the combination; `MinDwell` (a finger rests longer than
  bounce and debouncing) is the condition under which a press can be counted.

`CHECK_DEADLOCK FALSE` is set for `Settings` and `Alarm` only, where a behaviour
ends when its bounds are exhausted.

### Fairness

- `Alarm`: the main loop keeps calling `alarm_tick`, minutes pass and melodies
  end. No fairness on any command: nobody has to press a button.
- `AlarmBuzzer`: the main loop begins ticks, a call that began goes on (weakly
  fair: a task may wait for the lock while others keep taking it), and the player
  runs. FreeRTOS schedules these tasks, and inside a call nothing
  but the alarm's lock makes them wait.
- `Scrub`: frames are drawn for ever. `RunsEnd` does not promise more than the
  code: a ring suspends the run and a trigger restarts it.
- `Shelly`: the main loop ticks (weakly fair), and time passes although requests may
  ask the loop to act before each unit ends (strongly fair).
- `Publisher`: both tasks, the client's events, its reconnection, each delivery, the end
  of `mqttctrl_reconnect` (`Stopped`) and the passing of the publishing period. That changes and breaks end is the bound.
- `Settings`, `Panel`, `Network`, `Clock` and `Sensors` state safety only.

## 4. Findings

Two runs show the code against its own documentation:

- **A stop nobody hears** (`alarm_buzzer_stop`, `buzzer.c:126-127`). The player adopts
  a generation that a stop made; a dismissed alarm's melody is played once, to its
  end.
- **Frozen samples** (`panel_frozen`, `nixie.c:109-121`). A tap of the provision button
  that is released while its tube is dark counts as a hold and restarts the clock
  into provisioning.

The properties that hold name further cases in which the code does less than it, or a
comment, says, as the exceptions they make or in their history variables. Whoever
mends one of them takes the exception out of the property; until then TLC answers that with the
case described here.

- `Settings`. A request copies, edits and puts back the whole record without a lock
  in between (`control.c:139`, `main.c:294`): of two that overlap, one undoes the other's
  field (`fresh`, in `UndisturbedRequestChangesOneField`). The main loop reads the version
  after the copy (`main.c:433-434`): a set in between is taken for seen, and the loop stays
  stale until the next (`raced`).
- `Scrub`. A ringing frame notes the level it pushes (`main.c:489-492`). If the level has changed
  during the run and the run ends right after the ring, `end` puts the level saved
  before it on the tubes (`antipoison.c:79`), the note says that nothing is to do, and they
  keep it until the level changes again (`rungOver`).
- `Network`. `webui.c:508-509` says that blank passwords are left unchanged, but on
  a clock that lives on `secrets.h` the SSID of the form switches the compiled-in one
  off (`netcfg.c:52`), and an emptied user falls back to it: `borrowed`. Keys are
  written one by one, so that a new network may have the old password, and the page says
  "Saved." all the same: `whole`. Between the erase of a factory reset and its flag
  (`netcfg.c:107-119`), a power failure leaves a clock that joins the network of
  `secrets.h`; and a form that the web worker is storing meanwhile leaves keys in the erased
  flash. `StoredAsAsked` asks for no more than that, by what it takes `asked` for.
- `Clock`. A power failure between chip and marker (`rtc.c:195-197`) makes the next boot convert
  the chip once more, although "this only ever happens once" (`rtc.c:171`). A marker that flash
  refuses, a zone changed while the chip still holds local time, and a factory reset of such a
  chip shift the clock by its zone as well (`misread`). When
  the zone is changed while a request is about to apply its own, or back before
  the main loop has looked, local times keep the wrong zone (`tzRaced`).
- `Shelly`. Senders whose stamp is not clean do not count beside one that is
  (`shellytime.c:206-210`), and the median of two is the later one (`:219-220`): two senders,
  or one clean wrong one among any number, do move the clock, although a comment says that one
  wrong Shelly cannot (`:197`). `MajorityRules` asks for a majority of those the code goes by.
- `Alarm`. A clock put back over midnight forgets the dismissal (`alarm.c:60`).
- `Sensors`. A slot given another Shelly with its source left at Shelly keeps the
  reading and the battery of the old one until they go stale (`temps.c:82-87`), and
  an advertisement that was being handled as the settings changed is fed to what the
  slot has become (`blescan.c:185`): `stale`.
- `Publisher`. `mqttctrl_reconnect` ends the connection properly and thereby
  cancels the will: if it does not come back, or the broker is cleared, "online" stays
  retained at the broker. An older document may overtake a newer one, until the next period
  heals it.

Not shown by a run, but noticed while translating: discovery announces
`temp_decimals` and `alarm_dow`, which the state document lacks; a removed DS18B20
keeps the availability of the clock (`GUIDE.md:275` says it becomes unavailable);
zones longer than 23 characters are cut in MQTT commands (`mqttctrl.c:571`);
`settings_set` by another task in the 300 ms before a factory reset restarts
writes the settings back.

## 5. The proofs

They hold for all values of the constants that satisfy the named assumption of
the module. Every safety property and every action property that a passing run checks
is the statement of a theorem. Each is the same argument: an inductive invariant `IInv` with
`Init => IInv` and `IInv /\ [Next]_vars => IInv'`, one step per action.

- `SettingsProofs`. `IInv` adds to the type: flash agrees with RAM unless a
  write failed (`Durable`, which before the first boot says what `s_cfg` stands for), a copy nobody overtook differs from RAM in its own
  field only (`FreshCopies`), and the main loop's copy belongs to the version it
  notes or a set raced with it (`MainKnows`); the invariants checked are their
  consequences for the states in which the main loop is not in between. Assumed:
  nothing but the types of the constants. `OneWriterLosesNothing` is about a
  `Writers` of one task, where every copy is fresh.
  The module also proves `Publisher`'s theorems. `Announced` says that the sensors of a
  scan `mqtt_state` has noted are known to the broker or in the outbox as soon as the
  task has left the state in which it announces and the client is past announcing on its
  connection, and that no scan is noted before it is made; a cleared broker makes no
  exception but for as long as it is cleared, because the client announces everything when it connects
  again. `AllAnnounced` is its consequence for tasks at rest.
- `AlarmProofs`. `IInv` says that an alarm that is not idle has a key
  (`RingHasKey`), that the key is the latest minute that rang and time has passed
  it but for the corrections (`KeyIsLatest`), that the dismissed day is that of
  the last ring (`DismissalOfLastRing`), and that the code's guard stands while
  the history says hushed (`HushedIsDismissed`). From these: `NothingMissed`, `OncePerOccurrence`, `DismissalLasts`,
  `LoopOnlyInRinging` and the refinement of `AlarmPromise`. Assumed:
  corrections stay below a day.
- `AlarmBuzzerProofs`. `TypeOK` alone is not inductive: that `SetState` keeps the
  promise needs that the state the call tested is still there when it sets it.
  `CallOK` says so: a caller between the test and the assignment holds the lock,
  and the state is the one it decided on. `NoteLeft` keeps the player's note in
  the melody. `LoopBelongsToRing` and the refinement hold for any number of
  workers.
- `ScrubProofs`. `RunOwnsTubes` (a run nobody rang over is at full brightness and
  has saved a level of the clock) and `ClockOwnsTubes` (otherwise the note of the
  main loop agrees with the tubes) give `BrightnessHandover`.
  `InterludesAreKept` rests on `RunFits`, that an automatic run under way will
  meet no interlude in the frames it has left. It begins true because
  a run touches no more seconds than `Need` counts, whichever frame it starts in
  (`RunTouches`), and stays true because the frames left only get fewer.
  `NeverHeldForLong` rests on `RefusedSince`: in each of the `held` frames
  before this one a run could not start, so that a whole minute of them would leave no
  second to start in, and there is one (`SomeSecond`). That second is the first of a longest gap: the
  gaps of a minute that is neither free nor busy throughout begin somewhere
  (`StartExists`), each has a length (`FreeFor`), and sets of numbers have a least
  and a greatest (`LeastNumber`, from well-founded induction over the naturals).
- `PanelProofs`. The type of `Panel` is inductive by itself. The rest is argued for one
  button at a time: every step turns it (`Turns`: its sample is noted, taken for its
  state, or counted), restarts it (`Forgets`), moves its finger (`Moves`)
  or leaves it alone (`Stays`), and the lemmas about the actions say which
  (`StepOf`). `Followed` says what is known of a button from the time it has been
  sampled; it gives `ButtonsSettle`. `Seen` says what is known of a press of which nothing
  was missed: `Tracked` relates the state to the time since the finger moved,
  `Measured` the measured hold to the real one from both sides, `Counted` the
  events to the state. From these `PressesCountOnce` and `HoldsAreMeasured`.
  `Combined` measures the combination by its two buttons, for `CombinationsAreHeld`, and
  `OnceToggled` says that the flag of a combination that has toggled stands until one of
  them is released, for `ToggledOnce`. Assumed: `Debounced`, without
  which a bounce is taken for a press.
- `NetworkProofs`. `Target` is what the keys will be when the form being stored has
  been stored. `IInv` says that it is what was asked for unless something was torn
  or borrowed (`OnTheWay`), that a form of all keys has left its values behind it
  (`CompleteForm`), by which it mends what earlier ones tore, and that no form
  empties the SSID (`FormHasNetwork`). `ClientIsCurrent` is inductive with the type.
  Assumed: nothing but the types of the constants.
- `SensorsProofs`. `OwnReading` and `TrueAges` say of the slot, of the snapshot and
  of the advertisement being handled whose they are and how old. `OwnersOnly` says
  whose a Shelly slot is while the settings are half applied: of the Shelly that
  the second half will put into the map; `MapFollows` is needed because until then
  `blescan` still listens by the old map. `Tables` is what the type says of the
  tables, which needs what `Registered` makes of a full one and of one the sensor is in
  (`RegisteredType`). Assumed: sensors of different kinds differ.
- `ClockProofs`. `Shape` adds to the type which times a task may be about to write and
  that nothing but the marker is written at boot. Three invariants stand on it:
  `ChipInv` says what the chip holds in terms of its marker, of a marker still
  outstanding and of the zone; `ZoneInv` where the zone in the environment comes
  from; `SetsInv` that a set nobody disturbed is at one task, and which clocks it
  has reached (`AloneAtIt`). Assumed: the sources' errors and the zones' offsets are
  integers.
  The module also proves `Shelly`'s theorems. `TableTrue` says that an entry is its
  sender's clock, or late, and that the table has no more senders than slots, which a
  new sender keeps because one is evicted (`SlotFound`). `DayRuns` gives
  `NoDayIsMissed`: what has gone by and what the next attempt waits for add up to a day
  at most, and while NTP makes the attempts yield, it has not been quiet for longer than NTP is
  old. `MajorityIsRight` needs that a median exists at all (`MedianExists`, from the
  least number principle), since `Median` chooses one; then it counts: were the
  median later than the right senders, they would be among the half before it,
  were it earlier, none of them would be among the half up to it. Assumed: errors
  and latenesses are integers, the first attempt and the retry wait no longer than a day.

Type invariants and the two invariants of the looping melody (`LoopsOnlyWhileRinging`,
`LoopOnlyWhileRinging`) are proved where a run no longer checks them.

What the liveness properties rest on is proved where it is safety: `SnoozesComeDue` (a
snooze is never overdue once the loop has looked; assumed is that the default snooze
is not 0, `alarm.c:68`), `NoToneIsLeftOn` (no race of a stop with the player leaves the
channel on), `RunsGetShorter` (an undisturbed frame brings a run nearer to its end),
`TickLeavesNothing` (one turn of the main loop is enough for `Shelly`'s time to pass) and
`ClockIsOnline` (a connected clock is online once its messages are delivered, and the
broker holds its will).

Model-checked only: everything under fairness (`SnoozeEnds`, `RingingSounds`,
`StopsInTheEnd`, `RunsEnd`, `RequestAnswered`, `BrokerSettles`), which the prover
cannot treat; and the two violations of section 4, which are behaviours and not theorems.
Induction over the naturals is used as the least number principle only, which follows from
the library's theorem on well-founded relations; no theorem is about a recursive
definition.

## 6. Not modelled

What a frame of the clock draws; the animations of the scrub; formatting of state
documents, pages and discovery; parsing of values and of
advertisements; the register layouts of the RTCs; the light sensor; the floating-point
computations of sunset and of the brightness from lux (their result is any
level). The day of the year repeats after a year and the fired key with it; the
days of `Alarm` do not.

The firmware update is one request that nothing else takes part in; its image is
checked and the boot partition switched by ESP-IDF. The web log is a ring
buffer under a lock, which nothing in the program depends on. The port of the broker
belongs to its host. The entities of `publish_discovery` are the same at every
connection and travel as those of the sensors do. The portal's DNS
responder and its scan for networks keep no state.

## 7. Plan

Done: the settings store, the alarm with its buzzer, the scrub, the buttons, the
network settings with provisioning, the time and its sources, the temperatures, and
what the broker knows.

Left, in this order:

1. Proofs: the rest of the safety that liveness rests on, such as that a ringing alarm
   whose calls are over has an active buzzer.
2. `Update`: the upload with its failure paths and the interrupt's blanking.
3. The alarm's year wrap, with a cyclic calendar.
4. Pure functions over bounded inputs: minutes to the next alarm, the night
   window, days from civil, the web log's ring.
