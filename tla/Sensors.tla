-------------------------------- MODULE Sensors --------------------------------
(***************************************************************************)
(* Where a displayed temperature comes from: a slot of components/temps,   *)
(* its three sources (MQTT, a DS18B20 on the 1-Wire bus that the poll task *)
(* reads, a Shelly BLU that components/blescan hears), and the main loop   *)
(* that applies the settings to both components, one after the other.      *)
(*                                                                         *)
(* The slots share nothing but the sensors, so one stands for each.  A     *)
(* reading is the sensor it came from and its age; a unit of time is a     *)
(* poll of the bus, beside which the other tasks' steps take no time.      *)
(***************************************************************************)
EXTENDS Naturals, Sequences, FiniteSets

CONSTANTS
  Roms, Macs,  \* the DS18B20s and the Shellies
  Mqtt,        \* the third source
  MaxDs,       \* MAX_DS
  MaxDev,      \* MAXDEV of blescan
  Fresh,       \* FRESH_MS
  None         \* no ROM, no MAC, no reading

ASSUME SensorsConstants ==
  /\ IsFiniteSet(Roms)
  /\ Roms \cap Macs = {}
  /\ Mqtt \notin Roms \cup Macs
  /\ None \notin Roms \cup Macs \cup {Mqtt}
  /\ "no" \notin Macs \cup {None}
  /\ {MaxDs, MaxDev, Fresh} \subseteq Nat \ {0}

Devices == Roms \cup Macs \cup {Mqtt}
Ages == 0 .. Fresh
Never == Fresh + 1   \* in the snapshot: not read yet

VARIABLES
  slot,      \* source, ROM, reading (from and age) and battery (from a Shelly)
  applying,  \* the MAC blescan_apply_settings is called with next, or "no"
  s_slotmap, \* the MAC whose readings the slot gets
  ble,       \* the advertisement being handled: its sensor and what it feeds yet
  s_dev,     \* the Shellies of the picker, the last heard last
  handles,   \* those the last scan found
  s_snap,    \* their ages since they were read, or Never
  poll,      \* the poll task: "scan", "read", "wait", and what it has to read
  silent,    \* history: how long ago each sensor was heard
  stale      \* history: the slot was given another MAC with its source left at
             \* Shelly, or a feed was under way as the settings changed

radio == <<s_slotmap, ble, s_dev>>
wire == <<handles, s_snap, poll>>
vars == <<slot, applying, radio, wire, silent, stale>>

Applied == "no"    \* nothing to apply
Quiet == [mac |-> None, feeds |-> {}]

Empty(src, rom) == [src |-> src, rom |-> rom, from |-> None, age |-> Fresh, batt |-> None]

Init ==
  /\ slot = Empty("none", None)
  /\ applying = Applied
  /\ s_slotmap = None
  /\ ble = Quiet
  /\ s_dev = << >>
  /\ handles = {}
  /\ s_snap = << >>
  /\ poll = [at |-> "scan", todo |-> {}]
  /\ silent = [d \in Devices |-> Fresh]
  /\ stale = FALSE

-----------------------------------------------------------------------------
(* The settings. *)

\* What the slot becomes with another source or ROM; and with its battery kept.
ForgetTemperature(src, rom) ==
  [slot EXCEPT !.src = src, !.rom = rom, !.from = None, !.age = Fresh]
Forget(src, rom) == Empty(src, rom)

\* A Shelly slot gets another MAC.
Reassigned(src, mac) == src = "shelly" /\ slot.src = "shelly" /\ mac # s_slotmap

\* temps_apply_settings.
TempsApply(src, rom, mac) ==
  /\ applying = Applied
  /\ applying' = mac
  /\ IF src # slot.src \/ rom # slot.rom
     THEN /\ slot' = Forget(src, rom)
          /\ stale' = (ble # Quiet \/ Reassigned(src, mac))
     ELSE /\ stale' = (stale \/ Reassigned(src, mac))
          /\ UNCHANGED slot
  /\ UNCHANGED <<radio, wire, silent>>

\* blescan_apply_settings.
BlescanApply ==
  /\ applying # Applied
  /\ applying' = Applied
  /\ s_slotmap' = IF slot.src = "shelly" THEN applying ELSE None
  /\ stale' = (stale \/ ble.mac \notin {None, s_slotmap'})
  /\ UNCHANGED <<slot, ble, s_dev, wire, silent>>

-----------------------------------------------------------------------------
(* The sources. *)

Measured(d) == [slot EXCEPT !.from = d, !.age = 0]

\* temps_set_mqtt.
SetMqtt ==
  /\ slot' = IF slot.src = "mqtt" THEN Measured(Mqtt) ELSE slot
  /\ silent' = [silent EXCEPT ![Mqtt] = 0]
  /\ UNCHANGED <<applying, radio, wire, stale>>

\* The entry of a Shelly, or that of the one unheard for longest, and the table without it.
IsIn(m) == \E i \in DOMAIN s_dev : s_dev[i] = m
Entry(m) == IF IsIn(m) THEN CHOOSE i \in DOMAIN s_dev : s_dev[i] = m ELSE 1
Without(i) == SubSeq(s_dev, 1, i - 1) \o SubSeq(s_dev, i + 1, Len(s_dev))

\* Registered with no end to the table.
RegisteredToo(m) == Append(IF IsIn(m) THEN Without(Entry(m)) ELSE s_dev, m)

\* find_or_add of blescan.
Registered(m) ==
  IF ~IsIn(m) /\ Len(s_dev) < MaxDev THEN Append(s_dev, m) ELSE Append(Without(Entry(m)), m)

\* The objects of a BTHome payload that matter to a slot, any of which it may have.
Objects == {"temp", "batt"}

\* bthome_handle up to its unlock: what it will feed, and whether it feeds the slot.
Hear(m, feeds) ==
  /\ ble = Quiet
  /\ s_dev' = Registered(m)
  /\ ble' = IF s_slotmap = m /\ feeds # {} THEN [mac |-> m, feeds |-> feeds] ELSE Quiet
  /\ silent' = IF "temp" \in feeds THEN [silent EXCEPT ![m] = 0] ELSE silent
  /\ UNCHANGED <<slot, applying, s_slotmap, wire, stale>>

Fed(what) ==
  ble' = IF ble.feeds = {what} THEN Quiet ELSE [ble EXCEPT !.feeds = @ \ {what}]

\* SetShelly without a look at the source.
SetShellyAnyway ==
  /\ "temp" \in ble.feeds
  /\ slot' = Measured(ble.mac)
  /\ Fed("temp")
  /\ UNCHANGED <<applying, s_slotmap, s_dev, wire, silent, stale>>

\* temps_set_shelly.
SetShelly ==
  /\ "temp" \in ble.feeds
  /\ slot' = IF slot.src = "shelly" THEN Measured(ble.mac) ELSE slot
  /\ Fed("temp")
  /\ UNCHANGED <<applying, s_slotmap, s_dev, wire, silent, stale>>

\* temps_set_shelly_battery, which comes after.
SetBattery ==
  /\ ble.feeds = {"batt"}
  /\ slot' = IF slot.src = "shelly" THEN [slot EXCEPT !.batt = ble.mac] ELSE slot
  /\ Fed("batt")
  /\ UNCHANGED <<applying, s_slotmap, s_dev, wire, silent, stale>>

-----------------------------------------------------------------------------
(* The 1-Wire bus. *)

\* scan_bus finds those that are attached and answer, as many as the table holds;
\* readings of those known are kept.
Scan(found) ==
  /\ poll.at = "scan"
  /\ Cardinality(found) <= MaxDs
  /\ handles' = found
  /\ s_snap' = [r \in found |-> IF r \in DOMAIN s_snap THEN s_snap[r] ELSE Never]
  /\ poll' = [at |-> "read", todo |-> found]
  /\ UNCHANGED <<slot, applying, radio, silent, stale>>

\* The bus could not be enumerated: the handles are gone, the snapshot stays.
ScanFails ==
  /\ poll.at = "scan"
  /\ handles' = {}
  /\ poll' = [at |-> "read", todo |-> {}]
  /\ UNCHANGED <<slot, applying, radio, s_snap, silent, stale>>

\* A poll between scans.
NoScan ==
  /\ poll.at = "scan"
  /\ poll' = [at |-> "read", todo |-> handles]
  /\ UNCHANGED <<slot, applying, radio, handles, s_snap, silent, stale>>

\* read_dev, which fails when the sensor is gone, and the snapshot.
ReadDev(r, ok) ==
  /\ poll.at = "read" /\ r \in poll.todo
  /\ poll' = [poll EXCEPT !.todo = @ \ {r}]
  /\ IF ok
     THEN /\ s_snap' = IF r \in DOMAIN s_snap THEN [s_snap EXCEPT ![r] = 0] ELSE s_snap
          /\ silent' = [silent EXCEPT ![r] = 0]
     ELSE UNCHANGED <<s_snap, silent>>
  /\ UNCHANGED <<slot, applying, radio, handles, stale>>

\* The slot with the reading of its sensor and the time it was taken; and with the
\* present time.
CopiedNow == Measured(slot.rom)
Copied == [slot EXCEPT !.from = slot.rom, !.age = s_snap[slot.rom]]

\* The fan-out at the end of a poll.
FanOut ==
  /\ poll.at = "read" /\ poll.todo = {}
  /\ poll' = [poll EXCEPT !.at = "wait"]
  /\ slot' = IF /\ slot.src = "ds18b20" /\ slot.rom \in DOMAIN s_snap
                /\ s_snap[slot.rom] # Never
             THEN Copied ELSE slot
  /\ UNCHANGED <<applying, radio, handles, s_snap, silent, stale>>

Older(age) == IF age < Fresh THEN age + 1 ELSE age

\* The time to the next poll.
Pass ==
  /\ poll.at = "wait" /\ ble = Quiet
  /\ poll' = [poll EXCEPT !.at = "scan"]
  /\ slot' = [slot EXCEPT !.age = Older(@)]
  /\ s_snap' = [r \in DOMAIN s_snap |-> Older(s_snap[r])]
  /\ silent' = [d \in Devices |-> Older(silent[d])]
  /\ UNCHANGED <<applying, radio, handles, stale>>

-----------------------------------------------------------------------------

Sources == {"none", "mqtt", "ds18b20", "shelly"}

Next ==
  \/ \E src \in Sources, rom \in Roms \cup {None}, mac \in Macs \cup {None} :
       TempsApply(src, rom, mac)
  \/ BlescanApply \/ SetMqtt \/ SetShelly \/ SetBattery
  \/ \E m \in Macs, feeds \in SUBSET Objects : Hear(m, feeds)
  \/ \E found \in SUBSET Roms : Scan(found)
  \/ ScanFails \/ NoScan \/ FanOut \/ Pass
  \/ \E r \in Roms, ok \in BOOLEAN : ReadDev(r, ok)

Spec == Init /\ [][Next]_vars

-----------------------------------------------------------------------------
(* Properties. *)

\* temps_get shows the reading.
Shown == slot.src # "none" /\ slot.from # None /\ slot.age < Fresh

\* temps_battery has one to tell.
BatteryShown == slot.src = "shelly" /\ slot.batt # None /\ slot.age < Fresh

\* The variables range over the values the code can give them.
TypeOK ==
  /\ slot \in [src : Sources, rom : Roms \cup {None}, from : Devices \cup {None},
               age : Ages, batt : Macs \cup {None}]
  /\ applying \in Macs \cup {None, Applied}
  /\ s_slotmap \in Macs \cup {None}
  /\ ble \in [mac : Macs \cup {None}, feeds : SUBSET Objects]
  /\ s_dev \in Seq(Macs) /\ Len(s_dev) <= MaxDev
  /\ handles \subseteq Roms
  /\ DOMAIN s_snap \subseteq Roms /\ \A r \in DOMAIN s_snap : s_snap[r] \in 0 .. Never
  /\ poll \in [at : {"scan", "read", "wait"}, todo : SUBSET Roms]
  /\ silent \in [Devices -> Ages]
  /\ stale \in BOOLEAN

\* What is shown came from the source the slot is set to, and from the ROM it is set
\* to, whatever was on its way when the settings changed (temps_apply_settings and
\* the writers of the slots).
ShownIsFromSource ==
  Shown => CASE slot.src = "mqtt" -> slot.from = Mqtt
             [] slot.src = "ds18b20" -> slot.from = slot.rom
             [] slot.src = "shelly" -> slot.from \in Macs

\* With the settings applied, a Shelly slot shows the temperature and the battery of
\* the assigned Shelly only, unless it took the place of another with the source left
\* at Shelly, or an advertisement was being handled as the settings changed
\* (temps_apply_settings, blescan_apply_settings, bthome_handle).
ShownIsAssigned ==
  slot.src = "shelly" /\ applying = Applied /\ ~stale =>
    /\ Shown => slot.from = s_slotmap
    /\ BatteryShown => slot.batt = s_slotmap

\* A sensor that has been silent for FRESH_MS is shown no more, however often the
\* poll task has copied its last reading since (temps_get, poll_task).
SilentIsNotShown == Shown => silent[slot.from] < Fresh

==============================================================================
