---------------------------- MODULE SensorsProofs ----------------------------
(***************************************************************************)
(* Proofs about the temperatures that are shown, for any sensors, tables   *)
(* of any size and any time for which a reading counts as fresh.           *)
(***************************************************************************)
EXTENDS Sensors, SequenceTheorems, TLAPS

SlotStates == [src : Sources, rom : Roms \cup {None}, from : Devices \cup {None},
               age : Ages, batt : Macs \cup {None}]

\* The types of what bears on the slot.
Types ==
  /\ slot \in SlotStates
  /\ applying \in Macs \cup {None, Applied}
  /\ s_slotmap \in Macs \cup {None}
  /\ ble \in [mac : Macs \cup {None}, feeds : SUBSET Objects]
  /\ DOMAIN s_snap \subseteq Roms /\ \A r \in DOMAIN s_snap : s_snap[r] \in 0 .. Never
  /\ silent \in [Devices -> Ages]

\* An advertisement that has something to feed came from a Shelly.
FedByShelly == ble.feeds # {} => ble.mac \in Macs

\* The slot holds nothing, or a reading of its source.
OwnReading ==
  slot.from # None =>
    \/ slot.src = "mqtt" /\ slot.from = Mqtt
    \/ slot.src = "ds18b20" /\ slot.from = slot.rom
    \/ slot.src = "shelly" /\ slot.from \in Macs

\* No reading is younger than what was heard of its sensor.
TrueAges ==
  /\ slot.from # None /\ slot.age < Fresh => silent[slot.from] <= slot.age
  /\ \A r \in DOMAIN s_snap : s_snap[r] < Fresh => silent[r] <= s_snap[r]
  /\ "temp" \in ble.feeds => silent[ble.mac] = 0

\* The Shelly that the slot belongs to once the settings are applied.
Owner == IF applying = Applied THEN s_slotmap ELSE applying

\* The map of blescan has no Shelly for a slot with another source, and between the
\* two halves of applying the settings none but that of the new ones.
MapFollows ==
  /\ applying = Applied /\ slot.src # "shelly" => s_slotmap = None
  /\ applying # Applied /\ slot.src = "shelly" /\ ~stale => s_slotmap \in {None, applying}

\* What a Shelly slot holds, and what it is fed next, is of its owner.
OwnersOnly ==
  slot.src = "shelly" /\ ~stale =>
    /\ slot.from \in {None, Owner}
    /\ slot.batt \in {None, Owner}
    /\ ble.mac \in {None, Owner}

IInv == Types /\ FedByShelly /\ OwnReading /\ TrueAges /\ MapFollows /\ OwnersOnly

-----------------------------------------------------------------------------

LEMMA AgesAre ==
  /\ Fresh \in Nat \ {0}
  /\ Ages \subseteq 0 .. Never /\ 0 .. Never \subseteq Nat /\ Ages \subseteq Nat
  /\ 0 \in Ages /\ Fresh \in Ages /\ Never \in 0 .. Never /\ ~(Never < Fresh)
  /\ \A age \in 0 .. Never : age = Never \/ age \in Ages
  /\ \A age \in Ages : Older(age) \in Ages
  /\ \A age \in 0 .. Never :
       /\ Older(age) \in 0 .. Never
       /\ Older(age) < Fresh => Older(age) = age + 1
       /\ age <= Older(age)
<1>1. Fresh \in Nat \ {0}
  BY SensorsConstants
<1> QED
  BY <1>1 DEF Ages, Never, Older

\* A younger reading stays the younger one.
LEMMA OlderMonotone ==
  ASSUME NEW a \in 0 .. Never, NEW b \in 0 .. Never, a <= b
  PROVE  Older(a) <= Older(b)
BY AgesAre DEF Ages, Never, Older

LEMMA Distinct ==
  /\ None \notin Macs /\ None \notin Roms /\ None # Mqtt /\ Mqtt \notin Macs
  /\ Applied \notin Macs /\ None # Applied
  /\ Macs \subseteq Devices /\ Roms \subseteq Devices /\ Mqtt \in Devices
BY SensorsConstants DEF Devices, Applied

LEMMA EmptyType ==
  ASSUME NEW src \in Sources, NEW rom \in Roms \cup {None}
  PROVE  Empty(src, rom) \in SlotStates
BY AgesAre DEF Empty, SlotStates

LEMMA SensorsInit == Init => IInv
<1> SUFFICES ASSUME Init PROVE IInv
  OBVIOUS
<1>1. slot = Empty("none", None) /\ "none" \in Sources
  BY DEF Init, Sources
<1>2. slot \in SlotStates /\ slot.from = None /\ slot.src = "none"
  BY <1>1, EmptyType DEF Empty
<1>3. ble = Quiet /\ ble.feeds = {} /\ ble.mac = None
  BY DEF Init, Quiet
<1>4. DOMAIN s_snap = {}
  BY DEF Init
<1>5. Types
  BY <1>2, <1>3, <1>4, AgesAre DEF Init, Types, Quiet
<1> QED
  BY <1>2, <1>3, <1>4, <1>5 DEF Init, IInv, FedByShelly, OwnReading, TrueAges, MapFollows, OwnersOnly

-----------------------------------------------------------------------------
(* The steps, one after the other. *)

LEMMA TempsApplyStep ==
  ASSUME IInv, NEW src \in Sources, NEW rom \in Roms \cup {None},
         NEW mac \in Macs \cup {None}, TempsApply(src, rom, mac)
  PROVE  IInv'
<1>1. /\ applying = Applied /\ applying' = mac /\ applying' # Applied /\ Owner' = mac
      /\ Owner = s_slotmap
      /\ UNCHANGED <<s_slotmap, ble, s_dev, handles, s_snap, poll, silent>>
  BY Distinct DEF TempsApply, radio, wire, Owner
<1>2. CASE src # slot.src \/ rom # slot.rom
  <2>1. slot' = Empty(src, rom) /\ (stale' <=> (ble # Quiet \/ Reassigned(src, mac)))
    BY <1>2 DEF TempsApply, Forget
  <2>2. slot' \in SlotStates /\ slot'.from = None /\ slot'.batt = None /\ slot'.src = src
    BY <2>1, EmptyType DEF Empty
  <2>3. Types'
    BY <1>1, <2>2 DEF IInv, Types
  <2>4. FedByShelly' /\ OwnReading' /\ TrueAges'
    BY <1>1, <2>2 DEF IInv, FedByShelly, OwnReading, TrueAges
  <2>5. MapFollows'
    BY <1>1, <2>1, <2>2 DEF IInv, MapFollows, Reassigned
  <2>6. OwnersOnly'
    <3>1. ~stale' => ble'.mac = None
      BY <1>1, <2>1 DEF Quiet
    <3> QED
      BY <2>2, <3>1 DEF OwnersOnly
  <2> QED
    BY <2>3, <2>4, <2>5, <2>6 DEF IInv
<1>3. CASE ~(src # slot.src \/ rom # slot.rom)
  <2>1. slot' = slot /\ (stale' <=> (stale \/ Reassigned(src, mac))) /\ src = slot.src
    BY <1>3 DEF TempsApply
  <2>2. Types' /\ FedByShelly' /\ OwnReading' /\ TrueAges'
    BY <1>1, <2>1 DEF IInv, Types, FedByShelly, OwnReading, TrueAges
  <2>3. slot.src = "shelly" /\ ~stale' => mac = s_slotmap /\ ~stale
    BY <2>1 DEF Reassigned
  <2>4. MapFollows' /\ OwnersOnly'
    BY <1>1, <2>1, <2>3 DEF IInv, MapFollows, OwnersOnly
  <2> QED
    BY <2>2, <2>4 DEF IInv
<1> QED
  BY <1>2, <1>3

LEMMA BlescanApplyStep ==
  ASSUME IInv, BlescanApply
  PROVE  IInv'
<1>1. /\ applying # Applied /\ applying' = Applied /\ Owner' = s_slotmap'
      /\ Owner = applying
      /\ s_slotmap' = IF slot.src = "shelly" THEN applying ELSE None
      /\ stale' = (stale \/ ble.mac \notin {None, s_slotmap'})
      /\ UNCHANGED <<slot, ble, s_dev, handles, s_snap, poll, silent>>
  BY DEF BlescanApply, wire, Owner
<1>2. Types'
  BY <1>1 DEF IInv, Types
<1>3. FedByShelly' /\ OwnReading' /\ TrueAges'
  BY <1>1 DEF IInv, FedByShelly, OwnReading, TrueAges
<1>4. MapFollows'
  BY <1>1 DEF MapFollows
<1>5. OwnersOnly'
  BY <1>1 DEF IInv, OwnersOnly
<1> QED
  BY <1>2, <1>3, <1>4, <1>5 DEF IInv

LEMMA SetMqttStep ==
  ASSUME IInv, SetMqtt
  PROVE  IInv'
<1>1. /\ silent' = [silent EXCEPT ![Mqtt] = 0]
      /\ slot' = IF slot.src = "mqtt" THEN Measured(Mqtt) ELSE slot
      /\ UNCHANGED <<applying, s_slotmap, ble, s_dev, handles, s_snap, poll, stale>>
  BY DEF SetMqtt, radio, wire
<1>2. /\ slot'.src = slot.src /\ slot'.batt = slot.batt /\ slot' \in SlotStates
      /\ slot.src = "mqtt" => slot'.from = Mqtt /\ slot'.age = 0
      /\ slot.src # "mqtt" => slot' = slot
  BY <1>1, Distinct, AgesAre DEF IInv, Types, SlotStates, Measured
<1>3. \A d \in Devices : silent'[d] = IF d = Mqtt THEN 0 ELSE silent[d]
  BY <1>1 DEF IInv, Types
<1>4. Types'
  BY <1>1, <1>2, AgesAre DEF IInv, Types
<1>5. FedByShelly' /\ OwnReading' /\ MapFollows'
  BY <1>1, <1>2 DEF IInv, FedByShelly, OwnReading, MapFollows
<1>6. OwnersOnly'
  BY <1>1, <1>2 DEF IInv, OwnersOnly, Owner
<1>7. TrueAges'
  <2>1. slot'.from # None /\ slot'.age < Fresh => silent'[slot'.from] <= slot'.age
    <3>1. CASE slot.src = "mqtt"
      BY <1>2, <1>3, <3>1, Distinct
    <3>2. CASE slot.src # "mqtt"
      <4>1. slot' = slot /\ (slot.from # None => slot.from \in Devices /\ slot.from # Mqtt)
        BY <1>2, <3>2, SensorsConstants DEF IInv, Types, SlotStates, OwnReading
      <4> QED
        BY <1>3, <4>1 DEF IInv, TrueAges
    <3> QED
      BY <3>1, <3>2
  <2>2. \A r \in DOMAIN s_snap' : s_snap'[r] < Fresh => silent'[r] <= s_snap'[r]
    BY <1>1, <1>3, Distinct, SensorsConstants DEF IInv, Types, TrueAges
  <2>3. "temp" \in ble'.feeds => silent'[ble'.mac] = 0
    BY <1>1, <1>3, Distinct DEF IInv, TrueAges, FedByShelly
  <2> QED
    BY <2>1, <2>2, <2>3 DEF TrueAges
<1> QED
  BY <1>4, <1>5, <1>6, <1>7 DEF IInv

\* What is heard makes the ages no less true.
LEMMA HeardAges ==
  ASSUME IInv, NEW d \in Devices, silent' = [silent EXCEPT ![d] = 0]
  PROVE  /\ silent' \in [Devices -> Ages]
         /\ silent'[d] = 0
         /\ \A e \in Devices : silent'[e] <= silent[e]
<1>1. silent \in [Devices -> Ages] /\ Ages \subseteq Nat /\ 0 \in Ages
  BY AgesAre DEF IInv, Types
<1>2. ASSUME NEW e \in Devices PROVE silent'[e] <= silent[e]
  <2>1. silent[e] \in Nat /\ silent'[e] = IF e = d THEN 0 ELSE silent[e]
    BY <1>1
  <2> QED
    BY <2>1
<1> QED
  BY <1>1, <1>2

\* Steps that leave the slot and the snapshot alone, and make no sensor older.
LEMMA KeptAges ==
  ASSUME IInv, slot' = slot, s_snap' = s_snap, silent' \in [Devices -> Ages],
         \A e \in Devices : silent'[e] <= silent[e]
  PROVE  /\ slot'.from # None /\ slot'.age < Fresh => silent'[slot'.from] <= slot'.age
         /\ \A r \in DOMAIN s_snap' : s_snap'[r] < Fresh => silent'[r] <= s_snap'[r]
<1>1. /\ silent \in [Devices -> Ages] /\ Ages \subseteq Nat
      /\ slot.age \in Ages /\ (slot.from # None => slot.from \in Devices)
      /\ \A r \in DOMAIN s_snap : r \in Devices /\ s_snap[r] \in Nat
  BY AgesAre, Distinct DEF IInv, Types, SlotStates
<1>2. \A e \in Devices : silent[e] \in Nat /\ silent'[e] \in Nat
  BY <1>1
<1>3. ASSUME slot'.from # None, slot'.age < Fresh
      PROVE  silent'[slot'.from] <= slot'.age
  <2> DEFINE d == slot.from
  <2>1. d \in Devices /\ slot'.from = d /\ slot'.age = slot.age /\ slot.age \in Nat
    BY <1>1, <1>3
  <2>2. silent[d] <= slot.age
    BY <1>3, <2>1 DEF IInv, TrueAges
  <2>3. silent'[d] <= silent[d] /\ silent[d] \in Nat /\ silent'[d] \in Nat
    BY <1>2, <2>1
  <2> QED
    BY <2>1, <2>2, <2>3
<1>4. ASSUME NEW r \in DOMAIN s_snap', s_snap'[r] < Fresh
      PROVE  silent'[r] <= s_snap'[r]
  <2>1. r \in DOMAIN s_snap /\ s_snap'[r] = s_snap[r] /\ s_snap[r] \in Nat /\ r \in Devices
    BY <1>1, <1>4
  <2> QED
    BY <1>2, <1>4, <2>1 DEF IInv, TrueAges
<1> QED
  BY <1>3, <1>4

LEMMA HearStep ==
  ASSUME IInv, NEW m \in Macs, NEW feeds \in SUBSET Objects, Hear(m, feeds)
  PROVE  IInv'
<1>1. /\ ble' = IF s_slotmap = m /\ feeds # {} THEN [mac |-> m, feeds |-> feeds] ELSE Quiet
      /\ silent' = IF "temp" \in feeds THEN [silent EXCEPT ![m] = 0] ELSE silent
      /\ UNCHANGED <<slot, applying, s_slotmap, handles, s_snap, poll, stale>>
  BY DEF Hear, wire
<1>2. silent \in [Devices -> Ages] /\ Ages \subseteq Nat /\ m \in Devices
  BY AgesAre, Distinct DEF IInv, Types
<1>3. /\ silent' \in [Devices -> Ages]
      /\ "temp" \in feeds => silent'[m] = 0
      /\ \A e \in Devices : silent'[e] <= silent[e]
  <2>1. CASE "temp" \in feeds
    BY <1>1, <1>2, <2>1, HeardAges
  <2>2. CASE "temp" \notin feeds
    <3>1. \A e \in Devices : silent[e] \in Nat
      BY <1>2
    <3> QED
      BY <1>1, <1>2, <2>2, <3>1
  <2> QED
    BY <2>1, <2>2
<1>4. /\ ble' \in [mac : Macs \cup {None}, feeds : SUBSET Objects]
      /\ ble'.feeds # {} => ble'.mac = m /\ ble'.feeds = feeds
      /\ ble'.mac \in {None, s_slotmap}
  BY <1>1 DEF Quiet
<1>5. Types' /\ FedByShelly'
  BY <1>1, <1>3, <1>4 DEF IInv, Types, FedByShelly
<1>6. OwnReading' /\ MapFollows'
  BY <1>1 DEF IInv, OwnReading, MapFollows
<1>7. OwnersOnly'
  <2>1. Owner' = Owner
    BY <1>1 DEF Owner
  <2>2. slot.src = "shelly" /\ ~stale => s_slotmap \in {None, Owner}
    BY DEF IInv, MapFollows, Owner
  <2> QED
    BY <1>1, <1>4, <2>1, <2>2 DEF IInv, OwnersOnly
<1>8. TrueAges'
  BY <1>1, <1>3, <1>4, KeptAges DEF TrueAges
<1> QED
  BY <1>5, <1>6, <1>7, <1>8 DEF IInv

\* An advertisement of which something has been fed.
LEMMA FedType ==
  ASSUME IInv, NEW what, what \in ble.feeds, Fed(what)
  PROVE  /\ ble' \in [mac : Macs \cup {None}, feeds : SUBSET Objects]
         /\ ble'.mac \in {None, ble.mac}
         /\ ble'.feeds \subseteq ble.feeds \ {what}
         /\ ble'.feeds # {} => ble'.mac = ble.mac
<1>1. ble \in [mac : Macs \cup {None}, feeds : SUBSET Objects]
  BY DEF IInv, Types
<1> QED
  BY <1>1 DEF Fed, Quiet

LEMMA SetShellyStep ==
  ASSUME IInv, SetShelly
  PROVE  IInv'
<1>1. /\ "temp" \in ble.feeds
      /\ slot' = IF slot.src = "shelly" THEN Measured(ble.mac) ELSE slot
      /\ Fed("temp")
      /\ UNCHANGED <<applying, s_slotmap, s_dev, handles, s_snap, poll, silent, stale>>
  BY DEF SetShelly, wire
<1>2. ble.mac \in Macs /\ silent[ble.mac] = 0 /\ ble.mac # None
  BY <1>1, Distinct DEF IInv, FedByShelly, TrueAges
<1>3. /\ slot'.src = slot.src /\ slot'.batt = slot.batt /\ slot' \in SlotStates
      /\ slot.src = "shelly" => slot'.from = ble.mac /\ slot'.age = 0
      /\ slot.src # "shelly" => slot' = slot
  BY <1>1, <1>2, Distinct, AgesAre DEF IInv, Types, SlotStates, Measured
<1>4. /\ ble' \in [mac : Macs \cup {None}, feeds : SUBSET Objects]
      /\ ble'.mac \in {None, ble.mac}
      /\ "temp" \notin ble'.feeds
      /\ ble'.feeds # {} => ble'.mac = ble.mac
  BY <1>1, FedType
<1>5. Types' /\ FedByShelly'
  BY <1>1, <1>2, <1>3, <1>4 DEF IInv, Types, FedByShelly
<1>6. OwnReading' /\ MapFollows'
  BY <1>1, <1>2, <1>3 DEF IInv, OwnReading, MapFollows
<1>7. OwnersOnly'
  <2>1. Owner' = Owner
    BY <1>1 DEF Owner
  <2> QED
    BY <1>1, <1>2, <1>3, <1>4, <2>1 DEF IInv, OwnersOnly
<1>8. TrueAges'
  <2>1. slot'.from # None /\ slot'.age < Fresh => silent'[slot'.from] <= slot'.age
    <3>1. CASE slot.src = "shelly"
      BY <1>1, <1>2, <1>3, <3>1
    <3>2. CASE slot.src # "shelly"
      BY <1>1, <1>3, <3>2 DEF IInv, TrueAges
    <3> QED
      BY <3>1, <3>2
  <2>2. \A r \in DOMAIN s_snap' : s_snap'[r] < Fresh => silent'[r] <= s_snap'[r]
    BY <1>1 DEF IInv, TrueAges
  <2> QED
    BY <1>4, <2>1, <2>2 DEF TrueAges
<1> QED
  BY <1>5, <1>6, <1>7, <1>8 DEF IInv

LEMMA SetBatteryStep ==
  ASSUME IInv, SetBattery
  PROVE  IInv'
<1>1. /\ "batt" \in ble.feeds
      /\ slot' = IF slot.src = "shelly" THEN [slot EXCEPT !.batt = ble.mac] ELSE slot
      /\ Fed("batt")
      /\ UNCHANGED <<applying, s_slotmap, s_dev, handles, s_snap, poll, silent, stale>>
  BY DEF SetBattery, wire
<1>2. ble.mac \in Macs
  BY <1>1 DEF IInv, FedByShelly
<1>3. /\ slot'.src = slot.src /\ slot'.rom = slot.rom /\ slot'.from = slot.from
      /\ slot'.age = slot.age /\ slot' \in SlotStates /\ slot'.batt \in {slot.batt, ble.mac}
  BY <1>1, <1>2 DEF IInv, Types, SlotStates
<1>4. /\ ble' \in [mac : Macs \cup {None}, feeds : SUBSET Objects]
      /\ ble'.mac \in {None, ble.mac}
      /\ ble'.feeds \subseteq ble.feeds
      /\ ble'.feeds # {} => ble'.mac = ble.mac
  BY <1>1, FedType
<1>5. Types' /\ FedByShelly'
  BY <1>1, <1>2, <1>3, <1>4 DEF IInv, Types, FedByShelly
<1>6. OwnReading' /\ MapFollows' /\ TrueAges'
  BY <1>1, <1>3, <1>4 DEF IInv, OwnReading, MapFollows, TrueAges
<1>7. OwnersOnly'
  <2>1. Owner' = Owner
    BY <1>1 DEF Owner
  <2> QED
    BY <1>1, <1>3, <1>4, <2>1 DEF IInv, OwnersOnly
<1> QED
  BY <1>5, <1>6, <1>7 DEF IInv

\* The scans and the reads touch no slot; what they leave in the snapshot is true.
LEMMA WireStep ==
  ASSUME IInv, UNCHANGED <<slot, applying, radio, stale>>,
         silent' \in [Devices -> Ages], \A e \in Devices : silent'[e] <= silent[e],
         DOMAIN s_snap' \subseteq Roms,
         \A r \in DOMAIN s_snap' : s_snap'[r] \in 0 .. Never,
         \A r \in DOMAIN s_snap' : s_snap'[r] < Fresh => silent'[r] <= s_snap'[r]
  PROVE  IInv'
<1>1. UNCHANGED <<slot, applying, s_slotmap, ble, stale>>
  BY DEF radio
<1>2. Types'
  BY <1>1 DEF IInv, Types
<1>3. FedByShelly' /\ OwnReading' /\ MapFollows'
  BY <1>1 DEF IInv, FedByShelly, OwnReading, MapFollows
<1>4. OwnersOnly'
  BY <1>1 DEF IInv, OwnersOnly, Owner
<1>5. \A e \in Devices : silent[e] \in Nat /\ silent'[e] \in Nat
  BY AgesAre DEF IInv, Types
<1>6. slot'.from # None /\ slot'.age < Fresh => silent'[slot'.from] <= slot'.age
  <2> SUFFICES ASSUME slot.from # None, slot.age < Fresh PROVE silent'[slot.from] <= slot.age
    BY <1>1
  <2> DEFINE d == slot.from
  <2>1. d \in Devices /\ slot.age \in Nat
    BY AgesAre DEF IInv, Types, SlotStates
  <2>2. silent[d] <= slot.age
    BY DEF IInv, TrueAges
  <2> HIDE DEF d
  <2>3. silent'[d] <= slot.age
    BY <1>5, <2>1, <2>2
  <2> QED
    BY <2>3 DEF d
<1>7. "temp" \in ble'.feeds => silent'[ble'.mac] = 0
  <2> SUFFICES ASSUME "temp" \in ble.feeds PROVE silent'[ble.mac] = 0
    BY <1>1
  <2> DEFINE d == ble.mac
  <2>1. d \in Devices /\ silent[d] = 0
    BY Distinct DEF IInv, FedByShelly, TrueAges
  <2> HIDE DEF d
  <2>2. silent'[d] = 0
    BY <1>5, <2>1
  <2> QED
    BY <2>2 DEF d
<1> QED
  BY <1>2, <1>3, <1>4, <1>6, <1>7 DEF IInv, TrueAges

\* A scan finds the known sensors with their readings and new ones without.
LEMMA ScanStep ==
  ASSUME IInv, NEW found \in SUBSET Roms, Scan(found)
  PROVE  IInv'
<1>1. /\ s_snap' = [r \in found |-> IF r \in DOMAIN s_snap THEN s_snap[r] ELSE Never]
      /\ silent' = silent /\ UNCHANGED <<slot, applying, radio, stale>>
  BY DEF Scan
<1>2. silent' \in [Devices -> Ages] /\ \A e \in Devices : silent'[e] <= silent[e]
  <2>1. \A e \in Devices : silent[e] \in Nat
    BY AgesAre DEF IInv, Types
  <2> QED
    BY <1>1, <2>1 DEF IInv, Types
<1>3. ASSUME NEW r \in DOMAIN s_snap'
      PROVE  s_snap'[r] \in 0 .. Never /\ (s_snap'[r] < Fresh => silent'[r] <= s_snap'[r])
  <2>1. r \in found
    BY <1>1
  <2>2. CASE r \in DOMAIN s_snap
    <3>1. s_snap'[r] = s_snap[r]
      BY <1>1, <2>1, <2>2
    <3> QED
      BY <1>1, <2>2, <3>1 DEF IInv, Types, TrueAges
  <2>3. CASE r \notin DOMAIN s_snap
    <3>1. s_snap'[r] = Never
      BY <1>1, <2>1, <2>3
    <3> QED
      BY <3>1, AgesAre
  <2> QED
    BY <2>2, <2>3
<1> QED
  BY <1>1, <1>2, <1>3, WireStep

LEMMA NoScanStep ==
  ASSUME IInv, NoScan \/ ScanFails
  PROVE  IInv'
<1>1. UNCHANGED <<slot, applying, radio, s_snap, silent, stale>>
  BY DEF NoScan, ScanFails
<1>2. \A e \in Devices : silent'[e] <= silent[e]
  <2>1. \A e \in Devices : silent[e] \in Nat
    BY AgesAre DEF IInv, Types
  <2> QED
    BY <1>1, <2>1
<1> QED
  BY <1>1, <1>2, WireStep DEF IInv, Types, TrueAges

\* A read makes the reading of one sensor, and the sensor, new.
LEMMA ReadDevStep ==
  ASSUME IInv, NEW r \in Roms, NEW ok \in BOOLEAN, ReadDev(r, ok)
  PROVE  IInv'
<1>1. UNCHANGED <<slot, applying, radio, stale>>
  BY DEF ReadDev
<1>2. CASE ok
  <2>1. /\ silent' = [silent EXCEPT ![r] = 0]
        /\ s_snap' = IF r \in DOMAIN s_snap THEN [s_snap EXCEPT ![r] = 0] ELSE s_snap
    BY <1>2 DEF ReadDev
  <2>2. r \in Devices
    BY Distinct
  <2>3. /\ silent' \in [Devices -> Ages]
        /\ silent'[r] = 0
        /\ \A e \in Devices : silent'[e] <= silent[e]
    BY <2>1, <2>2, HeardAges
  <2>4. DOMAIN s_snap' = DOMAIN s_snap
    BY <2>1
  <2>5. ASSUME NEW q \in DOMAIN s_snap'
        PROVE  s_snap'[q] \in 0 .. Never /\ (s_snap'[q] < Fresh => silent'[q] <= s_snap'[q])
    <3>1. q \in DOMAIN s_snap /\ q \in Roms /\ q \in Devices
      BY <2>4, Distinct DEF IInv, Types
    <3>2. CASE q = r
      <4>1. s_snap'[q] = 0
        BY <2>1, <3>1, <3>2
      <4> QED
        BY <2>3, <3>2, <4>1, AgesAre
    <3>3. CASE q # r
      <4>1. s_snap'[q] = s_snap[q] /\ s_snap[q] \in 0 .. Never /\ s_snap[q] \in Nat
        BY <2>1, <3>1, <3>3, AgesAre DEF IInv, Types
      <4>2. silent'[q] <= silent[q] /\ silent[q] \in Nat /\ silent'[q] \in Nat
        BY <2>3, <3>1, AgesAre DEF IInv, Types
      <4>3. s_snap[q] < Fresh => silent[q] <= s_snap[q]
        BY <3>1 DEF IInv, TrueAges
      <4> QED
        BY <4>1, <4>2, <4>3
    <3> QED
      BY <3>2, <3>3
  <2> QED
    BY <1>1, <2>3, <2>4, <2>5, WireStep DEF IInv, Types
<1>3. CASE ~ok
  <2>1. UNCHANGED <<slot, applying, radio, s_snap, silent, stale>>
    BY <1>1, <1>3 DEF ReadDev
  <2>2. \A e \in Devices : silent'[e] <= silent[e]
    <3>1. \A e \in Devices : silent[e] \in Nat
      BY AgesAre DEF IInv, Types
    <3> QED
      BY <2>1, <3>1
  <2> QED
    BY <2>1, <2>2, WireStep DEF IInv, Types, TrueAges
<1> QED
  BY <1>2, <1>3

\* The fan-out copies a reading with its age.
LEMMA FanOutStep ==
  ASSUME IInv, FanOut
  PROVE  IInv'
<1> DEFINE Copies == /\ slot.src = "ds18b20" /\ slot.rom \in DOMAIN s_snap
                     /\ s_snap[slot.rom] # Never
<1>1. /\ slot' = IF Copies
                  THEN Copied ELSE slot
      /\ UNCHANGED <<applying, s_slotmap, ble, s_snap, silent, stale>>
  BY DEF FanOut, radio
<1>2. CASE Copies
  <2>1. slot.rom \in Roms /\ slot.rom \in Devices /\ s_snap[slot.rom] \in Ages
    BY <1>2, Distinct, AgesAre DEF IInv, Types
  <2>2. /\ slot' \in SlotStates /\ slot'.src = slot.src /\ slot'.rom = slot.rom
        /\ slot'.batt = slot.batt /\ slot'.from = slot.rom /\ slot'.age = s_snap[slot.rom]
    BY <1>1, <1>2, <2>1 DEF Copied, IInv, Types, SlotStates
  <2>3. Types'
    BY <1>1, <2>2 DEF IInv, Types
  <2>4. FedByShelly' /\ OwnReading' /\ MapFollows'
    BY <1>1, <1>2, <2>2 DEF IInv, FedByShelly, OwnReading, MapFollows
  <2>5. OwnersOnly'
    BY <1>2, <2>2 DEF OwnersOnly
  <2>6. TrueAges'
    BY <1>1, <1>2, <2>2 DEF IInv, TrueAges
  <2> QED
    BY <2>3, <2>4, <2>5, <2>6 DEF IInv
<1>3. CASE ~Copies
  <2>1. slot' = slot
    BY <1>1, <1>3
  <2>2. Types' /\ FedByShelly' /\ OwnReading' /\ MapFollows' /\ TrueAges'
    BY <1>1, <2>1 DEF IInv, Types, FedByShelly, OwnReading, MapFollows, TrueAges
  <2>3. OwnersOnly'
    BY <1>1, <2>1 DEF IInv, OwnersOnly, Owner
  <2> QED
    BY <2>2, <2>3 DEF IInv
<1> QED
  BY <1>2, <1>3

\* Readings and sensors age together.
LEMMA PassStep ==
  ASSUME IInv, Pass
  PROVE  IInv'
<1>1. /\ ble = Quiet
      /\ slot' = [slot EXCEPT !.age = Older(slot.age)]
      /\ s_snap' = [r \in DOMAIN s_snap |-> Older(s_snap[r])]
      /\ silent' = [d \in Devices |-> Older(silent[d])]
      /\ UNCHANGED <<applying, s_slotmap, ble, stale>>
  BY DEF Pass, radio
<1>2. /\ slot' \in SlotStates /\ slot'.src = slot.src /\ slot'.rom = slot.rom
      /\ slot'.batt = slot.batt /\ slot'.from = slot.from /\ slot'.age = Older(slot.age)
      /\ slot.age \in Ages
  BY <1>1, AgesAre DEF IInv, Types, SlotStates
<1>3. \A d \in Devices : silent[d] \in Ages
  BY DEF IInv, Types
<1>4. Types'
  BY <1>1, <1>2, <1>3, AgesAre DEF IInv, Types
<1>5. FedByShelly' /\ OwnReading' /\ MapFollows'
  BY <1>1, <1>2 DEF IInv, FedByShelly, OwnReading, MapFollows
<1>6. OwnersOnly'
  BY <1>1, <1>2 DEF IInv, OwnersOnly, Owner
<1>7. ASSUME NEW d \in Devices, NEW age \in 0 .. Never, age < Fresh => silent[d] <= age
      PROVE  Older(age) < Fresh => silent'[d] <= Older(age)
  <2>1. silent'[d] = Older(silent[d]) /\ silent[d] \in Ages
    BY <1>1, <1>3
  <2>2. Older(age) < Fresh => age < Fresh
    BY AgesAre
  <2>3. silent[d] \in 0 .. Never
    BY <2>1, AgesAre
  <2> QED
    BY <1>7, <2>1, <2>2, <2>3, OlderMonotone
<1>8. slot'.from # None /\ slot'.age < Fresh => silent'[slot'.from] <= slot'.age
  <2> SUFFICES ASSUME slot.from # None
               PROVE  Older(slot.age) < Fresh => silent'[slot.from] <= Older(slot.age)
    BY <1>2
  <2>1. slot.from \in Devices /\ slot.age \in 0 .. Never
    BY <1>2, AgesAre DEF IInv, Types, SlotStates
  <2> QED
    BY <1>2, <1>7, <2>1 DEF IInv, TrueAges
<1>9. \A r \in DOMAIN s_snap' : s_snap'[r] < Fresh => silent'[r] <= s_snap'[r]
  <2> SUFFICES ASSUME NEW r \in DOMAIN s_snap
               PROVE  Older(s_snap[r]) < Fresh => silent'[r] <= Older(s_snap[r])
    BY <1>1
  <2>1. r \in Devices /\ s_snap[r] \in 0 .. Never
    BY Distinct DEF IInv, Types
  <2> QED
    BY <1>7, <2>1 DEF IInv, TrueAges
<1>10. "temp" \notin ble'.feeds
  BY <1>1 DEF Quiet
<1> QED
  BY <1>4, <1>5, <1>6, <1>8, <1>9, <1>10 DEF IInv, TrueAges

LEMMA SensorsStep == IInv /\ [Next]_vars => IInv'
<1> SUFFICES ASSUME IInv, [Next]_vars PROVE IInv'
  OBVIOUS
<1>1. CASE UNCHANGED vars
  <2>1. UNCHANGED <<slot, applying, s_slotmap, ble, s_snap, silent, stale>>
    BY <1>1 DEF vars, radio, wire
  <2>2. Types' /\ FedByShelly' /\ OwnReading' /\ MapFollows' /\ TrueAges'
    BY <2>1 DEF IInv, Types, FedByShelly, OwnReading, MapFollows, TrueAges
  <2>3. OwnersOnly'
    BY <2>1 DEF IInv, OwnersOnly, Owner
  <2> QED
    BY <2>2, <2>3 DEF IInv
<1>2. CASE Next
  BY <1>2, TempsApplyStep, BlescanApplyStep, SetMqttStep, SetShellyStep, SetBatteryStep,
     HearStep, ScanStep, NoScanStep, FanOutStep, PassStep, ReadDevStep DEF Next
<1> QED
  BY <1>1, <1>2

LEMMA SensorsInvariant == Spec => []IInv
BY SensorsInit, SensorsStep, PTL DEF Spec

-----------------------------------------------------------------------------

\* What is shown came from the source, and the ROM, the slot is set to, whatever was
\* on its way when the settings changed.
THEOREM ShownComesFromSource == Spec => []ShownIsFromSource
<1>1. IInv => ShownIsFromSource
  BY DEF IInv, OwnReading, ShownIsFromSource, Shown
<1> QED
  BY <1>1, SensorsInvariant, PTL

\* A Shelly slot shows the assigned Shelly only, but for the two cases the history
\* tells.
THEOREM ShownAsAssigned == Spec => []ShownIsAssigned
<1>1. IInv => ShownIsAssigned
  BY DEF IInv, OwnersOnly, Owner, ShownIsAssigned, Shown, BatteryShown
<1> QED
  BY <1>1, SensorsInvariant, PTL

\* A silent sensor is shown no more, for any number of polls its silence lasts.
THEOREM SilentDisappears == Spec => []SilentIsNotShown
<1>1. IInv => SilentIsNotShown
  <2> SUFFICES ASSUME IInv, Shown PROVE silent[slot.from] < Fresh
    BY DEF SilentIsNotShown
  <2> DEFINE d == slot.from
  <2>1. d \in Devices /\ slot.age \in Nat /\ slot.age < Fresh /\ d # None
    BY AgesAre DEF IInv, Types, SlotStates, Shown
  <2>2. silent[d] <= slot.age
    BY <2>1 DEF IInv, TrueAges
  <2>3. silent[d] \in Nat /\ Fresh \in Nat
    BY <2>1, AgesAre DEF IInv, Types
  <2> HIDE DEF d
  <2>4. silent[d] < Fresh
    BY <2>1, <2>2, <2>3
  <2> QED
    BY <2>4 DEF d
<1> QED
  BY <1>1, SensorsInvariant, PTL

-----------------------------------------------------------------------------
(* The tables of both tasks.                                               *)

\* The entry that is given up is one of the table, which is shorter without it.
LEMMA WithoutType ==
  ASSUME s_dev \in Seq(Macs), NEW i \in 1 .. Len(s_dev)
  PROVE  Without(i) \in Seq(Macs) /\ Len(Without(i)) = Len(s_dev) - 1
<1>1. Len(s_dev) \in Nat
  OBVIOUS
<1>2. /\ SubSeq(s_dev, 1, i - 1) \in Seq(Macs)
      /\ Len(SubSeq(s_dev, 1, i - 1)) = i - 1
  BY <1>1, SubSeqProperties
<1>3. /\ SubSeq(s_dev, i + 1, Len(s_dev)) \in Seq(Macs)
      /\ Len(SubSeq(s_dev, i + 1, Len(s_dev))) = Len(s_dev) - i
  BY <1>1, SubSeqProperties
<1> DEFINE head == SubSeq(s_dev, 1, i - 1)
           rest == SubSeq(s_dev, i + 1, Len(s_dev))
<1> HIDE DEF head, rest
<1>4. /\ head \o rest \in Seq(Macs)
      /\ Len(head \o rest) = Len(head) + Len(rest)
  BY <1>2, <1>3, ConcatProperties DEF head, rest
<1>5. Len(head) = i - 1 /\ Len(rest) = Len(s_dev) - i
  BY <1>2, <1>3 DEF head, rest
<1>6. Without(i) = head \o rest
  BY DEF Without, head, rest
<1>7. \A n \in Nat : i \in 1 .. n => (i - 1) + (n - i) = n - 1
  OBVIOUS
<1>8. Len(head \o rest) = (i - 1) + (Len(s_dev) - i)
  BY <1>4, <1>5
<1>9. Len(Without(i)) = Len(s_dev) - 1
  BY <1>1, <1>6, <1>7, <1>8
<1> QED
  BY <1>4, <1>6, <1>9

LEMMA RegisteredType ==
  ASSUME s_dev \in Seq(Macs), Len(s_dev) <= MaxDev, NEW m \in Macs
  PROVE  Registered(m) \in Seq(Macs) /\ Len(Registered(m)) <= MaxDev
<1>1. Len(s_dev) \in Nat /\ MaxDev \in Nat \ {0} /\ DOMAIN s_dev = 1 .. Len(s_dev)
  BY SensorsConstants
<1>2. CASE ~IsIn(m) /\ Len(s_dev) < MaxDev
  BY <1>1, <1>2, AppendProperties DEF Registered
<1>3. CASE IsIn(m) \/ Len(s_dev) >= MaxDev
  <2>1. Entry(m) \in 1 .. Len(s_dev)
    BY <1>1, <1>3 DEF Entry, IsIn
  <2>2. Without(Entry(m)) \in Seq(Macs) /\ Len(Without(Entry(m))) = Len(s_dev) - 1
    BY <2>1, WithoutType
  <2>3. Registered(m) = Append(Without(Entry(m)), m)
    BY <1>1, <1>3 DEF Registered
  <2> QED
    BY <1>1, <2>2, <2>3, AppendProperties
<1> QED
  BY <1>1, <1>2, <1>3

\* What does not bear on the slot.
Tables ==
  /\ s_dev \in Seq(Macs) /\ Len(s_dev) <= MaxDev
  /\ handles \subseteq Roms
  /\ poll \in [at : {"scan", "read", "wait"}, todo : SUBSET Roms]
  /\ stale \in BOOLEAN

LEMMA TablesStep == Tables /\ [Next]_vars => Tables'
<1> SUFFICES ASSUME Tables, [Next]_vars PROVE Tables'
  OBVIOUS
<1> USE DEF radio, wire
<1>1. ASSUME NEW src \in Sources, NEW rom \in Roms \cup {None}, NEW mac \in Macs \cup {None},
             TempsApply(src, rom, mac)
      PROVE  Tables'
  BY <1>1 DEF TempsApply, Reassigned, Tables
<1>2. CASE BlescanApply \/ SetMqtt \/ SetShelly \/ SetBattery
  BY <1>2 DEF BlescanApply, SetMqtt, SetShelly, SetBattery, Tables
<1>3. ASSUME NEW m \in Macs, NEW feeds \in SUBSET Objects, Hear(m, feeds)
      PROVE  Tables'
  BY <1>3, RegisteredType DEF Hear, Tables
<1>4. ASSUME NEW found \in SUBSET Roms, Scan(found)
      PROVE  Tables'
  BY <1>4 DEF Scan, Tables
<1>5. CASE ScanFails \/ NoScan
  BY <1>5 DEF ScanFails, NoScan, Tables
<1>6. CASE FanOut \/ Pass
  BY <1>6 DEF FanOut, Pass, Tables
<1>7. ASSUME NEW r \in Roms, NEW ok \in BOOLEAN, ReadDev(r, ok)
      PROVE  Tables'
  BY <1>7 DEF ReadDev, Tables
<1>8. CASE UNCHANGED vars
  BY <1>8 DEF vars, Tables
<1> QED
  BY <1>1, <1>2, <1>3, <1>4, <1>5, <1>6, <1>7, <1>8 DEF Next

\* Slots, tables and ages keep their types, and no table outgrows its size, for any
\* sensors and sizes.
THEOREM TypeCorrect == Spec => []TypeOK
<1>1. Init => Tables
  <2>1. << >> \in Seq(Macs) /\ Len(<< >>) = 0
    OBVIOUS
  <2>2. MaxDev \in Nat
    BY SensorsConstants
  <2> SUFFICES ASSUME Init PROVE Tables
    OBVIOUS
  <2>3. s_dev \in Seq(Macs) /\ Len(s_dev) <= MaxDev
    BY <2>1, <2>2, SensorsConstants DEF Init
  <2>4. handles \subseteq Roms /\ poll \in [at : {"scan", "read", "wait"}, todo : SUBSET Roms]
    BY DEF Init
  <2>5. stale \in BOOLEAN
    BY DEF Init
  <2> QED
    BY <2>3, <2>4, <2>5 DEF Tables
<1>2. IInv /\ Tables => TypeOK
  BY DEF IInv, Types, Tables, TypeOK, SlotStates
<1> QED
  BY <1>1, <1>2, TablesStep, SensorsInvariant, PTL DEF Spec

===============================================================================
