------------------------------- MODULE Settings -------------------------------
(***************************************************************************)
(* The settings store of the clock (components/settings) with the tasks    *)
(* that share it: every writer is a request handler that takes a whole     *)
(* copy of the record, edits one field of the copy and puts the copy back  *)
(* (control_apply_kv on the httpd and MQTT tasks, nudge_brightness and the *)
(* alarm toggle on the main task); the main loop polls a version number    *)
(* and refreshes its own copy.  The record is also a blob in flash, read   *)
(* once per boot, and the power may fail at any moment.                    *)
(*                                                                         *)
(* The mutex s_lock makes settings_get and settings_set single steps; what *)
(* happens between two calls of the same handler is not protected.         *)
(***************************************************************************)
EXTENDS Naturals

CONSTANTS
  Writers,     \* the tasks that change settings
  MainTask,    \* the main loop, itself a writer (buttons)
  Keys,        \* the fields of clock_settings_t that requests name
  TailKeys,    \* the fields that version 7 of the record appended
  Values,      \* the values of a field
  Default,     \* load_defaults: the factory value of every field
  Bump(_),     \* the value a button press makes of the value it read
  MaxRequests, \* bound on the requests served in a behaviour
  MaxBoots     \* bound on the number of power cycles in a behaviour

ASSUME SettingsConstants ==
  /\ MainTask \in Writers
  /\ TailKeys \subseteq Keys
  /\ Default \in [Keys -> Values]
  /\ \A v \in Values : Bump(v) \in Values
  /\ MaxRequests \in Nat
  /\ MaxBoots \in Nat

VARIABLES
  up,       \* the firmware is running
  s_cfg,    \* the record in RAM; while the power is off, what it was last
  s_ver,    \* bumped by every successful settings_set
  nvs,      \* the blob in flash: its format and its fields
  handler,  \* handler[w]: what the handler running on task w is doing
  main,     \* the main loop: its copy, the version it last saw, where it is
  fresh,    \* history: tasks whose copy no other settings_set has outdated
  unsaved,  \* history: the last settings_set failed to reach the flash
  raced,    \* history: a set fell between the main loop's two reads
  requests, boots

vars == <<up, s_cfg, s_ver, nvs, handler, main, fresh, unsaved, raced,
          requests, boots>>

Record == [Keys -> Values]
Formats == {"none", "v6", "v7"}
Idle == [pc |-> "idle"]

(***************************************************************************)
(* What a blob means to settings_init: a version-7 blob is taken as it is, *)
(* a version-6 blob lacks the tail (its padding may hold anything), and    *)
(* everything else is replaced by the factory defaults.                    *)
(***************************************************************************)
Upgrade(blob) ==
  [k \in Keys |-> IF k \in TailKeys THEN Default[k] ELSE blob.cfg[k]]

\* Load of a firmware that knows only its own version.
LoadWithoutMigration(blob) == IF blob.format = "v7" THEN blob.cfg ELSE Default

Load(blob) ==
  CASE blob.format = "v7" -> blob.cfg
    [] blob.format = "v6" -> Upgrade(blob)
    [] blob.format = "none" -> Default

\* persist_locked: a write that fails may still have replaced the blob.
Written(cfg) == [format |-> "v7", cfg |-> cfg]
PersistSucceeds(cfg) == nvs' = Written(cfg)
PersistFails(cfg) == nvs' \in {nvs, Written(cfg)}

\* The settings the clock was last used with.  Before the first boot they are those
\* in the blob; whatever a version-6 blob has in place of the tail is not a setting.
Init ==
  /\ up = FALSE
  /\ nvs \in [format : Formats, cfg : Record]
  /\ s_cfg = IF nvs.format = "none" THEN Default ELSE nvs.cfg
  /\ s_ver = 0
  /\ handler = [w \in Writers |-> Idle]
  /\ main = [pc |-> "loop", cfg |-> Default, ver |-> 0]
  /\ fresh = {}
  /\ unsaved = FALSE
  /\ raced = FALSE
  /\ requests = 0
  /\ boots = 0

-----------------------------------------------------------------------------
(* Power. *)

PowerLoss ==
  /\ up
  /\ up' = FALSE
  /\ handler' = [w \in Writers |-> Idle]
  /\ fresh' = {}
  /\ UNCHANGED <<s_cfg, s_ver, nvs, main, unsaved, raced, requests, boots>>

\* What ensure_nvs leaves to read: it erases a partition it cannot use.
Found(erased) == IF erased THEN [nvs EXCEPT !.format = "none"] ELSE nvs

\* settings_init and the boot-time copy of app_main.  A migrated or defaulted
\* record is written back, which may fail.
Boot(erased) ==
  /\ ~up
  /\ boots < MaxBoots
  /\ boots' = boots + 1
  /\ s_cfg' = Load(Found(erased))
  /\ main' = [pc |-> "loop", cfg |-> s_cfg', ver |-> 0]
  /\ nvs' \in IF Found(erased).format = "v7" THEN {Found(erased)}
             ELSE {Found(erased), Written(s_cfg')}
  /\ s_ver' = 0
  /\ up' = TRUE
  /\ unsaved' = FALSE
  /\ raced' = FALSE
  /\ UNCHANGED <<handler, fresh, requests>>

-----------------------------------------------------------------------------
(* Writers. *)

\* Take with the copy made from the main loop's cached record.
TakeFromCache(w, k, v) ==
  /\ up
  /\ handler[w].pc = "idle"
  /\ w = MainTask => main.pc = "loop"
  /\ requests < MaxRequests
  /\ requests' = requests + 1
  /\ handler' = [handler EXCEPT ![w] =
       [pc |-> "copied", key |-> k, copy |-> [main.cfg EXCEPT ![k] = v]]]
  /\ fresh' = fresh \cup {w}
  /\ UNCHANGED <<up, s_cfg, s_ver, nvs, main, unsaved, raced, boots>>

\* settings_get and the edit of the copy.  The main task takes a request only
\* between two passes of its own refresh.
Take(w, k, v) ==
  /\ up
  /\ handler[w].pc = "idle"
  /\ w = MainTask => main.pc = "loop"
  /\ requests < MaxRequests
  /\ requests' = requests + 1
  /\ handler' = [handler EXCEPT ![w] =
       [pc |-> "copied", key |-> k, copy |-> [s_cfg EXCEPT ![k] = v]]]
  /\ fresh' = fresh \cup {w}
  /\ UNCHANGED <<up, s_cfg, s_ver, nvs, main, unsaved, raced, boots>>

\* control_apply_kv on a request for field k with value v
Apply(w, k, v) == w # MainTask /\ Take(w, k, v)

\* nudge_brightness, BTN_ALARM_TOGGLE
Press(k) == Take(MainTask, k, Bump(s_cfg[k]))

\* Put with the version never bumped.
PutWithoutBump(w, saved) ==
  /\ handler[w].pc = "copied"
  /\ s_cfg' = handler[w].copy
  /\ s_ver' = s_ver
  /\ IF saved THEN PersistSucceeds(handler[w].copy) ELSE PersistFails(handler[w].copy)

\* Put with the result of nvs_commit ignored.
PutIgnoresError(w, saved) ==
  /\ handler[w].pc = "copied"
  /\ s_cfg' = handler[w].copy
  /\ s_ver' = s_ver + 1
  /\ PersistFails(handler[w].copy)

\* settings_set under its lock: the RAM copy is replaced whatever the flash
\* does, the version moves only when the flash took the record.
Put(w, saved) ==
  /\ handler[w].pc = "copied"
  /\ s_cfg' = handler[w].copy
  /\ s_ver' = IF saved THEN s_ver + 1 ELSE s_ver
  /\ IF saved THEN PersistSucceeds(handler[w].copy) ELSE PersistFails(handler[w].copy)

Set(w, saved) ==
  /\ up
  /\ Put(w, saved)
  /\ fresh' = {}
  /\ unsaved' = ~saved
  /\ raced' = (raced \/ (saved /\ main.pc = "got"))
  /\ handler' = [handler EXCEPT ![w] = Idle]
  /\ UNCHANGED <<up, main, requests, boots>>

-----------------------------------------------------------------------------
(* The main loop's refresh: two calls, in this order. *)

RefreshCopy ==
  /\ up
  /\ main.pc = "loop"
  /\ handler[MainTask].pc = "idle"
  /\ s_ver # main.ver
  /\ main' = [main EXCEPT !.pc = "got", !.cfg = s_cfg]
  /\ raced' = FALSE
  /\ UNCHANGED <<up, s_cfg, s_ver, nvs, handler, fresh, unsaved, requests, boots>>

RefreshVersion ==
  /\ up
  /\ main.pc = "got"
  /\ main' = [main EXCEPT !.pc = "loop", !.ver = s_ver]
  /\ UNCHANGED <<up, s_cfg, s_ver, nvs, handler, fresh, unsaved, raced,
                 requests, boots>>

Next ==
  \/ PowerLoss
  \/ \E erased \in BOOLEAN : Boot(erased)
  \/ \E w \in Writers, k \in Keys, v \in Values : Apply(w, k, v)
  \/ \E k \in Keys : Press(k)
  \/ \E w \in Writers, saved \in BOOLEAN : Set(w, saved)
  \/ RefreshCopy
  \/ RefreshVersion

Spec == Init /\ [][Next]_vars

-----------------------------------------------------------------------------
(* Properties. *)

Handlers ==
  {Idle} \cup [pc : {"copied"}, key : Keys, copy : Record]

\* Every variable stays in its type, copies held by handlers included.
TypeOK ==
  /\ up \in BOOLEAN
  /\ s_cfg \in Record
  /\ s_ver \in Nat
  /\ nvs \in [format : Formats, cfg : Record]
  /\ handler \in [Writers -> Handlers]
  /\ main \in [pc : {"loop", "got"}, cfg : Record, ver : Nat]
  /\ fresh \subseteq Writers
  /\ unsaved \in BOOLEAN
  /\ raced \in BOOLEAN
  /\ requests \in 0 .. MaxRequests
  /\ boots \in 0 .. MaxBoots

\* While the clock runs, the flash holds what RAM holds, as the next boot
\* will read it, unless the last settings_set reported an error.
DurableUnlessFailed == up /\ ~unsaved => Load(nvs) = s_cfg

\* The fields the firmware did not have that wrote the blob: at its first boot this
\* one may find a version-6 record.
Appended == IF boots = 0 /\ nvs.format = "v6" THEN TailKeys ELSE {}

\* A power cycle brings back every setting the clock had, and so does the update
\* from version 6, which adds the factory values of the fields it appends: only an
\* erased partition or a change whose write failed loses one (settings.c:112-145).
PowerCycleKeeps ==
  [][Boot(FALSE) /\ ~unsaved =>
       \A k \in Keys : s_cfg'[k] = IF k \in Appended THEN Default[k] ELSE s_cfg[k]]_vars

\* The step in which the handler on w puts its copy back.
Finishes(w) == up /\ up' /\ handler[w].pc = "copied" /\ handler'[w].pc = "idle"

ChangesOnlyIn(k, before, after) ==
  \A other \in Keys \ {k} : after[other] = before[other]

\* A request changes the one field it names and no other's, whoever else is writing:
\* so it is with a single writing task only (control_apply_kv, nudge_brightness).
RequestChangesOneField ==
  [][\A w \in Writers : Finishes(w) => ChangesOnlyIn(handler[w].key, s_cfg, s_cfg')]_vars

\* A request no other settings_set overtakes changes the one field it names.
UndisturbedRequestChangesOneField ==
  [][\A w \in fresh : Finishes(w) => ChangesOnlyIn(handler[w].key, s_cfg, s_cfg')]_vars

\* A main loop that sees no newer version has the settings that are stored.
MainIsCurrent ==
  up /\ main.pc = "loop" /\ main.ver = s_ver /\ ~unsaved => main.cfg = s_cfg

\* When the main loop believes that it has the latest version and no write
\* failed, it has the latest settings, unless a set fell between the two
\* reads of its last refresh.
MainIsCurrentUnlessRaced == raced \/ MainIsCurrent

===============================================================================
