---------------------------- MODULE SettingsProofs ----------------------------
(***************************************************************************)
(* Proofs about the settings store, for every set of writers, fields and   *)
(* values and every bound; and about the publisher of what is stored, for  *)
(* every set of sensors and slots.                                         *)
(***************************************************************************)
EXTENDS Settings, Publisher, TLAPS

\* Before the first boot the settings are those in the blob; from then on the RAM
\* copy agrees with the flash as long as the last write succeeded.
Durable ==
  /\ up => boots > 0
  /\ boots = 0 => s_cfg = IF nvs.format = "none" THEN Default ELSE nvs.cfg
  /\ boots > 0 /\ ~unsaved => Load(nvs) = s_cfg

\* The copy of a handler nobody overtook differs from RAM in its field only.
FreshCopies ==
  \A w \in fresh :
    /\ up
    /\ handler[w].pc = "copied"
    /\ ChangesOnlyIn(handler[w].key, s_cfg, handler[w].copy)

\* What the main loop knows, before and after it has read the version.
MainKnows ==
  /\ up => main.ver <= s_ver
  /\ up /\ main.pc = "got" /\ ~raced /\ ~unsaved => main.cfg = s_cfg
  /\ MainIsCurrentUnlessRaced

IInv == TypeOK /\ Durable /\ FreshCopies /\ MainKnows

-----------------------------------------------------------------------------

Blobs == [format : Formats, cfg : Record]

\* Whatever the blob, settings_init makes a record of it.
LEMMA LoadType == ASSUME NEW blob \in Blobs PROVE Load(blob) \in Record
BY SettingsConstants DEF Load, Upgrade, Record, Formats, Blobs

\* The record written back reads as itself.
LEMMA LoadOfWritten ==
  ASSUME NEW cfg \in Record
  PROVE  Written(cfg) \in Blobs /\ Load(Written(cfg)) = cfg
BY DEF Load, Written, Blobs, Formats

LEMMA TypeStep == TypeOK /\ [Next]_vars => TypeOK'
<1> SUFFICES ASSUME TypeOK, [Next]_vars PROVE TypeOK'
  OBVIOUS
<1> USE DEF TypeOK, Handlers, Idle
<1>1. CASE PowerLoss
  BY <1>1 DEF PowerLoss
<1>2. ASSUME NEW erased \in BOOLEAN, Boot(erased) PROVE TypeOK'
  <2>1. Found(erased) \in Blobs
    BY DEF Found, Blobs, Formats
  <2>2. s_cfg' \in Record
    BY <1>2, <2>1, LoadType DEF Boot
  <2>3. nvs' \in Blobs
    BY <1>2, <2>1, <2>2, LoadOfWritten DEF Boot
  <2>4. main' \in [pc : {"loop", "got"}, cfg : Record, ver : Nat]
    BY <1>2, <2>2 DEF Boot
  <2>5. boots' \in 0 .. MaxBoots
    BY <1>2, SettingsConstants DEF Boot
  <2>6. UNCHANGED <<handler, fresh, requests>> /\ s_ver' = 0
    BY <1>2 DEF Boot
  <2>7. up' \in BOOLEAN /\ unsaved' \in BOOLEAN /\ raced' \in BOOLEAN
    BY <1>2 DEF Boot
  <2> QED
    BY <2>2, <2>3, <2>4, <2>5, <2>6, <2>7 DEF Blobs
<1>3. ASSUME NEW w \in Writers, NEW k \in Keys, NEW v \in Values, Take(w, k, v)
      PROVE  TypeOK'
  <2>1. [s_cfg EXCEPT ![k] = v] \in Record
    BY DEF Record
  <2>2. [pc |-> "copied", key |-> k, copy |-> [s_cfg EXCEPT ![k] = v]]
          \in [pc : {"copied"}, key : Keys, copy : Record]
    BY <2>1
  <2>3. handler' \in [Writers -> Handlers]
    BY <1>3, <2>2 DEF Take
  <2> QED
    BY <1>3, <2>3, SettingsConstants DEF Take
<1>4. ASSUME NEW w \in Writers, NEW saved \in BOOLEAN, Set(w, saved) PROVE TypeOK'
  <2>1. handler[w] \in [pc : {"copied"}, key : Keys, copy : Record]
    BY <1>4 DEF Set, Put
  <2>2. s_cfg' \in Record /\ nvs' \in [format : Formats, cfg : Record] /\ s_ver' \in Nat
    BY <1>4, <2>1 DEF Set, Put, PersistSucceeds, PersistFails, Written, Formats
  <2> QED
    BY <1>4, <2>2 DEF Set
<1>5. CASE RefreshCopy
  BY <1>5 DEF RefreshCopy
<1>6. CASE RefreshVersion
  BY <1>6 DEF RefreshVersion
<1>7. CASE UNCHANGED vars
  BY <1>7 DEF vars
<1>8. ASSUME NEW k \in Keys, Press(k) PROVE TypeOK'
  <2>1. Bump(s_cfg[k]) \in Values
    BY SettingsConstants DEF Record
  <2> QED
    BY <1>3, <1>8, <2>1, SettingsConstants DEF Press
<1> QED
  BY <1>1, <1>2, <1>3, <1>4, <1>5, <1>6, <1>7, <1>8 DEF Next, Apply

LEMMA InitIInv == Init => IInv
<1> SUFFICES ASSUME Init PROVE IInv
  OBVIOUS
<1>1. TypeOK
  <2>1. Default \in Record /\ requests \in 0 .. MaxRequests /\ boots \in 0 .. MaxBoots
    BY SettingsConstants DEF Init, Record
  <2>3. s_cfg \in Record
    BY <2>1 DEF Init
  <2>2. handler \in [Writers -> Handlers]
    BY DEF Init, Handlers
  <2> QED
    BY <2>1, <2>2, <2>3 DEF Init, TypeOK
<1>2. Durable /\ FreshCopies /\ MainKnows
  BY DEF Init, Durable, FreshCopies, MainKnows, MainIsCurrentUnlessRaced, MainIsCurrent
<1> QED
  BY <1>1, <1>2 DEF IInv

\* Each conjunct is preserved on its own, given the types.
LEMMA DurableStep == TypeOK /\ Durable /\ [Next]_vars => Durable'
<1> SUFFICES ASSUME TypeOK, Durable, [Next]_vars PROVE Durable'
  OBVIOUS
<1> USE DEF Durable, TypeOK
<1>1. CASE PowerLoss
  BY <1>1 DEF PowerLoss
<1>2. ASSUME NEW erased \in BOOLEAN, Boot(erased) PROVE Durable'
  <2>1. Found(erased) \in Blobs
    BY DEF Found, Blobs, Formats
  <2>2. s_cfg' = Load(Found(erased)) /\ s_cfg' \in Record
    BY <1>2, <2>1, LoadType DEF Boot
  <2>3. Load(nvs') = s_cfg'
    BY <1>2, <2>2, LoadOfWritten DEF Boot
  <2>4. boots' > 0 /\ boots' # 0
    BY <1>2, SettingsConstants DEF Boot
  <2> QED
    BY <2>3, <2>4
<1>3. ASSUME NEW w \in Writers, NEW saved \in BOOLEAN, Set(w, saved) PROVE Durable'
  <2>1. handler[w].copy \in Record
    BY <1>3 DEF Set, Put, Handlers, Idle
  <2>2. boots' = boots /\ boots > 0 /\ boots # 0
    BY <1>3, SettingsConstants DEF Set
  <2>3. CASE saved
    BY <1>3, <2>1, <2>2, <2>3, LoadOfWritten DEF Set, Put, PersistSucceeds
  <2>4. CASE ~saved
    <3>1. unsaved'
      BY <1>3, <2>4 DEF Set
    <3> QED
      BY <2>2, <3>1
  <2> QED
    BY <2>3, <2>4
<1>4. ASSUME NEW w \in Writers, NEW k, NEW v, Take(w, k, v) PROVE Durable'
  BY <1>4 DEF Take
<1>5. CASE RefreshCopy \/ RefreshVersion \/ UNCHANGED vars
  BY <1>5 DEF RefreshCopy, RefreshVersion, vars
<1> QED
  BY <1>1, <1>2, <1>3, <1>4, <1>5, SettingsConstants DEF Next, Apply, Press

LEMMA FreshStep == TypeOK /\ FreshCopies /\ [Next]_vars => FreshCopies'
<1> SUFFICES ASSUME TypeOK, FreshCopies, [Next]_vars,
                    NEW u \in fresh'
             PROVE  /\ up'
                    /\ handler'[u].pc = "copied"
                    /\ ChangesOnlyIn(handler'[u].key, s_cfg', handler'[u].copy)
  BY DEF FreshCopies
<1> USE DEF FreshCopies, TypeOK, ChangesOnlyIn
<1>1. CASE PowerLoss
  BY <1>1 DEF PowerLoss
<1>2. ASSUME NEW erased \in BOOLEAN, Boot(erased) PROVE FALSE
  BY <1>2 DEF Boot
<1>3. ASSUME NEW w \in Writers, NEW k \in Keys, NEW v \in Values, Take(w, k, v)
      PROVE  /\ up'
             /\ handler'[u].pc = "copied"
             /\ ChangesOnlyIn(handler'[u].key, s_cfg', handler'[u].copy)
  <2>1. CASE u = w
    BY <1>3, <2>1 DEF Take, Record
  <2>2. CASE u # w
    BY <1>3, <2>2 DEF Take
  <2> QED
    BY <2>1, <2>2
<1>4. ASSUME NEW w \in Writers, NEW saved \in BOOLEAN, Set(w, saved)
      PROVE  /\ up'
             /\ handler'[u].pc = "copied"
             /\ ChangesOnlyIn(handler'[u].key, s_cfg', handler'[u].copy)
  BY <1>4 DEF Set
<1>5. CASE RefreshCopy
  BY <1>5 DEF RefreshCopy
<1>7. CASE RefreshVersion
  BY <1>7 DEF RefreshVersion
<1>8. CASE UNCHANGED vars
  BY <1>8 DEF vars
<1>6. ASSUME NEW k \in Keys, Press(k)
      PROVE  /\ up'
             /\ handler'[u].pc = "copied"
             /\ ChangesOnlyIn(handler'[u].key, s_cfg', handler'[u].copy)
  <2>1. Bump(s_cfg[k]) \in Values
    BY SettingsConstants DEF Record
  <2> QED
    BY <1>3, <1>6, <2>1, SettingsConstants DEF Press
<1> QED
  BY <1>1, <1>2, <1>3, <1>4, <1>5, <1>6, <1>7, <1>8 DEF Next, Apply

LEMMA MainStep == TypeOK /\ MainKnows /\ [Next]_vars => MainKnows'
<1> SUFFICES ASSUME TypeOK, MainKnows, [Next]_vars PROVE MainKnows'
  OBVIOUS
<1> USE DEF MainKnows, MainIsCurrentUnlessRaced, MainIsCurrent
<1>1. CASE PowerLoss
  BY <1>1 DEF PowerLoss
<1>2. ASSUME NEW erased \in BOOLEAN, Boot(erased) PROVE MainKnows'
  BY <1>2 DEF Boot
<1>3. ASSUME NEW w \in Writers, NEW saved \in BOOLEAN, Set(w, saved) PROVE MainKnows'
  <2>1. CASE saved
    <3>1. s_ver' = s_ver + 1 /\ unsaved' = FALSE /\ main' = main /\ up
      BY <1>3, <2>1 DEF Set, Put
    <3>2. main.ver <= s_ver' /\ main.ver # s_ver'
      BY <3>1 DEF TypeOK
    <3>3. main.pc = "got" => raced'
      BY <1>3, <2>1 DEF Set
    <3> QED
      BY <3>1, <3>2, <3>3
  <2>2. CASE ~saved
    BY <1>3, <2>2 DEF Set, Put
  <2> QED
    BY <2>1, <2>2
<1>4. ASSUME NEW w \in Writers, NEW k, NEW v, Take(w, k, v) PROVE MainKnows'
  BY <1>4 DEF Take
<1>5. CASE RefreshCopy
  BY <1>5 DEF RefreshCopy, TypeOK
<1>6. CASE RefreshVersion
  BY <1>6 DEF RefreshVersion, TypeOK
<1>7. CASE UNCHANGED vars
  BY <1>7 DEF vars
<1> QED
  BY <1>1, <1>2, <1>3, <1>4, <1>5, <1>6, <1>7, SettingsConstants DEF Next, Apply, Press

\* The inductive invariant: types, the flash, the copies and the main loop.
THEOREM Invariance == Spec => []IInv
<1>1. Init => IInv
  BY InitIInv
<1>2. IInv /\ [Next]_vars => IInv'
  BY TypeStep, DurableStep, FreshStep, MainStep DEF IInv
<1> QED
  BY <1>1, <1>2, PTL DEF Spec

\* Every variable and every copy keeps its type (settings.c:18-20).
THEOREM TypeCorrect == Spec => []TypeOK
BY Invariance, PTL DEF IInv

\* settings_set and settings_init keep flash and RAM in agreement unless a
\* write failed (settings.c:101-168).
THEOREM FlashAgrees == Spec => []DurableUnlessFailed
<1>1. IInv => DurableUnlessFailed
  BY DEF IInv, Durable, DurableUnlessFailed
<1> QED
  BY <1>1, Invariance, PTL

\* The main loop is stale only after a set between its two reads
\* (main.c:430-443).
THEOREM MainStaleOnlyIfRaced == Spec => []MainIsCurrentUnlessRaced
<1>1. IInv => MainIsCurrentUnlessRaced
  BY DEF IInv, MainKnows
<1> QED
  BY <1>1, Invariance, PTL

\* A boot that finds its partition usable finds every setting the clock had when the
\* power failed, at the update from version 6 too (settings.c:101-146).
THEOREM PowerCycle == Spec => PowerCycleKeeps
<1>1. IInv /\ [Next]_vars =>
        [Boot(FALSE) /\ ~unsaved =>
           \A k \in Keys :
             s_cfg'[k] = IF k \in Appended THEN Default[k] ELSE s_cfg[k]]_vars
  <2> SUFFICES ASSUME IInv, Boot(FALSE), ~unsaved, NEW k \in Keys
               PROVE  s_cfg'[k] = IF k \in Appended THEN Default[k] ELSE s_cfg[k]
    OBVIOUS
  <2>1. s_cfg' = Load(nvs)
    BY DEF Boot, Found
  <2>2. CASE boots = 0
    <3>1. s_cfg = IF nvs.format = "none" THEN Default ELSE nvs.cfg
      BY <2>2 DEF IInv, Durable
    <3>2. nvs.format \in {"none", "v6", "v7"}
      BY DEF IInv, TypeOK, Formats
    <3> QED
      BY <2>1, <2>2, <3>1, <3>2 DEF Load, Upgrade, Appended
  <2>3. CASE boots # 0
    <3>1. boots > 0
      BY <2>3, SettingsConstants DEF IInv, TypeOK
    <3> QED
      BY <2>1, <2>3, <3>1 DEF IInv, Durable, Appended
  <2> QED
    BY <2>2, <2>3
<1> QED
  BY <1>1, Invariance, PTL DEF Spec, PowerCycleKeeps

\* A request nobody overtook changes its own field and no other
\* (control.c:136-194).
THEOREM UndisturbedRequests == Spec => UndisturbedRequestChangesOneField
<1>1. IInv /\ [Next]_vars =>
        [\A w \in fresh :
           Finishes(w) => ChangesOnlyIn(handler[w].key, s_cfg, s_cfg')]_vars
  <2> SUFFICES ASSUME IInv, Next, NEW w \in fresh, Finishes(w)
               PROVE  ChangesOnlyIn(handler[w].key, s_cfg, s_cfg')
    OBVIOUS
  <2>1. PICK u \in Writers, saved \in BOOLEAN : Set(u, saved)
    BY DEF Next, PowerLoss, Boot, Apply, Press, Take, RefreshCopy, RefreshVersion,
           Finishes, Idle, IInv, TypeOK
  <2>2. u = w
    BY <2>1 DEF Set, Finishes, IInv, TypeOK
  <2> QED
    BY <2>1, <2>2 DEF Set, Put, IInv, FreshCopies
<1> QED
  BY <1>1, Invariance, PTL DEF Spec, UndisturbedRequestChangesOneField

\* Were the requests of all surfaces served by one task, none could undo a
\* field another had set: the copy-edit-put of control_apply_kv and
\* nudge_brightness would be enough.
THEOREM OneWriterLosesNothing ==
  ASSUME \A a, b \in Writers : a = b
  PROVE  Spec => RequestChangesOneField
<1> DEFINE AllFresh == \A w \in Writers : handler[w].pc = "copied" => w \in fresh
<1>1. Init => AllFresh
  BY DEF Init, Idle
<1>2. TypeOK /\ AllFresh /\ [Next]_vars => AllFresh'
  <2> SUFFICES ASSUME TypeOK, AllFresh, [Next]_vars, NEW u \in Writers,
                      handler'[u].pc = "copied"
               PROVE  u \in fresh'
    OBVIOUS
  <2>1. CASE PowerLoss
    BY <2>1 DEF PowerLoss, Idle
  <2>2. ASSUME NEW erased \in BOOLEAN, Boot(erased) PROVE u \in fresh'
    BY <2>2 DEF Boot
  <2>3. ASSUME NEW w \in Writers, NEW k, NEW v, Take(w, k, v) PROVE u \in fresh'
    <3>1. u = w
      OBVIOUS
    <3> QED
      BY <2>3, <3>1 DEF Take
  <2>4. ASSUME NEW w \in Writers, NEW saved \in BOOLEAN, Set(w, saved)
        PROVE  FALSE
    <3>1. u = w
      OBVIOUS
    <3> QED
      BY <2>4, <3>1 DEF Set, TypeOK, Idle
  <2>5. CASE RefreshCopy
    BY <2>5 DEF RefreshCopy
  <2>6. CASE RefreshVersion
    BY <2>6 DEF RefreshVersion
  <2>7. CASE UNCHANGED vars
    BY <2>7 DEF vars
  <2> QED
    BY <2>1, <2>2, <2>3, <2>4, <2>5, <2>6, <2>7, SettingsConstants
       DEF Next, Apply, Press
<1>3. AllFresh /\ [\A w \in fresh :
                     Finishes(w) => ChangesOnlyIn(handler[w].key, s_cfg, s_cfg')]_vars
        => [\A w \in Writers :
              Finishes(w) => ChangesOnlyIn(handler[w].key, s_cfg, s_cfg')]_vars
  BY DEF Finishes
<1> QED
  BY <1>1, <1>2, <1>3, TypeCorrect, UndisturbedRequests, PTL
     DEF Spec, UndisturbedRequestChangesOneField, RequestChangesOneField

-----------------------------------------------------------------------------
(* The publisher.                                                          *)

Positions == {"rest", "connected", "announce", "render", "publish"}
TaskStates == [at : Positions, doc : Documents]
Notes == [version : 0 .. MaxVersion, scan : 0 .. MaxScans, due : BOOLEAN]

\* What a task goes on to.
LEMMA TaskType ==
  ASSUME task \in [Tasks -> TaskStates], NEW t \in Tasks,
         \/ \E at \in Positions : task' = [task EXCEPT ![t].at = at]
         \/ \E state \in TaskStates : task' = [task EXCEPT ![t] = state]
         \/ task' = task
  PROVE  task' \in [Tasks -> TaskStates]
<1>1. task[t] \in TaskStates
  OBVIOUS
<1>2. ASSUME NEW at \in Positions, task' = [task EXCEPT ![t].at = at]
      PROVE  task' \in [Tasks -> TaskStates]
  <2>1. [task[t] EXCEPT !.at = at] \in TaskStates
    BY <1>1 DEF TaskStates
  <2> QED
    BY <1>2, <2>1
<1>3. ASSUME NEW state \in TaskStates, task' = [task EXCEPT ![t] = state]
      PROVE  task' \in [Tasks -> TaskStates]
  BY <1>3
<1> QED
  BY <1>2, <1>3

LEMMA PublisherTypeStep ==
  PublisherTypeOK /\ [PublisherNext]_publisherVars => PublisherTypeOK'
<1> SUFFICES ASSUME PublisherTypeOK, [PublisherNext]_publisherVars PROVE PublisherTypeOK'
  OBVIOUS
<1> USE DEF clock, client, broker, link
<1>1. MaxVersion \in Nat /\ MaxScans \in Nat /\ MaxBreaks \in Nat
  BY PublisherConstants
<1>2. NoDocument \in Documents /\ Document \in Documents
  BY <1>1 DEF NoDocument, Document, Documents, PublisherTypeOK
<1>3. Resting \in TaskStates
  BY <1>2 DEF Resting, TaskStates, Positions
<1>4. Fresh \in Notes
  BY DEF Fresh, Notes, PublisherTypeOK
<1>5. /\ task \in [Tasks -> TaskStates] /\ last \in Notes
      /\ {"client", "mqtt_state"} \subseteq Tasks
      /\ {"rest", "connected", "announce", "render", "publish"} \subseteq Positions
  BY DEF PublisherTypeOK, TaskStates, Positions, Notes, Tasks
<1> USE DEF PublisherTypeOK, TaskStates, Positions, Notes
<1> HIDE DEF Documents
<1>6. CASE Change \/ OtherChange
  BY <1>1, <1>6 DEF Change, OtherChange
<1>7. ASSUME NEW found \in SUBSET Roms, ScanBus(found) PROVE PublisherTypeOK'
  BY <1>1, <1>7 DEF ScanBus
<1>8. CASE Break \/ Reconnect
  <2>1. breaks' \in 0 .. MaxBreaks
    BY <1>1, <1>8 DEF Break, Reconnect
  <2> QED
    BY <1>8, <2>1 DEF Break, Reconnect
<1>22. CASE ClearBroker
  <2>1. breaks' \in 0 .. MaxBreaks
    BY <1>1, <1>22 DEF ClearBroker
  <2>2. outbox' \subseteq Roms \cup {"online"}
    BY <1>22 DEF ClearBroker
  <2> QED
    BY <1>22, <2>1, <2>2 DEF ClearBroker
<1>23. CASE Stopped \/ SetBroker
  BY <1>23 DEF Stopped, SetBroker
<1>9. CASE Restart
  <2>1. task' \in [Tasks -> TaskStates] /\ last' \in Notes
    BY <1>3, <1>4, <1>9 DEF Restart
  <2>2. breaks' \in 0 .. MaxBreaks
    BY <1>1, <1>9 DEF Restart
  <2> QED
    BY <1>9, <2>1, <2>2 DEF Restart
<1>10. CASE Will
  BY <1>10 DEF Will
<1>11. CASE Connect
  <2>1. task' \in [Tasks -> TaskStates]
    BY <1>5, <1>11, TaskType DEF Connect
  <2> QED
    BY <1>11, <2>1 DEF Connect
<1>12. ASSUME NEW m \in Roms \cup {"online"}, Deliver(m) PROVE PublisherTypeOK'
  BY <1>12 DEF Deliver
<1>13. CASE Connected
  <2>1. task' \in [Tasks -> TaskStates]
    BY <1>5, <1>13, TaskType DEF Connected
  <2> QED
    BY <1>13, <2>1 DEF Connected
<1>14. CASE Disconnected
  BY <1>14 DEF Disconnected
<1>15. ASSUME NEW key \in BOOLEAN, Command(key) PROVE PublisherTypeOK'
  <2>1. task' \in [Tasks -> TaskStates]
    BY <1>5, <1>15, TaskType DEF Command
  <2> QED
    BY <1>1, <1>15, <2>1 DEF Command
<1>16. ASSUME NEW t \in Tasks, Announce(t) PROVE PublisherTypeOK'
  <2>1. task' \in [Tasks -> TaskStates]
    BY <1>5, <1>16, TaskType DEF Announce
  <2> QED
    BY <1>16, <2>1 DEF Announce
<1>17. ASSUME NEW t \in Tasks, Render(t) PROVE PublisherTypeOK'
  <2>1. [at |-> "publish", doc |-> Document] \in TaskStates
    BY <1>2
  <2>2. task' \in [Tasks -> TaskStates]
    BY <1>3, <1>5, <1>17, <2>1, TaskType DEF Render
  <2> QED
    BY <1>17, <2>2 DEF Render
<1>18. ASSUME NEW t \in Tasks, Publish(t) PROVE PublisherTypeOK'
  <2>1. task' \in [Tasks -> TaskStates]
    BY <1>3, <1>5, <1>18, TaskType DEF Publish
  <2>2. task[t].doc \in Documents
    BY <1>5
  <2> QED
    BY <1>18, <2>1, <2>2 DEF Publish
<1>19. CASE PeriodPasses
  BY <1>19 DEF PeriodPasses
<1>20. CASE StateTask
  <2>1. task' \in [Tasks -> TaskStates]
    BY <1>5, <1>20, TaskType DEF StateTask
  <2> QED
    BY <1>20, <2>1 DEF StateTask
<1>21. CASE UNCHANGED publisherVars
  BY <1>21 DEF publisherVars
<1> QED
  BY <1>6, <1>7, <1>8, <1>9, <1>10, <1>11, <1>12, <1>13, <1>14, <1>15, <1>16, <1>17,
     <1>18, <1>19, <1>20, <1>21, <1>22, <1>23 DEF PublisherNext, Step

\* The sensors of the scan that mqtt_state took note of last are announced, or in the
\* outbox, from when it has announced them, and while the client is connected from when
\* that has; no scan is noted before it was made.
Announced ==
  /\ last.scan <= scan_gen
  /\ /\ s_connected /\ ~idle
     /\ \A t \in Tasks : task[t].at # "announce"
     /\ last.scan = scan_gen
     => roms \subseteq known \cup outbox

LEMMA AnnouncedStep ==
  PublisherTypeOK /\ Announced /\ [PublisherNext]_publisherVars => Announced'
<1> SUFFICES ASSUME PublisherTypeOK, Announced, [PublisherNext]_publisherVars
             PROVE  Announced'
  OBVIOUS
<1> USE DEF clock, client, broker, link
<1>1. /\ scan_gen \in Nat /\ last.scan \in Nat
      /\ task \in [Tasks -> TaskStates]
      /\ "mqtt_state" \in Tasks /\ "client" \in Tasks
  BY PublisherConstants DEF PublisherTypeOK, Tasks, TaskStates, Positions
<1>2. CASE Change \/ OtherChange \/ Break \/ Reconnect \/ Will \/ Disconnected
  BY <1>2 DEF Change, OtherChange, Break, Reconnect, Will, Disconnected, Announced
<1>13. CASE ClearBroker \/ Stopped \/ SetBroker
  BY <1>13 DEF ClearBroker, Stopped, SetBroker, Announced
<1>3. ASSUME NEW found \in SUBSET Roms, ScanBus(found) PROVE Announced'
  BY <1>1, <1>3 DEF ScanBus, Announced
<1>4. CASE Restart
  BY <1>1, <1>4 DEF Restart, Fresh, Announced
<1>5. CASE Connect
  BY <1>5 DEF Connect, Announced
<1>14. CASE Connected
  <2>1. task'["client"].at = "announce"
    BY <1>1, <1>14 DEF Connected, TaskStates
  <2> QED
    BY <1>1, <1>14, <2>1 DEF Connected, Announced
<1>6. ASSUME NEW m \in Roms \cup {"online"}, Deliver(m) PROVE Announced'
  <2>1. roms \subseteq Roms
    BY DEF PublisherTypeOK
  <2>2. roms \subseteq known \cup outbox => roms \subseteq known' \cup outbox'
    BY <1>6, <2>1, PublisherConstants DEF Deliver
  <2> QED
    BY <1>6, <2>2 DEF Deliver, Announced
<1>7. ASSUME NEW key \in BOOLEAN, Command(key) PROVE Announced'
  <2>1. \A t \in Tasks : task'[t].at # "announce" => task[t].at # "announce"
    BY <1>1, <1>7 DEF Command, TaskStates
  <2> QED
    BY <1>7, <2>1 DEF Command, Announced
<1>8. ASSUME NEW t \in Tasks, Announce(t) PROVE Announced'
  BY <1>8 DEF Announce, Announced
<1>9. ASSUME NEW t \in Tasks, Render(t) \/ Publish(t) PROVE Announced'
  <2>1. task[t].at # "announce"
    BY <1>9 DEF Render, Publish
  <2>2. \A u \in Tasks : u # t => task'[u] = task[u]
    BY <1>1, <1>9 DEF Render, Publish
  <2> QED
    BY <1>9, <2>1, <2>2 DEF Render, Publish, Announced
<1>10. CASE PeriodPasses
  <2>1. last'.scan = last.scan
    BY <1>10 DEF PeriodPasses, PublisherTypeOK
  <2> QED
    BY <1>10, <2>1 DEF PeriodPasses, Announced
<1>11. CASE StateTask
  <2>1. last'.scan = scan_gen /\ scan_gen' = scan_gen
    BY <1>11 DEF StateTask
  <2>2. CASE scan_gen = last.scan
    <3>1. \A t \in Tasks : task'[t].at # "announce" => task[t].at # "announce"
      BY <1>1, <1>11 DEF StateTask
    <3> QED
      BY <1>1, <1>11, <2>1, <2>2, <3>1 DEF StateTask, Announced
  <2>3. CASE scan_gen # last.scan
    <3>1. task'["mqtt_state"].at = "announce"
      BY <1>1, <1>11, <2>3 DEF StateTask, TaskStates
    <3> QED
      BY <1>1, <2>1, <3>1 DEF Announced
  <2> QED
    BY <2>2, <2>3
<1>12. CASE UNCHANGED publisherVars
  BY <1>12 DEF publisherVars, Announced
<1> QED
  BY <1>2, <1>3, <1>4, <1>5, <1>6, <1>7, <1>8, <1>9, <1>10, <1>11, <1>12, <1>13, <1>14
     DEF PublisherNext, Step

LEMMA PublisherBegins == PublisherInit => PublisherTypeOK /\ Announced
<1> SUFFICES ASSUME PublisherInit PROVE PublisherTypeOK /\ Announced
  OBVIOUS
<1>1. MaxVersion \in Nat /\ MaxScans \in Nat /\ MaxBreaks \in Nat
  BY PublisherConstants
<1>2. NoDocument \in Documents
  BY <1>1 DEF NoDocument, Documents
<1>3. Resting \in TaskStates
  BY <1>2 DEF Resting, TaskStates, Positions
<1>4. task \in [Tasks -> TaskStates] /\ last \in Notes
  BY <1>1, <1>3 DEF PublisherInit, Fresh, Notes
<1>5. 0 \in 0 .. MaxVersion /\ 0 \in 0 .. MaxScans /\ 0 \in 0 .. MaxBreaks
  BY <1>1
<1>6. PublisherTypeOK
  BY <1>2, <1>4, <1>5 DEF PublisherInit, PublisherTypeOK, TaskStates, Positions, Notes
<1> QED
  BY <1>6 DEF PublisherInit, Announced, Fresh

LEMMA PublisherRuns ==
  PublisherSpec => PublisherInit /\ [][PublisherNext]_publisherVars
BY PTL DEF PublisherSpec

\* Tasks, documents and what the broker holds keep their types, for any sensors and
\* any bounds.
THEOREM PublisherTypes == PublisherSpec => []PublisherTypeOK
<1>1. PublisherInit => PublisherTypeOK
  BY PublisherBegins
<1> QED
  BY <1>1, PublisherTypeStep, PublisherRuns, PTL

\* No sensor of a scan that mqtt_state took note of stays unannounced, for any number
\* of sensors, scans, restarts, broken connections and brokers cleared.
THEOREM AllAnnounced == PublisherSpec => []NoneUnannounced
<1>1. PublisherInit => Announced
  BY PublisherBegins
<1>2. Announced => NoneUnannounced
  BY DEF Announced, NoneUnannounced, Tasks
<1> QED
  BY <1>1, <1>2, AnnouncedStep, PublisherTypes, PublisherRuns, PTL

-----------------------------------------------------------------------------
(* The availability.                                                       *)

\* A connection of which the client knows has announced the clock, or is about to;
\* the broker holds the will of every connection, and the clock learns of each.
Available ==
  /\ session => will /\ ~idle
  /\ session => s_connected \/ task["client"].at = "connected"
  /\ task["client"].at = "connected" => ~s_connected
  /\ session /\ s_connected => avail = "online" \/ "online" \in outbox

\* While connected, the clock is online at the broker as soon as the outbox is
\* delivered; and if it goes, the broker will say so.
OnlineOnceDelivered ==
  session => /\ will
             /\ s_connected /\ outbox = {} => avail = "online"

LEMMA AvailableStep ==
  PublisherTypeOK /\ Available /\ [PublisherNext]_publisherVars => Available'
<1> SUFFICES ASSUME PublisherTypeOK, Available, [PublisherNext]_publisherVars
             PROVE  Available'
  OBVIOUS
<1> USE DEF clock, client, broker, link
<1>1. task \in [Tasks -> TaskStates] /\ "client" \in Tasks /\ "mqtt_state" \in Tasks
  BY DEF PublisherTypeOK, TaskStates, Positions, Tasks
<1>2. CASE Change \/ OtherChange \/ PeriodPasses \/ UNCHANGED publisherVars
  BY <1>2 DEF Change, OtherChange, PeriodPasses, publisherVars, Available
<1>3. ASSUME NEW found \in SUBSET Roms, ScanBus(found) PROVE Available'
  BY <1>3 DEF ScanBus, Available
<1>4. CASE Break \/ Reconnect \/ Will \/ Disconnected
  BY <1>4 DEF Break, Reconnect, Will, Disconnected, Available
<1>12. CASE ClearBroker \/ Stopped \/ SetBroker
  BY <1>12 DEF ClearBroker, Stopped, SetBroker, Available
<1>5. CASE Restart
  <2>1. task'["client"].at = "rest"
    BY <1>1, <1>5 DEF Restart, Resting
  <2> QED
    BY <1>5, <2>1 DEF Restart, Available
<1>6. CASE Connect
  <2>1. task'["client"].at = "connected"
    BY <1>1, <1>6 DEF Connect, TaskStates
  <2> QED
    BY <1>6, <2>1 DEF Connect, Available
<1>7. ASSUME NEW m \in Roms \cup {"online"}, Deliver(m) PROVE Available'
  <2>1. m = "online" => avail' = "online"
    BY <1>7 DEF Deliver
  <2>2. m # "online" => avail' = avail /\ ("online" \in outbox => "online" \in outbox')
    BY <1>7 DEF Deliver
  <2> QED
    BY <1>7, <2>1, <2>2 DEF Deliver, Available
<1>8. CASE Connected
  <2>1. task'["client"].at = "announce"
    BY <1>1, <1>8 DEF Connected, TaskStates
  <2> QED
    BY <1>8, <2>1 DEF Connected, Available
<1>9. ASSUME NEW key \in BOOLEAN, Command(key) PROVE Available'
  <2>1. task'["client"].at = "render"
    BY <1>1, <1>9 DEF Command, TaskStates
  <2> QED
    BY <1>9, <2>1 DEF Command, Available
<1>10. ASSUME NEW t \in Tasks, Step(t) PROVE Available'
  <2>1. task'["client"].at = "connected" <=> task["client"].at = "connected"
    <3>1. CASE t = "client"
      <4>1. task["client"].at \in {"announce", "render", "publish"}
        BY <1>10, <3>1 DEF Step, Announce, Render, Publish
      <4>2. task'["client"].at \in {"render", "publish", "rest"}
        BY <1>1, <1>10, <3>1 DEF Step, Announce, Render, Publish, Resting, TaskStates
      <4> QED
        BY <4>1, <4>2
    <3>2. CASE t # "client"
      <4>1. task'["client"] = task["client"]
        BY <1>1, <1>10, <3>2 DEF Step, Announce, Render, Publish
      <4> QED
        BY <4>1
    <3> QED
      BY <3>1, <3>2
  <2>2. /\ UNCHANGED <<session, will, s_connected, avail, idle>>
        /\ "online" \in outbox => "online" \in outbox'
    BY <1>10 DEF Step, Announce, Render, Publish
  <2> QED
    BY <2>1, <2>2 DEF Available
<1>11. CASE StateTask
  <2>1. task'["client"] = task["client"]
    BY <1>1, <1>11 DEF StateTask
  <2> QED
    BY <1>11, <2>1 DEF StateTask, Available
<1> QED
  BY <1>2, <1>3, <1>4, <1>5, <1>6, <1>7, <1>8, <1>9, <1>10, <1>11, <1>12
     DEF PublisherNext

\* However late the will of a connection before is published and whatever broke,
\* a connected clock is online at the broker once its messages are delivered, and
\* the broker holds its will.
THEOREM ClockIsOnline == PublisherSpec => []OnlineOnceDelivered
<1>1. PublisherInit => Available
  BY DEF PublisherInit, Available, Resting, Tasks
<1>2. Available => OnlineOnceDelivered
  BY DEF Available, OnlineOnceDelivered
<1> QED
  BY <1>1, <1>2, AvailableStep, PublisherTypes, PublisherRuns, PTL

===============================================================================
