------------------------------ MODULE Publisher ------------------------------
(***************************************************************************)
(* What the broker, and Home Assistant behind it, knows of the clock       *)
(* (components/mqttctrl): its availability, the sensors announced to it    *)
(* and the state document.  Two tasks publish: the MQTT client's, on       *)
(* connecting and on commands, and mqtt_state, on changes and regularly.   *)
(*                                                                         *)
(* The connection may break, be ended by mqttctrl_reconnect, which leaves  *)
(* the client idle if no broker is configured any more, or end in a        *)
(* restart of the clock.  The document is sent at QoS 0, is not retained   *)
(* and is lost with the connection; the rest is retained, is sent at QoS 1 *)
(* and waits in the client's outbox for the next one.  A broker that finds *)
(* a connection gone, or taken over by a new one, publishes the will.      *)
(***************************************************************************)
EXTENDS Naturals, FiniteSets

CONSTANTS
  Roms,                              \* the DS18B20s there are
  MaxVersion, MaxScans, MaxBreaks    \* bounds on what happens to the clock

ASSUME PublisherConstants ==
  /\ IsFiniteSet(Roms) /\ "online" \notin Roms
  /\ {MaxVersion, MaxScans, MaxBreaks} \subseteq Nat

VARIABLES
  settings,    \* settings_version, which stands for the settings
  other,       \* all else the document tells: its changes raise no version
  roms,        \* the sensors of the last scan
  scan_gen,    \* temps_scan_generation
  s_connected,
  outbox,      \* what the client has yet to deliver at QoS 1
  task,        \* task[t]: what t does next, and the document it has rendered
  last,        \* mqtt_state: the version and the scan it published, and whether
               \* STATE_PERIOD_MS have passed since
  session,     \* the connection exists
  will,        \* the broker will publish the will when it ends
  avail,       \* at the broker: the availability
  known,       \*   the sensors announced
  doc,         \*   the state document it was last sent, which it does not retain
  idle,        \* no broker is configured, and the client does not run
  breaks       \* how often the connection broke

clock == <<settings, other, roms, scan_gen>>
client == <<s_connected, outbox, task, last>>
broker == <<session, will, avail, known, doc>>
link == <<idle, breaks>>
publisherVars == <<clock, client, broker, link>>

Tasks == {"client", "mqtt_state"}
Document == [settings |-> settings, other |-> other, roms |-> roms]
NoDocument == [settings |-> 0, other |-> 0, roms |-> {}]
Resting == [at |-> "rest", doc |-> NoDocument]

\* state_task's variables as it starts; and with the first scan taken for seen.
FreshAhead == [version |-> settings, scan |-> scan_gen + 1, due |-> TRUE]
Fresh == [version |-> settings, scan |-> scan_gen, due |-> TRUE]

PublisherInit ==
  /\ settings = 0 /\ other = 0 /\ roms = {} /\ scan_gen = 0
  /\ s_connected = FALSE
  /\ outbox = {}
  /\ task = [t \in Tasks |-> Resting]
  /\ last = Fresh
  /\ session = FALSE /\ will = FALSE
  /\ avail = "none" /\ known = {} /\ doc = NoDocument
  /\ breaks = 0
  /\ idle \in BOOLEAN

-----------------------------------------------------------------------------
(* The rest of the clock. *)

\* settings_set, from any task.
Change ==
  /\ settings < MaxVersion
  /\ settings' = settings + 1
  /\ UNCHANGED <<other, roms, scan_gen, client, broker, link>>

\* A temperature, the alarm's state, night mode and the like.
OtherChange ==
  /\ other < MaxVersion
  /\ other' = other + 1
  /\ UNCHANGED <<settings, roms, scan_gen, client, broker, link>>

\* The end of scan_bus: a set other than the last is a new generation.
ScanBus(found) ==
  /\ scan_gen < MaxScans
  /\ found # roms
  /\ roms' = found
  /\ scan_gen' = scan_gen + 1
  /\ UNCHANGED <<settings, other, client, broker, link>>

-----------------------------------------------------------------------------
(* The connection. *)

\* The end of a connection of which the client learns later.
Break ==
  /\ session /\ breaks < MaxBreaks
  /\ session' = FALSE
  /\ breaks' = breaks + 1
  /\ UNCHANGED <<clock, client, will, avail, known, doc, idle>>

\* mqttctrl_reconnect of a client that runs: a proper end, which cancels the will.
Reconnect ==
  /\ session /\ breaks < MaxBreaks
  /\ session' = FALSE /\ will' = FALSE
  /\ breaks' = breaks + 1
  /\ UNCHANGED <<clock, client, avail, known, doc, idle>>

\* mqttctrl_reconnect without a broker stops the client, which has handled its events
\* by then and may lose what it has yet to deliver; and notes it.
ClearBroker ==
  /\ ~idle /\ breaks < MaxBreaks
  /\ task["client"].at = "rest"
  /\ idle' = TRUE
  /\ session' = FALSE /\ will' = (will /\ ~session)
  /\ outbox' \in {outbox, {}}
  /\ breaks' = breaks + 1
  /\ UNCHANGED <<clock, s_connected, task, last, avail, known, doc>>

Stopped ==
  /\ idle /\ s_connected
  /\ s_connected' = FALSE
  /\ UNCHANGED <<clock, outbox, task, last, broker, link>>

\* mqttctrl_reconnect with a broker again: the client starts.
SetBroker ==
  /\ idle /\ ~s_connected
  /\ idle' = FALSE
  /\ UNCHANGED <<clock, client, broker, breaks>>

\* The clock restarts: mqttctrl_start with nothing sent and no sensor found, and with a
\* broker or none, as the last form has left it in flash.
Restart ==
  /\ breaks < MaxBreaks
  /\ breaks' = breaks + 1
  /\ session' = FALSE
  /\ s_connected' = FALSE
  /\ outbox' = {}
  /\ task' = [t \in Tasks |-> Resting]
  /\ last' = Fresh
  /\ roms' = {}
  /\ idle' \in BOOLEAN
  /\ UNCHANGED <<settings, other, scan_gen, will, avail, known, doc>>

\* The broker misses the client.
Will ==
  /\ will /\ ~session
  /\ will' = FALSE /\ avail' = "offline"
  /\ UNCHANGED <<clock, client, session, known, doc, link>>

\* The client connects, to a broker that first ends what it has of it.
Connect ==
  /\ ~idle /\ ~session /\ ~s_connected
  /\ task["client"].at = "rest"
  /\ session' = TRUE
  /\ will' = TRUE
  /\ avail' = IF will THEN "offline" ELSE avail
  /\ task' = [task EXCEPT !["client"].at = "connected"]
  /\ UNCHANGED <<clock, s_connected, outbox, last, known, doc, link>>

\* The outbox reaches the broker, a message at a time.
Deliver(m) ==
  /\ session /\ m \in outbox
  /\ outbox' = outbox \ {m}
  /\ IF m = "online" THEN avail' = m /\ UNCHANGED known
                     ELSE known' = known \cup {m} /\ UNCHANGED avail
  /\ UNCHANGED <<clock, s_connected, task, last, session, will, doc, link>>

-----------------------------------------------------------------------------
(* The client's events. *)

\* MQTT_EVENT_CONNECTED, up to publish_discovery, whose entities are the same at every
\* connection and travel like those of the sensors: they are left out.
Connected ==
  /\ task["client"].at = "connected"
  /\ s_connected' = TRUE
  /\ outbox' = outbox \cup {"online"}
  /\ task' = [task EXCEPT !["client"].at = "announce"]
  /\ UNCHANGED <<clock, last, broker, link>>

\* MQTT_EVENT_DISCONNECTED.
Disconnected ==
  /\ task["client"].at = "rest" /\ ~idle /\ ~session /\ s_connected
  /\ s_connected' = FALSE
  /\ UNCHANGED <<clock, outbox, task, last, broker, link>>

\* handle_command: a settings key, or a temperature or an alarm command, each
\* followed by publish_state.
Command(key) ==
  /\ session /\ task["client"].at = "rest" /\ s_connected
  /\ IF key THEN settings < MaxVersion /\ settings' = settings + 1 /\ UNCHANGED other
            ELSE other < MaxVersion /\ other' = other + 1 /\ UNCHANGED settings
  /\ task' = [task EXCEPT !["client"].at = "render"]
  /\ UNCHANGED <<roms, scan_gen, s_connected, outbox, last, broker, link>>

-----------------------------------------------------------------------------
(* What both tasks do. *)

\* publish_ds_discovery.
Announce(t) ==
  /\ task[t].at = "announce"
  /\ outbox' = outbox \cup roms
  /\ task' = [task EXCEPT ![t].at = "render"]
  /\ UNCHANGED <<clock, s_connected, last, broker, link>>

\* Render, with the scan noted only now.
RenderNotingScan(t) ==
  /\ task[t].at = "render"
  /\ task' = [task EXCEPT ![t] =
                IF s_connected THEN [at |-> "publish", doc |-> Document] ELSE Resting]
  /\ last' = [last EXCEPT !.scan = scan_gen]
  /\ UNCHANGED <<clock, s_connected, outbox, broker, link>>

\* publish_state gathers the document, which it does only while connected.
Render(t) ==
  /\ task[t].at = "render"
  /\ task' = [task EXCEPT ![t] =
                IF s_connected THEN [at |-> "publish", doc |-> Document] ELSE Resting]
  /\ UNCHANGED <<clock, s_connected, outbox, last, broker, link>>

Publish(t) ==
  /\ task[t].at = "publish"
  /\ doc' = IF session THEN task[t].doc ELSE doc
  /\ task' = [task EXCEPT ![t] = Resting]
  /\ UNCHANGED <<clock, s_connected, outbox, last, session, will, avail, known, link>>

-----------------------------------------------------------------------------
(* mqtt_state. *)

PeriodPasses ==
  /\ last' = [last EXCEPT !.due = TRUE]
  /\ UNCHANGED <<clock, s_connected, outbox, task, broker, link>>

\* Whether state_task publishes, and whether without the regular documents.
NewsOnly == settings # last.version \/ scan_gen # last.scan
News == settings # last.version \/ scan_gen # last.scan \/ last.due

\* state_task: version and scan count as published before they are.
StateTask ==
  /\ task["mqtt_state"].at = "rest" /\ s_connected
  /\ News
  /\ last' = [version |-> settings, scan |-> scan_gen, due |-> FALSE]
  /\ task' = [task EXCEPT !["mqtt_state"].at =
                IF scan_gen # last.scan THEN "announce" ELSE "render"]
  /\ UNCHANGED <<clock, s_connected, outbox, broker, link>>

-----------------------------------------------------------------------------

Step(t) == Announce(t) \/ Render(t) \/ Publish(t)

PublisherNext ==
  \/ Change \/ OtherChange \/ \E found \in SUBSET Roms : ScanBus(found)
  \/ Break \/ Reconnect \/ ClearBroker \/ Stopped \/ SetBroker \/ Restart \/ Will \/ Connect
  \/ \E m \in Roms \cup {"online"} : Deliver(m)
  \/ Connected \/ Disconnected \/ \E key \in BOOLEAN : Command(key)
  \/ \E t \in Tasks : Step(t)
  \/ PeriodPasses \/ StateTask

\* The tasks run, the client reconnects and delivers, and time passes.
PublisherSpec ==
  /\ PublisherInit /\ [][PublisherNext]_publisherVars
  /\ WF_publisherVars(Connect) /\ WF_publisherVars(Connected \/ Disconnected)
  /\ WF_publisherVars(Stopped)
  /\ \A m \in Roms \cup {"online"} : WF_publisherVars(Deliver(m))
  /\ \A t \in Tasks : WF_publisherVars(Step(t))
  /\ WF_publisherVars(PeriodPasses) /\ WF_publisherVars(StateTask)

-----------------------------------------------------------------------------
(* Properties. *)

Documents == [settings : 0 .. MaxVersion, other : 0 .. MaxVersion, roms : SUBSET Roms]

\* The variables range over the values the code can give them.
PublisherTypeOK ==
  /\ settings \in 0 .. MaxVersion /\ other \in 0 .. MaxVersion
  /\ roms \subseteq Roms
  /\ scan_gen \in 0 .. MaxScans
  /\ s_connected \in BOOLEAN
  /\ outbox \subseteq Roms \cup {"online"}
  /\ task \in [Tasks -> [at : {"rest", "connected", "announce", "render", "publish"},
                         doc : Documents]]
  /\ last \in [version : 0 .. MaxVersion, scan : 0 .. MaxScans, due : BOOLEAN]
  /\ session \in BOOLEAN /\ will \in BOOLEAN
  /\ avail \in {"none", "offline", "online"}
  /\ known \subseteq Roms
  /\ doc \in Documents
  /\ idle \in BOOLEAN
  /\ breaks \in 0 .. MaxBreaks

\* Once mqtt_state has taken note of a scan and both tasks rest, every sensor of it
\* has been announced to the broker or is about to be, whatever broke or was found
\* while the tasks were at it (publish_ds_discovery, state_task).
NoneUnannounced ==
  /\ s_connected /\ ~idle /\ last.scan = scan_gen
  /\ \A t \in Tasks : task[t].at = "rest"
  => roms \subseteq known \cup outbox

\* When nothing breaks or changes any more, the broker of a clock that has one ends up
\* with the clock online, its sensors announced and the document that is true, although
\* documents are lost and an older one may overtake a newer; a clock without a broker
\* knows that it is not connected (publish_state, state_task, mqttctrl_reconnect).
BrokerSettles ==
  <>[](IF idle THEN ~s_connected
       ELSE avail = "online" /\ roms \subseteq known /\ doc = Document)

==============================================================================
