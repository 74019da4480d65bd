-------------------------------- MODULE Network --------------------------------
(***************************************************************************)
(* The network settings (components/netcfg) and those who use them: the    *)
(* boot gate and the portal (components/provision), the network form and   *)
(* the broker test of the web interface, the factory reset, and the two    *)
(* readers, netclock_start and the MQTT client.                            *)
(*                                                                         *)
(* Every field is a key of its own in flash.  A form is stored key by key  *)
(* and the first key that cannot be written ends its group; the power may  *)
(* fail between any two keys.  A clock on which no SSID was ever stored    *)
(* uses the values compiled in from secrets.h.                             *)
(*                                                                         *)
(* The port belongs to the host here.  An absent key and an empty one read *)
(* the same (load_str, netcfg_is_provisioned), and are both "".            *)
(***************************************************************************)
EXTENDS Naturals

CONSTANTS
  Text,      \* what can be typed into a field
  Secrets,   \* the values compiled in from secrets.h
  Forms      \* the submissions considered: a text or nothing for every field

WifiKeys == {"ssid", "wpass"}
MqttKeys == {"host", "user", "mpass"}
Keys == WifiKeys \cup MqttKeys
Order == <<"ssid", "wpass", "host", "user", "mpass">>
Values == Text \cup {""}

Leave == "(leave)"   \* the NULL with which put() leaves a key as it is

ASSUME NetworkConstants ==
  /\ {"", Leave} \cap Text = {}
  /\ Secrets \in [Keys -> Values]
  /\ Forms \subseteq [Keys -> Values]

VARIABLES
  mode,      \* "off" until the boot gate has decided, then "clock" or "portal"
  nvs,       \* the keys in flash
  provreq,   \* the one-shot key that asks for the portal
  conf,      \* what this boot uses: read by netclock_start and build_cfg
  web,       \* the form being stored: its next key, its values, no failure yet
  reset,     \* the factory reset: "no", "erased", "flagged"
  asked,     \* history: the settings the owner believes the clock to have
  whole,     \* history: no submission was left stored in part
  borrowed   \* history: a submission relied on secrets.h

vars == <<mode, nvs, provreq, conf, web, reset, asked, whole, borrowed>>

Provisioned == nvs["ssid"] # ""

\* netcfg_get with every field falling back on its own.
EffectivePerField == [k \in Keys |-> IF nvs[k] # "" THEN nvs[k] ELSE Secrets[k]]

\* netcfg_get: once an SSID is stored the compiled-in values are forgotten.
Effective ==
  [k \in Keys |-> IF nvs[k] # "" THEN nvs[k]
                  ELSE IF Provisioned THEN "" ELSE Secrets[k]]

Nothing == [k \in Keys |-> ""]
NoForm == [at |-> 0, puts |-> [k \in Keys |-> Leave], ok |-> TRUE]
Storing == web.at # 0

\* A submission relies on secrets.h: by a field left as it was in the form that
\* stores the first SSID, or by an empty one while none is stored.
Borrows(puts) ==
  \E k \in Keys :
    \/ puts["ssid"] # Leave /\ puts[k] = Leave /\ nvs[k] = "" /\ Effective[k] # ""
    \/ puts["ssid"] = Leave /\ puts[k] = "" /\ ~Provisioned /\ Secrets[k] # ""

\* What a submission asks for.
Ask(puts) ==
  /\ asked' = [k \in Keys |-> IF puts[k] = Leave THEN asked[k] ELSE puts[k]]
  /\ borrowed' = (borrowed \/ Borrows(puts))

Start(puts) ==
  /\ ~Storing
  /\ web' = [at |-> 1, puts |-> puts, ok |-> TRUE]
  /\ Ask(puts)

Init ==
  /\ mode = "off"
  /\ nvs = Nothing
  /\ provreq = FALSE
  /\ conf = Nothing
  /\ web = NoForm
  /\ reset = "no"
  /\ asked = Secrets
  /\ whole = TRUE
  /\ borrowed = FALSE

-----------------------------------------------------------------------------
(* Power and boot. *)

\* RAM and the tasks are gone; a form of which a key is outstanding is torn.
Down ==
  /\ mode' = "off"
  /\ conf' = Nothing
  /\ web' = NoForm
  /\ reset' = "no"

PowerLoss ==
  /\ mode # "off"
  /\ Down
  /\ whole' = (whole /\ web.at \in {0, 6})
  /\ UNCHANGED <<nvs, provreq, asked, borrowed>>

\* provision_run: the portal, from which only a restart leads away.
OpenPortal == mode' = "portal" /\ conf' = Nothing

\* netclock_start, and mqttctrl_start after it, with what the flash says now.
JoinNetwork == mode' = "clock" /\ conf' = Effective

\* provision_requested: the flag, which flag_take clears unless flash fails it,
\* or no network to try, or the provision button held through the boot window.
Boot(held, opened, cleared) ==
  LET taken == provreq /\ opened
      portal == taken \/ Effective["ssid"] = "" \/ held
  IN  /\ mode = "off"
      /\ provreq' = (provreq /\ ~(taken /\ cleared))
      /\ IF portal THEN OpenPortal ELSE JoinNetwork
      /\ UNCHANGED <<nvs, web, reset, asked, whole, borrowed>>

\* The provision button held while the clock runs: provision_request_reboot,
\* which restarts although the flag could not be stored.
RequestPortal(stored) ==
  /\ mode = "clock" /\ reset = "no"
  /\ provreq' = (provreq \/ stored)
  /\ Down
  /\ whole' = (whole /\ web.at \in {0, 6})
  /\ UNCHANGED <<nvs, asked, borrowed>>

-----------------------------------------------------------------------------
(* Forms. *)

\* save_post of the portal: an empty host leaves the three MQTT keys alone.
PortalPuts(form) ==
  [k \in Keys |-> IF k \in MqttKeys /\ form["host"] = "" THEN Leave ELSE form[k]]

\* netset_post: every empty field but the user leaves its key alone, and without
\* an SSID the password is not looked at.
NetPuts(form) ==
  [k \in Keys |-> IF \/ k # "user" /\ form[k] = ""
                     \/ k = "wpass" /\ form["ssid"] = ""
                  THEN Leave ELSE form[k]]

PortalSave(form) ==
  /\ mode = "portal"
  /\ form["ssid"] # ""
  /\ Start(PortalPuts(form))
  /\ UNCHANGED <<mode, nvs, provreq, conf, reset, whole>>

NetSave(form) ==
  /\ mode = "clock"
  /\ Start(NetPuts(form))
  /\ UNCHANGED <<mode, nvs, provreq, conf, reset, whole>>

\* GroupEnd, and a key further.
GroupEndBeyond == IF web.at <= 2 THEN 3 ELSE 7

\* Where netcfg_set_wifi and netcfg_set_mqtt end when one of their keys fails.
GroupEnd == IF web.at <= 2 THEN 3 ELSE 6

PutKey ==
  /\ web.at \in 1 .. 5
  /\ LET k == Order[web.at]
     IN  \/ /\ web.puts[k] = Leave
            /\ web' = [web EXCEPT !.at = web.at + 1]
            /\ UNCHANGED <<nvs, whole>>
         \/ /\ web.puts[k] # Leave
            /\ reset # "erased"
            /\ nvs' = [nvs EXCEPT ![k] = web.puts[k]]
            /\ web' = [web EXCEPT !.at = web.at + 1]
            /\ UNCHANGED whole
         \/ /\ web.puts[k] # Leave
            /\ web' = [web EXCEPT !.at = GroupEnd, !.ok = FALSE]
            /\ whole' = FALSE
            /\ UNCHANGED nvs
  /\ UNCHANGED <<mode, provreq, conf, reset, asked, borrowed>>

\* A form that stored every key mends what earlier ones left.
Mended == web.ok /\ \A k \in Keys : web.puts[k] # Leave

Mend ==
  /\ whole' = (whole \/ Mended)
  /\ borrowed' = (borrowed /\ ~Mended)

\* UseMqtt with the credentials of before.
UseHost == conf' = [conf EXCEPT !["host"] = Effective["host"]]

\* mqttctrl_reconnect reads the configuration again, of which WiFi takes no note.
UseMqtt == conf' = [k \in Keys |-> IF k \in MqttKeys THEN Effective[k] ELSE conf[k]]

NetSaved ==
  /\ mode = "clock" /\ web.at = 6
  /\ UseMqtt
  /\ web' = NoForm
  /\ Mend
  /\ UNCHANGED <<mode, nvs, provreq, reset, asked>>

\* The portal restarts whether the keys were stored or not.
PortalSaved ==
  /\ mode = "portal" /\ web.at = 6
  /\ Down
  /\ Mend
  /\ UNCHANGED <<nvs, provreq, asked>>

\* The web action mqtt_test, on the task that also stores the forms.
MqttTest ==
  /\ mode = "clock" /\ ~Storing
  /\ UseMqtt
  /\ UNCHANGED <<mode, nvs, provreq, web, reset, asked, whole, borrowed>>

-----------------------------------------------------------------------------
(* netcfg_factory_reset, on the main, the MQTT or the httpd task. *)

\* nvs_flash_erase.  The handle of a form that is half stored is dead.
Erase ==
  /\ mode = "clock" /\ reset = "no"
  /\ reset' = "erased"
  /\ nvs' = Nothing
  /\ provreq' = FALSE
  /\ web' = [web EXCEPT !.at = IF web.at \in {2, 4, 5} THEN GroupEnd ELSE web.at,
                         !.ok = ~Storing]
  /\ asked' = Secrets
  /\ whole' = (web.at \in {0, 6})
  /\ borrowed' = FALSE
  /\ UNCHANGED <<mode, conf>>

\* nvs_flash_init, nvs_open and nvs_set_u8, any of which may fail unnoticed.
Flag(stored) ==
  /\ reset = "erased"
  /\ reset' = "flagged"
  /\ provreq' = stored
  /\ UNCHANGED <<mode, nvs, conf, web, asked, whole, borrowed>>

\* The restart 300 ms later.
Restart ==
  /\ reset = "flagged"
  /\ Down
  /\ whole' = (whole /\ web.at \in {0, 6})
  /\ UNCHANGED <<nvs, provreq, asked, borrowed>>

-----------------------------------------------------------------------------

Next ==
  \/ PowerLoss
  \/ \E held, opened, cleared \in BOOLEAN : Boot(held, opened, cleared)
  \/ \E stored \in BOOLEAN : RequestPortal(stored) \/ Flag(stored)
  \/ \E form \in Forms : PortalSave(form) \/ NetSave(form)
  \/ PutKey \/ NetSaved \/ PortalSaved \/ MqttTest
  \/ Erase \/ Restart

Spec == Init /\ [][Next]_vars

-----------------------------------------------------------------------------
(* Properties. *)

\* The variables range over the values the code can give them.
TypeOK ==
  /\ mode \in {"off", "clock", "portal"}
  /\ nvs \in [Keys -> Values]
  /\ provreq \in BOOLEAN
  /\ conf \in [Keys -> Values]
  /\ web \in [at : 0 .. 6, puts : [Keys -> Values \cup {Leave}], ok : BOOLEAN]
  /\ reset \in {"no", "erased", "flagged"}
  /\ asked \in [Keys -> Values]
  /\ whole \in BOOLEAN
  /\ borrowed \in BOOLEAN

\* Whatever was saved, from the portal or the form, with blank fields or without,
\* and whatever was reset, the next boot finds exactly the network and the broker
\* last asked for, unless a form was stored in part and no complete one since, or
\* a blank field relied on a value of secrets.h (netcfg_get, netset_post,
\* save_post, netcfg_factory_reset).
StoredAsAsked == ~Storing /\ whole /\ ~borrowed => Effective = asked

\* Between forms the MQTT client of a running clock is configured with what
\* the flash says, although the form may have failed half-way, for as long as the
\* flash was not erased under it (netset_post, mqttctrl_reconnect).
ClientIsCurrent ==
  mode = "clock" /\ ~Storing /\ reset = "no" =>
    \A k \in MqttKeys : conf[k] = Effective[k]

==============================================================================
