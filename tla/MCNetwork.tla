------------------------------- MODULE MCNetwork -------------------------------
(* A clock with compiled-in credentials, a second network, and five forms: all *)
(* fields, WiFi only with and without its password, MQTT only, and a new user. *)
EXTENDS Network

Form(ssid, wpass, host, user, mpass) ==
  [k \in Keys |-> CASE k = "ssid" -> ssid [] k = "wpass" -> wpass [] k = "host" -> host
                    [] k = "user" -> user [] k = "mpass" -> mpass]

MCSecrets == Form("home", "home", "home", "home", "home")
MCForms == { Form("cabin", "cabin", "cabin", "cabin", "cabin"),
             Form("home", "", "", "", ""),
             Form("cabin", "cabin", "", "", ""),
             Form("", "", "cabin", "", "cabin"),
             Form("home", "", "cabin", "home", "") }
==============================================================================
