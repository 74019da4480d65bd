-------------------------------- MODULE MCAlarm --------------------------------
(* Three days of four minutes; alarms around midnight, daily and on one day. *)
EXTENDS Alarm

MCConfigs ==
  [enabled : {TRUE}, at : {0, 3}, dow : {{}}, snooze : {0, 1}]
    \cup [enabled : BOOLEAN, at : {3}, dow : {{1}, {}}, snooze : {1}]
===============================================================================
