------------------------------ MODULE MCAlarmBuzzer ------------------------------
(* The main loop and one worker; a melody of a note and a pause. *)
EXTENDS AlarmBuzzer
===============================================================================
