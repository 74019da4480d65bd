-------------------------------- MODULE MCPanel --------------------------------
(* A frame leaves none of the buttons' tubes dark, or all of them. *)
EXTENDS Panel

MCDarkSets == {{}, Buttons \ {Snooze}}
===============================================================================
