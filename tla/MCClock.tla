-------------------------------- MODULE MCClock --------------------------------
(* Two zones an hour apart and sources of time that are right or off by two. *)
EXTENDS Clock

MCOffset == [z \in Zones |-> IF z = "UTC" THEN 0 ELSE 1]
==============================================================================
