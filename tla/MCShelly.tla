------------------------------- MODULE MCShelly -------------------------------
(* Three senders that are right, one of which is heard late, one that is wrong, *)
(* and a slot too few for all; the day is shortened to three units.             *)
EXTENDS Shelly

MCError == [m \in Senders |-> IF m = "wrong" THEN 7 ELSE 0]
MCLate == [m \in Senders |-> IF m = "a" THEN 3 ELSE 0]
==============================================================================
