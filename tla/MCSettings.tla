------------------------------ MODULE MCSettings ------------------------------
(* Two surfaces and the buttons over a record of one old and one new field. *)
EXTENDS Settings

MCWriters == {"httpd", "mqtt", "main"}
MCKeys == {"brightness", "ap_step_ms"}
MCDefault == [k \in MCKeys |-> 0]
MCBump(v) == 1 - v
===============================================================================
