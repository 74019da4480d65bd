------------------------------ MODULE MCPublisher ------------------------------
(* One sensor that comes and goes, a change of each kind, and two breaks. *)
EXTENDS Publisher
==============================================================================
