------------------------------- MODULE MCSensors -------------------------------
(* Two DS18B20s of which the tables hold one, and two Shellies. *)
EXTENDS Sensors, TLC

Symmetry == Permutations(Roms) \cup Permutations(Macs)
==============================================================================
