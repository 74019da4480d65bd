----------------------------- MODULE AlarmPromise -----------------------------
(***************************************************************************)
(* What the alarm promises its owner, without clocks, guards or tasks: it  *)
(* starts to sound for an occurrence it has not just sounded for, and from *)
(* then on it only pauses, resumes or falls quiet.                         *)
(***************************************************************************)
CONSTANTS Occurrences, None

VARIABLES phase, last

Phases == {"quiet", "sounding", "paused"}

Init == phase = "quiet" /\ last = None

Sound(o) ==
  /\ phase = "quiet"
  /\ o # last
  /\ phase' = "sounding"
  /\ last' = o

Pause == phase = "sounding" /\ phase' = "paused" /\ UNCHANGED last

Resume == phase = "paused" /\ phase' = "sounding" /\ UNCHANGED last

Quiet == phase # "quiet" /\ phase' = "quiet" /\ UNCHANGED last

Next == Pause \/ Resume \/ Quiet \/ \E o \in Occurrences : Sound(o)

Spec == Init /\ [][Next]_<<phase, last>>

===============================================================================
