-------------------------------- MODULE MCScrub --------------------------------
(* A minute of five seconds, two frames each; interludes that leave one gap, *)
(* two gaps, one too short for a run, one that wraps the minute, or no gap.  *)
EXTENDS Scrub

Window(start, len) == [start |-> start, len |-> len]
Gaps ==
  {{Window(3, 1)}, {Window(0, 1), Window(2, 1)}, {Window(4, 3)}, {Window(0, 5)}}

MCScheds ==
  [pause : {TRUE}, duration : {2, 4}, period : {4}, windows : Gaps]
    \cup [pause : {FALSE}, duration : {2}, period : {0, 4}, windows : {{Window(4, 1)}}]
===============================================================================
