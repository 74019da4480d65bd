------------------------------ MODULE ScrubProofs ------------------------------
(***************************************************************************)
(* Proofs about the scrub, for every schedule of the interludes, length of *)
(* the minute and set of brightness levels.                                *)
(***************************************************************************)
EXTENDS Scrub, WellFoundedInduction, TLAPS

\* A run that no ring cut in on has the tubes at its own level, and the main
\* loop knows that it has to push the clock's.
RunOwnsTubes ==
  s_active /\ ~rungOver => tubes = Full /\ last_level = NoLevel /\ drawn = "scrub"

\* Outside a run the tubes show the clock's brightness.
ClockOwnsTubes ==
  ~s_active =>
    /\ tubes \in ClockLevels
    /\ ~rungOver => tubes = last_level \/ last_level = NoLevel
    /\ drawn # "scrub"

IInv == TypeOK /\ RunOwnsTubes /\ ClockOwnsTubes

-----------------------------------------------------------------------------

\* The time of the next frame, and the counters that stop at their limit.
LEMMA NextFrameType ==
  ASSUME TypeOK
  PROVE  Now \in 0 .. Frames - 1 /\ Running \in 0 .. sched.duration
         /\ Rested \in 0 .. sched.period
<1>1. Frames \in Nat \ {0}
  BY ScrubConstants, SMT DEF Frames
<1>2. now + 1 \in Nat
  BY <1>1 DEF TypeOK
<1>3. Now \in 0 .. Frames - 1
  BY <1>1, <1>2, SMT DEF Now
<1>4. sched.duration \in Nat \ {0} /\ sched.period \in Nat
  BY ScrubConstants DEF TypeOK
<1>5. Running \in 0 .. sched.duration /\ Rested \in 0 .. sched.period
  BY <1>4 DEF TypeOK, Running, Rested, Next1
<1> QED BY <1>3, <1>5

\* NoLevel is no level.
LEMMA LevelsAreLevels == NoLevel \notin Levels /\ Levels \subseteq ClockLevels
BY ScrubConstants DEF NoLevel, ClockLevels

LEMMA InitHolds == Init => IInv
<1> SUFFICES ASSUME Init PROVE IInv
  OBVIOUS
<1>1. sched.duration \in Nat /\ sched.period \in Nat
  BY ScrubConstants DEF Init
<1>2. 0 \in 0 .. sched.duration /\ 0 \in 0 .. sched.period
  BY <1>1
<1>3. tubes \in ClockLevels /\ s_saved_level \in ClockLevels
  BY DEF Init, ClockLevels
<1>4. TypeOK
  BY <1>2, <1>3 DEF Init, TypeOK
<1> QED BY <1>3, <1>4 DEF Init, IInv, RunOwnsTubes, ClockOwnsTubes

LEMMA TypeStep == IInv /\ [Next]_vars => TypeOK'
<1> SUFFICES ASSUME IInv, [Next]_vars PROVE TypeOK'
  OBVIOUS
<1>0. TypeOK /\ ClockOwnsTubes
  BY DEF IInv
<1> USE <1>0 DEF TypeOK
<1>1. CASE ScrubFrame
  <2>1. now' \in 0 .. Frames - 1 /\ rested' \in 0 .. sched.period
        /\ UNCHANGED <<sched, valid, ringing, level>>
    BY <1>1, NextFrameType DEF ScrubFrame, Passes
  <2>2. running' \in 0 .. sched.duration
    <3>1. sched.duration \in Nat
      BY ScrubConstants
    <3> QED BY <1>1, <3>1, NextFrameType DEF ScrubFrame, Elapsed
  <2>3. s_saved_level' \in ClockLevels
    BY <1>1 DEF ScrubFrame, Saves, ClockOwnsTubes
  <2>4. /\ tubes' \in ClockLevels \cup {Full} /\ last_level' \in Levels \cup {NoLevel}
        /\ drawn' \in {"scrub", "ring", "clock"} /\ held' \in Nat
    BY <1>1 DEF ScrubFrame, ForgetsNote
  <2>5. /\ s_active' \in BOOLEAN /\ s_waiting' \in BOOLEAN /\ s_trigger_req' \in BOOLEAN
        /\ manual' \in BOOLEAN /\ rungOver' \in BOOLEAN
    BY <1>1 DEF ScrubFrame
  <2> QED BY <2>1, <2>2, <2>3, <2>4, <2>5
<1>2. CASE LastScrubFrame
  <2>1. now' \in 0 .. Frames - 1 /\ running' \in 0 .. sched.duration
    BY <1>2, NextFrameType DEF LastScrubFrame
  <2>2. rested' \in 0 .. sched.period
    BY <1>2, ScrubConstants DEF LastScrubFrame
  <2>3. tubes' \in ClockLevels /\ last_level' \in Levels
    BY <1>2, LevelsAreLevels DEF LastScrubFrame, Push
  <2> QED BY <1>2, <2>1, <2>2, <2>3 DEF LastScrubFrame
<1>3. CASE ClockFrame
  <2>1. now' \in 0 .. Frames - 1 /\ rested' \in 0 .. sched.period
        /\ UNCHANGED <<sched, valid, ringing, level>>
    BY <1>3, NextFrameType DEF ClockFrame, Passes
  <2>2. tubes' \in ClockLevels \cup {Full} /\ last_level' \in Levels
    BY <1>3, LevelsAreLevels DEF ClockFrame, Push
  <2>3. held' \in Nat
    BY <1>3 DEF ClockFrame
  <2>4. s_waiting' \in BOOLEAN
    BY <1>3 DEF ClockFrame
  <2> QED BY <1>3, <2>1, <2>2, <2>3, <2>4 DEF ClockFrame
<1>4. CASE OtherFrame
  <2>1. now' \in 0 .. Frames - 1 /\ rested' \in 0 .. sched.period
        /\ running' \in 0 .. sched.duration
        /\ UNCHANGED <<sched, valid, ringing, level>>
    BY <1>4, NextFrameType DEF OtherFrame, Passes
  <2>2. tubes' \in ClockLevels \cup {Full} /\ last_level' \in Levels
    BY <1>4, LevelsAreLevels DEF OtherFrame, Push
  <2>3. rungOver' \in BOOLEAN
    BY <1>4 DEF OtherFrame
  <2> QED BY <1>4, <2>1, <2>2, <2>3 DEF OtherFrame
<1>5. CASE Trigger
  BY <1>5 DEF Trigger, scrub, history
<1>6. CASE RingChanges
  BY <1>6 DEF RingChanges, scrub, history
<1>7. ASSUME NEW l \in Levels, LevelChanges(l) PROVE TypeOK'
  BY <1>7 DEF LevelChanges, scrub, history
<1>8. CASE TimeIsSet
  BY <1>8 DEF TimeIsSet, scrub, history
<1>9. CASE UNCHANGED vars
  BY <1>9 DEF vars, scrub, history
<1> QED
  BY <1>1, <1>2, <1>3, <1>4, <1>5, <1>6, <1>7, <1>8, <1>9 DEF Next, Frame

LEMMA OwnerStep == IInv /\ [Next]_vars => (RunOwnsTubes /\ ClockOwnsTubes)'
<1> SUFFICES ASSUME IInv, [Next]_vars PROVE (RunOwnsTubes /\ ClockOwnsTubes)'
  OBVIOUS
<1>0. TypeOK /\ RunOwnsTubes /\ ClockOwnsTubes
  BY DEF IInv
<1> USE <1>0 DEF RunOwnsTubes, ClockOwnsTubes
<1>1. CASE ScrubFrame
  BY <1>1 DEF ScrubFrame, ForgetsNote, TypeOK
<1>2. CASE LastScrubFrame
  <2>1. ~rungOver => level # last_level
    BY <1>2, LevelsAreLevels DEF LastScrubFrame, TypeOK
  <2>2. tubes' \in ClockLevels /\ (~rungOver => tubes' = last_level')
    BY <1>2, <2>1, LevelsAreLevels DEF LastScrubFrame, Push, TypeOK
  <2> QED BY <1>2, <2>2 DEF LastScrubFrame
<1>3. CASE ClockFrame
  <2>1. tubes' \in ClockLevels
    BY <1>3, LevelsAreLevels DEF ClockFrame, Push, TypeOK
  <2>2. ~rungOver => tubes' = last_level'
    BY <1>3, LevelsAreLevels DEF ClockFrame, Push, TypeOK
  <2> QED BY <1>3, <2>1, <2>2 DEF ClockFrame
<1>4. CASE OtherFrame
  <2>1. ~s_active => tubes' \in ClockLevels
    BY <1>4, LevelsAreLevels DEF OtherFrame, Push, TypeOK
  <2>2. ~s_active /\ ~rungOver => tubes' = last_level'
    BY <1>4, LevelsAreLevels DEF OtherFrame, Push, TypeOK
  <2> QED BY <1>4, <2>1, <2>2 DEF OtherFrame, TypeOK
<1>5. CASE Trigger
  BY <1>5 DEF Trigger, scrub, history
<1>6. CASE RingChanges
  BY <1>6 DEF RingChanges, scrub, history
<1>7. ASSUME NEW l \in Levels, LevelChanges(l)
      PROVE  (RunOwnsTubes /\ ClockOwnsTubes)'
  BY <1>7 DEF LevelChanges, scrub, history
<1>8. CASE TimeIsSet
  BY <1>8 DEF TimeIsSet, scrub, history
<1>9. CASE UNCHANGED vars
  BY <1>9 DEF vars, scrub, history
<1> QED
  BY <1>1, <1>2, <1>3, <1>4, <1>5, <1>6, <1>7, <1>8, <1>9 DEF Next, Frame

\* Tubes and main loop agree on who owns the brightness.
THEOREM Invariance == Spec => []IInv
<1>1. IInv /\ [Next]_vars => IInv'
  BY TypeStep, OwnerStep DEF IInv
<1> QED BY <1>1, InitHolds, PTL DEF Spec

\* Every variable keeps its range; what a run saves is never its own level.
THEOREM TypeCorrect == Spec => []TypeOK
<1>1. IInv => TypeOK
  BY DEF IInv
<1> QED BY <1>1, Invariance, PTL

\* Without a ring in between, a run is at full brightness and hands the tubes
\* back at the brightness the clock asks for.
THEOREM BrightnessHandover == Spec => []BrightnessUnlessRungOver
<1>1. IInv => BrightnessUnlessRungOver
  BY DEF IInv, RunOwnsTubes, ClockOwnsTubes, BrightnessUnlessRungOver, TypeOK
<1> QED BY <1>1, Invariance, PTL

-----------------------------------------------------------------------------
(* Seconds and frames. *)

LEMMA Sizes == Seconds \in Nat /\ Seconds > 0 /\ Sub \in Nat /\ Sub > 0
BY ScrubConstants

LEMMA DivMod ==
  ASSUME NEW a \in Nat, NEW b \in Nat, b > 0
  PROVE  a \div b \in Nat /\ a % b \in 0 .. b - 1 /\ a = (b * (a \div b)) + (a % b)
BY SMT

LEMMA DivUnique ==
  ASSUME NEW q \in Nat, NEW b \in Nat, b > 0, NEW r \in 0 .. b - 1
  PROVE  (b * q + r) \div b = q /\ (b * q + r) % b = r
BY SMT

LEMMA ModAdd ==
  ASSUME NEW a \in Nat, NEW b \in Nat, b > 0, NEW c \in Nat
  PROVE  ((a % b) + c) % b = (a + c) % b
<1> DEFINE q == a \div b  r == a % b  p == (r + c) \div b  t == (r + c) % b
<1>1. q \in Nat /\ r \in 0 .. b - 1 /\ a = (b * q) + r
  BY DivMod
<1>2. p \in Nat /\ t \in 0 .. b - 1 /\ r + c = (b * p) + t
  <2>1. r + c \in Nat
    BY <1>1
  <2> QED
    BY <2>1, DivMod
<1> HIDE DEF q, r, p, t
<1>3. a + c = (b * (q + p)) + t /\ q + p \in Nat
  BY <1>1, <1>2, SMT
<1>4. (b * (q + p) + t) % b = t
  BY <1>2, <1>3, DivUnique
<1>5. (a + c) % b = t
  BY <1>3, <1>4
<1> QED
  BY <1>5 DEF r, t

\* A minute later, or within it, a second is as busy.
LEMMA MinuteLater ==
  ASSUME NEW c, NEW sec \in Nat
  PROVE  /\ Busy(c, Seconds + sec) <=> Busy(c, sec)
         /\ Busy(c, sec % Seconds) <=> Busy(c, sec)
<1>1. (Seconds + sec) % Seconds = sec % Seconds
  <2>1. Seconds % Seconds = 0
    BY Sizes, SMT
  <2>2. ((Seconds % Seconds) + sec) % Seconds = (Seconds + sec) % Seconds
    BY Sizes, ModAdd
  <2> QED
    BY <2>1, <2>2
<1>2. (sec % Seconds) % Seconds = sec % Seconds
  BY Sizes, SMT
<1> QED
  BY <1>1, <1>2 DEF Busy

\* Every nonempty set of naturals has a least element.
NatLess == {ss \in Nat \X Nat : ss[1] < ss[2]}

LEMMA LeastNumber ==
  ASSUME NEW T, T \subseteq Nat, T # {}
  PROVE  \E m \in T : \A n \in T : m <= n
<1>1. IsWellFoundedOn(NatLess, Nat)
  BY NatLessThanWellFounded, Zenon DEF OpToRel, NatLess
<1>2. PICK m \in T : \A n \in T : <<n, m>> \notin NatLess
  BY <1>1, WFMin
<1>3. \A n \in T : n \in Nat /\ m \in Nat /\ ~(n < m)
  BY <1>2 DEF NatLess
<1>4. \A n \in T : m <= n
  BY <1>3
<1> QED
  BY <1>4

LEMMA MinOf ==
  ASSUME NEW T, T \subseteq Nat, T # {}
  PROVE  Min(T) \in T
BY LeastNumber DEF Min

LEMMA MaxOf ==
  ASSUME NEW bound \in Nat, NEW T, T \subseteq 0 .. bound, T # {}
  PROVE  Max(T) \in T /\ \A n \in T : n <= Max(T)
<1> DEFINE rest == {bound - n : n \in T}
<1>1. rest \subseteq Nat /\ rest # {}
  <2>1. \A n \in T : n \in 0 .. bound /\ bound - n \in Nat
    OBVIOUS
  <2> QED
    BY <2>1
<1>2. PICK m \in rest : \A n \in rest : m <= n
  BY <1>1, LeastNumber
<1>3. PICK n \in T : m = bound - n
  BY <1>2
<1>4. \A k \in T : n >= k
  <2> TAKE k \in T
  <2>1. bound - n <= bound - k
    BY <1>2, <1>3
  <2> QED
    BY <2>1
<1> QED
  BY <1>4 DEF Max

(* scrub_may_start *)

LEMMA BusyMinute ==
  ASSUME NEW c \in Scheds
  PROVE  BusySeconds[c] \subseteq Minute
BY DEF BusySeconds

\* A schedule that leaves some of the minute free, but not all of it, has a free
\* stretch that begins.
LEMMA StartExists ==
  ASSUME NEW c \in Scheds, BusySeconds[c] \notin {{}, Minute}
  PROVE  Starts(c) # {}
<1>1. PICK b \in BusySeconds[c] : TRUE
  OBVIOUS
<1>2. PICK f \in Minute : f \notin BusySeconds[c]
  BY BusyMinute
<1>3. b \in 0 .. Seconds - 1 /\ f \in 0 .. Seconds - 1
  BY <1>1, <1>2, BusyMinute DEF Minute
<1>4. b % Seconds = b /\ f % Seconds = f
  BY <1>3, Sizes, SMT
<1> DEFINE T == {n \in Nat : ~Busy(c, b + n)}
<1>5. T # {}
  <2>1. Seconds + f - b \in Nat /\ b + (Seconds + f - b) = Seconds + f
    BY <1>3, Sizes
  <2>2. ~Busy(c, Seconds + f)
    BY <1>2, <1>3, <1>4, MinuteLater DEF Busy
  <2> QED
    BY <2>1, <2>2
<1>6. PICK m \in T : \A n \in T : m <= n
  BY <1>5, LeastNumber
<1>7. m # 0
  BY <1>1, <1>3, <1>4, <1>6 DEF Busy
<1>8. m - 1 \in Nat /\ ~(m <= m - 1)
  BY <1>6, <1>7
<1>9. Busy(c, b + (m - 1))
  BY <1>6, <1>8
<1> DEFINE s == (b + m) % Seconds
<1>10. s \in Minute
  BY <1>3, <1>6, Sizes, SMT DEF Minute
<1>11. ~Busy(c, s)
  BY <1>3, <1>6, MinuteLater
<1>12. (s + Seconds - 1) % Seconds = (b + (m - 1)) % Seconds
  <2>1. b + m \in Nat /\ Seconds - 1 \in Nat /\ b + (m - 1) \in Nat
    BY <1>3, <1>8, Sizes
  <2>2. (s + (Seconds - 1)) % Seconds = ((b + m) + (Seconds - 1)) % Seconds
    <3> DEFINE x == b + m  y == Seconds - 1
    <3> HIDE DEF x, y
    <3>1. x \in Nat /\ y \in Nat
      BY <2>1 DEF x, y
    <3>2. ((x % Seconds) + y) % Seconds = (x + y) % Seconds
      BY <3>1, Sizes, ModAdd
    <3> QED
      BY <3>2 DEF x, y
  <2>3. ((b + m) + (Seconds - 1)) % Seconds = ((Seconds % Seconds) + (b + (m - 1))) % Seconds
    <3>1. (b + m) + (Seconds - 1) = Seconds + (b + (m - 1))
      BY <1>3, <1>8, Sizes
    <3> DEFINE x == b + (m - 1)
    <3> HIDE DEF x
    <3>2. ((Seconds % Seconds) + x) % Seconds = (Seconds + x) % Seconds
      <4>1. x \in Nat
        BY <2>1 DEF x
      <4> QED
        BY <4>1, Sizes, ModAdd
    <3> QED
      BY <3>1, <3>2 DEF x
  <2>4. Seconds % Seconds = 0
    BY Sizes, SMT
  <2>5. s \in Nat
    BY <1>10, Sizes DEF Minute
  <2> QED
    BY <2>1, <2>2, <2>3, <2>4, <2>5, Sizes
<1>13. Busy(c, s + Seconds - 1)
  BY <1>9, <1>12 DEF Busy
<1> QED
  BY <1>10, <1>11, <1>13 DEF Starts

\* From where a free stretch begins it is free for FreeLen seconds.
LEMMA FreeFor ==
  ASSUME NEW c \in Scheds, NEW sec \in Starts(c)
  PROVE  /\ FreeLen(c, sec) \in 1 .. Seconds
         /\ \A i \in 0 .. FreeLen(c, sec) - 1 : ~Busy(c, sec + i)
<1>1. sec \in 0 .. Seconds - 1 /\ ~Busy(c, sec) /\ Busy(c, sec + Seconds - 1)
  BY DEF Starts, Minute
<1> DEFINE T == {n \in Nat : Busy(c, sec + n)}
<1>2. Seconds - 1 \in T
  <2>1. Seconds - 1 \in Nat /\ sec + (Seconds - 1) = sec + Seconds - 1
    BY <1>1, Sizes
  <2> QED
    BY <1>1, <2>1
<1>3. PICK m \in T : \A n \in T : m <= n
  BY <1>2, LeastNumber
<1>4. m # 0
  <2>1. sec + 0 = sec
    BY <1>1
  <2> QED
    BY <1>1, <1>3, <2>1
<1>5. m \in 1 .. Seconds /\ Busy(c, sec + m)
  BY <1>2, <1>3, <1>4, Sizes
<1>6. \A i \in 0 .. m - 1 : ~Busy(c, sec + i)
  <2> TAKE i \in 0 .. m - 1
  <2>1. i \in Nat /\ ~(m <= i)
    BY <1>3
  <2> QED
    BY <1>3, <2>1
<1> QED
  BY <1>5, <1>6 DEF FreeLen

\* The longest stretch is one of them.
LEMMA LongestStretch ==
  ASSUME NEW c \in Scheds, BusySeconds[c] \notin {{}, Minute}
  PROVE  \E sec \in Starts(c) : FreeLen(c, sec) = BestLen[c]
<1> DEFINE lens == {FreeLen(c, sec) : sec \in Starts(c)}
<1>1. lens \subseteq 1 .. Seconds
  BY FreeFor
<1>2. {0} \cup lens \subseteq 0 .. Seconds
  BY <1>1, Sizes
<1>3. PICK sec \in Starts(c) : TRUE
  BY StartExists
<1>4. FreeLen(c, sec) \in lens /\ FreeLen(c, sec) \in 1 .. Seconds
  BY <1>1
<1> HIDE DEF lens
<1>5. /\ Max({0} \cup lens) \in {0} \cup lens
      /\ \A n \in {0} \cup lens : n <= Max({0} \cup lens)
  BY <1>2, Sizes, MaxOf
<1>6. FreeLen(c, sec) <= Max({0} \cup lens)
  BY <1>4, <1>5
<1>7. Max({0} \cup lens) \in lens
  BY <1>4, <1>5, <1>6
<1>8. BestLen[c] = Max({0} \cup lens)
  BY DEF BestLen, lens
<1> QED
  BY <1>7, <1>8 DEF lens

\* In every minute there is a second at which a run may start.
LEMMA SomeSecond ==
  ASSUME NEW c \in Scheds
  PROVE  \E sec \in Minute : MayStart[c][sec]
<1>0. 0 \in Minute
  BY Sizes DEF Minute
<1>1. CASE ~Choosy(c)
  BY <1>0, <1>1 DEF MayStart
<1>2. CASE Choosy(c)
  <2>1. BusySeconds[c] \notin {{}, Minute}
    BY <1>2 DEF Choosy
  <2>2. PICK sec \in Starts(c) : FreeLen(c, sec) = BestLen[c]
    BY <2>1, LongestStretch
  <2>3. Starts(c) \subseteq Minute /\ Minute \subseteq Nat
    BY Sizes DEF Starts, Minute
  <2>4. CASE Fits(c)
    <3>1. \A i \in 0 .. Need(c) - 1 : ~Busy(c, sec + i)
      <4>1. c.duration \in Nat
        BY ScrubConstants
      <4>2. Need(c) \in Nat
        BY <4>1, Sizes, SMT DEF Need
      <4>3. Need(c) <= FreeLen(c, sec) /\ FreeLen(c, sec) \in Nat
        BY <2>2, <2>4, FreeFor DEF Fits
      <4>4. 0 .. Need(c) - 1 \subseteq 0 .. FreeLen(c, sec) - 1
        BY <4>2, <4>3
      <4> QED
        BY <4>4, FreeFor
    <3> QED
      BY <2>3, <2>4, <3>1 DEF MayStart
  <2>5. CASE ~Fits(c)
    <3> DEFINE best == {s \in Starts(c) : FreeLen(c, s) = BestLen[c]}
    <3>1. best \subseteq Nat /\ best # {}
      BY <2>2, <2>3
    <3>2. Min(best) \in best
      BY <3>1, MinOf
    <3>3. BestStart(c) \in Minute
      BY <2>3, <3>2 DEF BestStart
    <3> QED
      BY <2>5, <3>3 DEF MayStart, Longest
  <2> QED
    BY <2>4, <2>5
<1> QED
  BY <1>1, <1>2

\* A run needs at least a second; a minute without a free one has no room for it.
LEMMA NoRoom ==
  ASSUME NEW c \in Scheds, Fits(c)
  PROVE  BusySeconds[c] # Minute
<1> SUFFICES ASSUME BusySeconds[c] = Minute PROVE FALSE
  OBVIOUS
<1>1. Starts(c) = {}
  <2> SUFFICES ASSUME NEW sec \in Minute PROVE Busy(c, sec)
    BY DEF Starts
  <2>1. sec % Seconds \in Minute
    BY Sizes, SMT DEF Minute
  <2> QED
    BY <2>1 DEF Busy
<1>2. {0} \cup {FreeLen(c, sec) : sec \in Starts(c)} = {0}
  BY <1>1
<1>3. Max({0}) = 0
  BY DEF Max
<1>4. BestLen[c] = 0
  BY <1>2, <1>3 DEF BestLen
<1>5. c.duration \in Nat
  BY ScrubConstants
<1>6. Need(c) \in Nat \ {0}
  BY <1>5, Sizes, SMT DEF Need
<1> QED
  BY <1>4, <1>6 DEF Fits

\* Every frame of the minute is in a second of it.
LEMMA FrameSecond ==
  ASSUME NEW frame \in 0 .. Frames - 1
  PROVE  frame \div Sub \in Minute
<1> DEFINE q == frame \div Sub  r == frame % Sub
<1>0. frame \in Nat /\ frame < Seconds * Sub
  BY Sizes, SMT DEF Frames
<1>1. q \in Nat /\ r \in 0 .. Sub - 1 /\ frame = (Sub * q) + r
  BY <1>0, Sizes, DivMod
<1> HIDE DEF q, r
<1>2. q < Seconds
  <2> SUFFICES ASSUME q >= Seconds PROVE FALSE
    BY <1>1, Sizes
  <2>1. Sub * (q - Seconds) \in Nat
    <3>1. q - Seconds \in Nat
      BY <1>1, Sizes
    <3> QED
      BY <3>1, Sizes, SMT
  <2>2. Sub * (q - Seconds) = (Sub * q) - (Seconds * Sub) /\ Sub * q \in Nat
    BY <1>1, Sizes, SMT
  <2>3. Seconds * Sub \in Nat
    BY Sizes, SMT
  <2> QED
    BY <1>0, <1>1, <2>1, <2>2, <2>3
<1> QED
  BY <1>1, <1>2, Sizes DEF q, Minute

-----------------------------------------------------------------------------
(* Interludes. *)

\* What is left of an automatic run that found room keeps the interludes.
RunFits ==
  s_active /\ ~manual /\ sched.pause /\ Fits(sched) =>
    \A j \in 0 .. sched.duration - 1 - running : ~Busy(sched, (now + j) \div Sub)

\* A frame of the scrub is one of a run that is not over.
DrawsInRun == drawn = "scrub" => s_active /\ running < sched.duration

\* Frames that are a minute apart lie in seconds equally busy.
LEMMA FrameLater ==
  ASSUME NEW c, NEW frame \in Nat
  PROVE  Busy(c, (Frames + frame) \div Sub) <=> Busy(c, frame \div Sub)
<1> DEFINE q == frame \div Sub  r == frame % Sub
<1>1. q \in Nat /\ r \in 0 .. Sub - 1 /\ frame = (Sub * q) + r
  BY Sizes, DivMod
<1> HIDE DEF q, r
<1>2. Frames + frame = (Sub * (Seconds + q)) + r /\ Seconds + q \in Nat
  BY <1>1, Sizes, SMT DEF Frames
<1>3. (Sub * (Seconds + q) + r) \div Sub = Seconds + q
  BY <1>1, <1>2, Sizes, DivUnique
<1>4. (Frames + frame) \div Sub = Seconds + q
  BY <1>2, <1>3
<1>5. Busy(c, Seconds + q) <=> Busy(c, q)
  BY <1>1, MinuteLater
<1> QED
  BY <1>4, <1>5 DEF q

\* The frame after the present one, and those that follow it.
LEMMA NextFrame ==
  ASSUME TypeOK
  PROVE  /\ Now = IF now + 1 < Frames THEN now + 1 ELSE 0
         /\ \A c : \A j \in Nat :
              Busy(c, (Now + j) \div Sub) <=> Busy(c, (now + (j + 1)) \div Sub)
<1>1. Frames \in Nat /\ Frames > 0 /\ now \in Nat /\ now + 1 <= Frames
  <2>1. Frames \in Nat /\ Frames > 0
    BY Sizes, SMT DEF Frames
  <2> QED
    BY <2>1 DEF TypeOK
<1>2. Now = IF now + 1 < Frames THEN now + 1 ELSE 0
  BY <1>1, SMT DEF Now
<1>3. ASSUME NEW c, NEW j \in Nat
      PROVE  Busy(c, (Now + j) \div Sub) <=> Busy(c, (now + (j + 1)) \div Sub)
  <2>1. CASE now + 1 < Frames
    <3>1. Now + j = now + (j + 1)
      BY <1>1, <1>2, <2>1
    <3> QED
      BY <3>1
  <2>2. CASE now + 1 = Frames
    <3>1. Now + j = j /\ now + (j + 1) = Frames + j
      BY <1>1, <1>2, <2>2
    <3> QED
      BY <3>1, FrameLater
  <2> QED
    BY <1>1, <2>1, <2>2
<1> QED
  BY <1>2, <1>3

\* A run of so many frames touches so many seconds, whichever frame it starts in.
LEMMA RunTouches ==
  ASSUME NEW c \in Scheds, NEW frame \in Nat, NEW j \in 0 .. c.duration - 1
  PROVE  \E i \in 0 .. Need(c) - 1 : (frame + j) \div Sub = (frame \div Sub) + i
<1> DEFINE q == frame \div Sub  r == frame % Sub
<1>0. c.duration \in Nat /\ c.duration > 0 /\ j \in Nat
  BY ScrubConstants
<1>1. q \in Nat /\ r \in 0 .. Sub - 1 /\ frame = (Sub * q) + r
  BY Sizes, DivMod
<1> HIDE DEF q, r
<1> DEFINE i == (r + j) \div Sub  t == (r + j) % Sub
<1>2. i \in Nat /\ t \in 0 .. Sub - 1 /\ r + j = (Sub * i) + t
  <2>1. r + j \in Nat
    BY <1>0, <1>1
  <2> QED
    BY <2>1, Sizes, DivMod
<1> DEFINE n == (c.duration + Sub - 1) \div Sub  m == (c.duration + Sub - 1) % Sub
<1>3. n \in Nat /\ m \in 0 .. Sub - 1 /\ c.duration + Sub - 1 = (Sub * n) + m
  <2>1. c.duration + Sub - 1 \in Nat
    BY <1>0, Sizes
  <2> QED
    BY <2>1, Sizes, DivMod
<1>4. Need(c) = n + 1
  BY DEF Need
<1> HIDE DEF i, t, n, m
<1>5. (frame + j) \div Sub = q + i
  <2>1. frame + j = (Sub * (q + i)) + t /\ q + i \in Nat
    BY <1>0, <1>1, <1>2, Sizes, SMT
  <2>2. (Sub * (q + i) + t) \div Sub = q + i
    BY <1>2, <2>1, Sizes, DivUnique
  <2> QED
    BY <2>1, <2>2
<1>6. i <= n
  <2> SUFFICES ASSUME i >= n + 1 PROVE FALSE
    BY <1>2, <1>3
  <2>1. Sub * i >= Sub * (n + 1)
    <3>1. i - (n + 1) \in Nat
      BY <1>2, <1>3
    <3>2. Sub * (i - (n + 1)) \in Nat
      BY <3>1, Sizes, SMT
    <3> QED
      BY <1>2, <1>3, <3>2, Sizes, SMT
  <2>2. Sub * (n + 1) = Sub * n + Sub /\ Sub * n \in Nat /\ Sub * i \in Nat
    BY <1>2, <1>3, Sizes, SMT
  <2> QED
    BY <1>0, <1>1, <1>2, <1>3, <2>1, <2>2, Sizes
<1> QED
  BY <1>2, <1>3, <1>4, <1>5, <1>6 DEF q

\* A run that may start, and finds room at all, keeps the interludes to its end.
LEMMA StartFits ==
  ASSUME TypeOK, MayStart[sched][Sec], sched.pause, Fits(sched),
         NEW j \in 0 .. sched.duration - 1
  PROVE  ~Busy(sched, (Now + j) \div Sub)
<1>0. sched \in Scheds /\ Now \in Nat /\ Now \in 0 .. Frames - 1
  BY NextFrameType DEF TypeOK
<1>1. PICK i \in 0 .. Need(sched) - 1 : (Now + j) \div Sub = Sec + i
  BY <1>0, RunTouches DEF Sec
<1>2. Sec \in Minute
  BY <1>0, FrameSecond DEF Sec
<1>3. CASE Choosy(sched)
  <2>1. ~Busy(sched, Sec + i)
    BY <1>0, <1>2, <1>3 DEF MayStart
  <2> QED
    BY <1>1, <2>1
<1>4. CASE ~Choosy(sched)
  <2>1. BusySeconds[sched] \in {{}, Minute}
    BY <1>4 DEF Choosy
  <2>2. BusySeconds[sched] # Minute
    BY <1>0, NoRoom
  <2> QED
    BY <2>1, <2>2 DEF Busy
<1> QED
  BY <1>3, <1>4

LEMMA InterludeStep == TypeOK /\ RunFits /\ DrawsInRun /\ [Next]_vars => (RunFits /\ DrawsInRun)'
<1> SUFFICES ASSUME TypeOK, RunFits, DrawsInRun, [Next]_vars
             PROVE  (RunFits /\ DrawsInRun)'
  OBVIOUS
<1>0. /\ sched.duration \in Nat /\ sched.duration > 0 /\ running \in 0 .. sched.duration
      /\ now \in Nat
  BY ScrubConstants DEF TypeOK
<1>1. ASSUME s_active, now' = Now, running' = Running, sched' = sched, manual' = manual
      PROVE  RunFits'
  <2> SUFFICES ASSUME ~manual, sched.pause, Fits(sched),
                      NEW j \in 0 .. sched.duration - 1 - running'
               PROVE  ~Busy(sched, (now' + j) \div Sub)
    BY <1>1 DEF RunFits
  <2>1. j \in Nat /\ j + 1 \in 0 .. sched.duration - 1 - running
    BY <1>0, <1>1 DEF Running, Next1
  <2>2. ~Busy(sched, (now + (j + 1)) \div Sub)
    BY <1>1, <2>1 DEF RunFits
  <2> QED
    BY <1>1, <2>1, <2>2, NextFrame
<1>2. CASE ScrubFrame
  <2>1. CASE Begins
    <3>1. running' = 0 /\ now' = Now /\ sched' = sched /\ s_active' /\ manual' = s_trigger_req
      BY <1>2, <2>1 DEF ScrubFrame, Passes, Elapsed
    <3>2. ~s_trigger_req => MayStart[sched][Sec]
      BY <2>1 DEF Begins
    <3>3. RunFits'
      <4> SUFFICES ASSUME ~s_trigger_req, sched.pause, Fits(sched),
                          NEW j \in 0 .. sched.duration - 1 - running'
                   PROVE  ~Busy(sched, (now' + j) \div Sub)
        BY <3>1 DEF RunFits
      <4>1. j \in 0 .. sched.duration - 1
        BY <1>0, <3>1
      <4> QED
        BY <3>1, <3>2, <4>1, StartFits
    <3> QED
      BY <1>0, <3>1, <3>3 DEF DrawsInRun
  <2>2. CASE ~Begins
    <3>1. /\ running' = Running /\ now' = Now /\ sched' = sched /\ s_active'
          /\ manual' = manual /\ s_active /\ Running < sched.duration
      BY <1>2, <2>2 DEF ScrubFrame, Passes, Elapsed
    <3> QED
      BY <1>1, <3>1 DEF DrawsInRun
  <2> QED
    BY <2>1, <2>2
<1>3. CASE LastScrubFrame \/ ClockFrame
  BY <1>3 DEF LastScrubFrame, ClockFrame, RunFits, DrawsInRun
<1>4. CASE OtherFrame
  <2>1. drawn' # "scrub"
    BY <1>4 DEF OtherFrame
  <2>2. CASE s_active
    BY <1>1, <1>4, <2>1, <2>2 DEF OtherFrame, Passes, DrawsInRun
  <2>3. CASE ~s_active
    BY <1>4, <2>1, <2>3 DEF OtherFrame, RunFits, DrawsInRun
  <2> QED
    BY <2>2, <2>3
<1>5. CASE Trigger \/ RingChanges \/ TimeIsSet \/ \E l \in Levels : LevelChanges(l)
  BY <1>5 DEF Trigger, RingChanges, TimeIsSet, LevelChanges, scrub, history, RunFits, DrawsInRun
<1>6. CASE UNCHANGED vars
  BY <1>6 DEF vars, scrub, history, RunFits, DrawsInRun
<1> QED
  BY <1>2, <1>3, <1>4, <1>5, <1>6 DEF Next, Frame

\* "Pause for interludes": an automatic run that found a gap long enough draws over no
\* interlude, whatever the interludes and the lengths of minute, second and run.
THEOREM InterludesAreKept == Spec => []InterludesKept
<1>1. Init => RunFits /\ DrawsInRun
  BY DEF Init, RunFits, DrawsInRun
<1>2. TypeOK /\ RunFits /\ DrawsInRun => InterludesKept
  <2> SUFFICES ASSUME TypeOK, RunFits, DrawsInRun,
                      drawn = "scrub", ~manual, sched.pause, Fits(sched)
               PROVE  ~Busy(sched, now \div Sub)
    BY DEF InterludesKept
  <2>1. sched.duration \in Nat /\ running \in 0 .. sched.duration /\ now \in Nat
    BY ScrubConstants DEF TypeOK
  <2>2. s_active /\ 0 \in 0 .. sched.duration - 1 - running /\ now + 0 = now
    BY <2>1 DEF DrawsInRun
  <2> QED
    BY <2>2 DEF RunFits
<1> QED
  BY <1>1, <1>2, InterludeStep, TypeCorrect, PTL DEF Spec

-----------------------------------------------------------------------------
(* Waiting for a gap. *)

\* The frame so many frames ago.
Ago(j) == IF j <= now THEN now - j ELSE now - j + Frames

\* A run was refused in each of the frames counted, which are less than a minute's.
RefusedSince ==
  /\ held < Frames
  /\ \A j \in 0 .. held - 1 : ~MayStart[sched][Ago(j) \div Sub]

\* Somewhere in the minute a run may start.
LEMMA SomeFrame ==
  ASSUME NEW c \in Scheds
  PROVE  \E frame \in 0 .. Frames - 1 : MayStart[c][frame \div Sub]
<1>1. PICK sec \in Minute : MayStart[c][sec]
  BY SomeSecond
<1> DEFINE frame == Sub * sec
<1>2. sec \in Nat /\ sec <= Seconds - 1
  BY <1>1, Sizes DEF Minute
<1>3. frame \in 0 .. Frames - 1
  <2>1. Sub * (Seconds - 1 - sec) \in Nat
    <3>1. Seconds - 1 - sec \in Nat
      BY <1>2, Sizes
    <3> QED
      BY <3>1, Sizes, SMT
  <2> QED
    BY <1>2, <2>1, Sizes, SMT DEF Frames
<1>4. (Sub * sec + 0) \div Sub = sec
  <2>1. 0 \in 0 .. Sub - 1
    BY Sizes
  <2> QED
    BY <1>2, <2>1, Sizes, DivUnique
<1>5. Sub * sec + 0 = frame
  BY <1>3
<1> QED
  BY <1>1, <1>3, <1>4, <1>5

\* One more frame in which a run was refused.
LEMMA RefusedOnce ==
  ASSUME TypeOK, RefusedSince, ~MayStart[sched][Sec],
         now' = Now, sched' = sched, held' = held + 1
  PROVE  RefusedSince'
<1>0. /\ Frames \in Nat /\ Frames > 0 /\ now \in Nat /\ now < Frames
      /\ held \in Nat /\ held < Frames /\ sched \in Scheds
  <2>1. Frames \in Nat /\ Frames > 0
    BY Sizes, SMT DEF Frames
  <2> QED
    BY <2>1 DEF TypeOK, RefusedSince
<1>1. now' = IF now + 1 < Frames THEN now + 1 ELSE 0
  BY NextFrame
<1>2. \A j \in 0 .. held : ~MayStart[sched][Ago(j)' \div Sub]
  <2> TAKE j \in 0 .. held
  <2>1. CASE j = 0
    <3>1. Ago(j)' = Now
      BY <1>0, <1>1, <2>1 DEF Ago, Frames
    <3> QED
      BY <3>1 DEF Sec
  <2>2. CASE j > 0
    <3>1. j - 1 \in 0 .. held - 1
      BY <1>0, <2>2
    <3>2. Ago(j)' = Ago(j - 1)
      BY <1>0, <1>1, <2>2, <3>1 DEF Ago, Frames
    <3> QED
      BY <3>1, <3>2 DEF RefusedSince
  <2> QED
    BY <1>0, <2>1, <2>2
<1>3. held + 1 # Frames
  <2> SUFFICES ASSUME held + 1 = Frames PROVE FALSE
    OBVIOUS
  <2>1. PICK frame \in 0 .. Frames - 1 : MayStart[sched][frame \div Sub]
    BY <1>0, SomeFrame
  <2>2. \E j \in 0 .. held : Ago(j)' = frame
    <3>0. now' \in 0 .. Frames - 1
      BY <1>0, <1>1
    <3>1. CASE frame <= now'
      <4>1. now' - frame \in 0 .. held /\ now' - frame <= now' /\ now' - (now' - frame) = frame
        BY <1>0, <3>0, <3>1
      <4> QED
        BY <4>1 DEF Ago
    <3>2. CASE frame > now'
      <4> DEFINE j == now' - frame + Frames
      <4>1. j \in 0 .. held /\ ~(j <= now') /\ now' - j + Frames = frame
        BY <1>0, <3>0, <3>2
      <4> HIDE DEF j
      <4> QED
        BY <4>1 DEF Ago, Frames
    <3> QED
      BY <3>0, <3>1, <3>2
  <2> QED
    BY <1>2, <2>1, <2>2
<1>4. held' < Frames'
  BY <1>0, <1>3 DEF Frames
<1> QED
  BY <1>0, <1>2, <1>4 DEF RefusedSince

LEMMA RefusedStep == TypeOK /\ RefusedSince /\ [Next]_vars => RefusedSince'
<1> SUFFICES ASSUME TypeOK, RefusedSince, [Next]_vars PROVE RefusedSince'
  OBVIOUS
<1>0. ASSUME held' = 0 PROVE RefusedSince'
  <2>1. Frames' > 0
    BY Sizes, SMT DEF Frames
  <2>2. 0 .. held' - 1 = {}
    BY <1>0
  <2> QED
    BY <1>0, <2>1, <2>2 DEF RefusedSince
<1>1. CASE ScrubFrame \/ LastScrubFrame \/ OtherFrame
  BY <1>0, <1>1 DEF ScrubFrame, LastScrubFrame, OtherFrame
<1>2. CASE ClockFrame
  <2>1. CASE Refused
    <3>1. ~MayStart[sched][Sec] /\ now' = Now /\ sched' = sched /\ held' = held + 1
      BY <1>2, <2>1 DEF ClockFrame, Passes, Refused, Begins
    <3> QED
      BY <3>1, RefusedOnce
  <2>2. CASE ~Refused
    BY <1>0, <1>2, <2>2 DEF ClockFrame
  <2> QED
    BY <2>1, <2>2
<1>3. CASE Trigger \/ RingChanges \/ TimeIsSet \/ (\E l \in Levels : LevelChanges(l))
        \/ UNCHANGED vars
  <2>1. UNCHANGED <<held, now, sched>>
    BY <1>3 DEF Trigger, RingChanges, TimeIsSet, LevelChanges, vars, history
  <2> QED
    BY <2>1 DEF RefusedSince, Ago, Frames
<1> QED
  BY <1>1, <1>2, <1>3 DEF Next, Frame

\* "Never held back for more than a minute": whatever the interludes, somewhere in
\* every minute a run that is due may start.
THEOREM NeverHeldForLong == Spec => []HeldAtMostAMinute
<1>1. Init => RefusedSince
  <2> SUFFICES ASSUME Init PROVE RefusedSince
    OBVIOUS
  <2>1. held = 0 /\ 0 .. held - 1 = {} /\ Frames > 0
    BY Sizes, SMT DEF Init, Frames
  <2> QED
    BY <2>1 DEF RefusedSince
<1>2. RefusedSince => HeldAtMostAMinute
  BY DEF RefusedSince, HeldAtMostAMinute
<1> QED
  BY <1>1, <1>2, RefusedStep, TypeCorrect, PTL DEF Spec

-----------------------------------------------------------------------------
(* What the end of a run rests on.                                         *)

\* A run is under way only while the time is known.
RunKnowsTime == s_active => valid

\* A frame that neither the alarm nor a trigger disturbs ends the run or brings it
\* a frame nearer to its end.
GetsShorter ==
  [][Frame /\ s_active /\ ~ringing /\ ~s_trigger_req
       => ~s_active' \/ (running' = running + 1 /\ running' < sched.duration)]_vars

LEMMA KnowsTimeStep == RunKnowsTime /\ [Next]_vars => RunKnowsTime'
<1> SUFFICES ASSUME RunKnowsTime, [Next]_vars PROVE RunKnowsTime'
  OBVIOUS
<1> USE DEF RunKnowsTime, scrub, history
<1>1. CASE Frame
  BY <1>1 DEF Frame, ScrubFrame, LastScrubFrame, ClockFrame, OtherFrame, Passes
<1>2. CASE Trigger \/ RingChanges \/ TimeIsSet \/ UNCHANGED vars
  BY <1>2 DEF Trigger, RingChanges, TimeIsSet, vars
<1>3. ASSUME NEW l \in Levels, LevelChanges(l) PROVE RunKnowsTime'
  BY <1>3 DEF LevelChanges
<1> QED
  BY <1>1, <1>2, <1>3 DEF Next

\* No interlude, period or change of brightness lengthens a run, which is over within
\* its duration; only a ring, which is not counted, or another trigger does.
THEOREM RunsGetShorter == Spec => GetsShorter
<1>1. Init => RunKnowsTime
  BY DEF Init, RunKnowsTime
<1>2. ASSUME TypeOK, RunKnowsTime, Frame, s_active, ~ringing, ~s_trigger_req
      PROVE  ~s_active' \/ (running' = running + 1 /\ running' < sched.duration)
  <2>1. valid /\ ~Begins
    BY <1>2 DEF RunKnowsTime, Begins
  <2>2. CASE ScrubFrame
    <3>1. running' = Running /\ Running < sched.duration
      BY <2>1, <2>2 DEF ScrubFrame, Elapsed
    <3>2. sched.duration \in Nat /\ running \in 0 .. sched.duration
      BY <1>2, ScrubConstants DEF TypeOK
    <3> QED
      BY <3>1, <3>2 DEF Running, Next1
  <2>3. CASE LastScrubFrame
    BY <2>3 DEF LastScrubFrame
  <2> QED
    BY <1>2, <2>1, <2>2, <2>3 DEF Frame, ClockFrame, OtherFrame
<1>3. TypeOK /\ RunKnowsTime /\ [Next]_vars =>
        [Frame /\ s_active /\ ~ringing /\ ~s_trigger_req
           => ~s_active' \/ (running' = running + 1 /\ running' < sched.duration)]_vars
  BY <1>2
<1> QED
  BY <1>1, <1>3, KnowsTimeStep, TypeCorrect, PTL DEF Spec, GetsShorter

===============================================================================
