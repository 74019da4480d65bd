-------------------------------- MODULE Shelly --------------------------------
(***************************************************************************)
(* The time that Shelly devices broadcast (components/shellytime): the     *)
(* table of senders that the BLE task fills, the median that the main loop *)
(* takes of it, and the schedule by which it does so: at once on a         *)
(* request, and daily where the settings ask for it and NTP is a day old.  *)
(*                                                                         *)
(* A unit of time is the ten seconds in which a sender sends one stamp, in *)
(* a burst of packets of which any are lost.  So one age serves for an     *)
(* entry's stamp_ms and its last_ms, and a sender heard within FRESH_MS    *)
(* has a stamp at most 30 s before its next.  Ages stop where no condition *)
(* tells them apart.  An entry's err is the time it implies less the true  *)
(* one, in seconds.                                                        *)
(***************************************************************************)
EXTENDS Integers, FiniteSets

CONSTANTS
  Senders,
  Error,        \* what each sender's clock is wrong by, in seconds
  MaxSenders,   \* the size of the table
  Late,         \* how late in its burst each may first be heard, in seconds
  Fresh,        \* FRESH_MS
  ReqWait,      \* REQ_WAIT_MS
  Daily, FirstDaily, Retry,   \* DAILY_MS, FIRST_DAILY_MS, RETRY_MS
  Never

ASSUME ShellyConstants ==
  /\ IsFiniteSet(Senders)
  /\ Error \in [Senders -> Int]
  /\ {MaxSenders, Fresh, ReqWait, Daily, FirstDaily, Retry}
       \subseteq Nat \ {0}
  /\ Late \in [Senders -> Nat]
  /\ FirstDaily <= Daily /\ Retry <= Daily
  /\ Never \notin Int

VARIABLES
  s_snd,      \* the table: entries by sender
  s_req,      \* a request was made that the main loop has not seen
  pending,    \* the age of the request it waits for, or Never
  daily,      \* the setting: the daily synchronisation is on
  nextDaily,  \* units until the next daily attempt, 0 when it is due
  ntpAge,     \* units since NTP set the clock, or Never
  quiet       \* history: units since NTP, a daily attempt or the setting

schedule == <<s_req, pending, daily, nextDaily>>
shellyVars == <<s_snd, schedule, ntpAge, quiet>>

Older(age, cap) == IF age = Never \/ age >= cap THEN age ELSE age + 1

AgeCap == Fresh + 1

ShellyInit ==
  /\ s_snd = << >>
  /\ s_req = FALSE /\ pending = Never
  /\ daily \in BOOLEAN
  /\ nextDaily = FirstDaily
  /\ ntpAge = Never
  /\ quiet = 0

-----------------------------------------------------------------------------
(* The table. *)

\* Its stamp, or the last packet of it, is no older than FRESH_MS.
IsFresh(m) == s_snd[m].age <= Fresh

\* Evicted with no end to the table.
EvictedNone(m) == {{}}

\* The senders that find_or_add may overwrite for m: none that is m itself or
\* while there is a free slot, else the one unheard for longest.
Evicted(m) ==
  LET D == DOMAIN s_snd
  IN  IF m \in D \/ Cardinality(D) < MaxSenders THEN {{}}
      ELSE {{o} : o \in {x \in D : \A y \in D : s_snd[y].age <= s_snd[x].age}}

\* shellytime_feed: only a stamp other than the entry's is taken; it is clean when
\* the one before was heard too, and recently.
Feed(m, err) ==
  LET known == m \in DOMAIN s_snd
      clean == known /\ IsFresh(m)
      entry == IF known /\ s_snd[m].age = 0 THEN s_snd[m]
               ELSE [age |-> 0, err |-> err, clean |-> clean]
  IN  \E out \in Evicted(m) :
        s_snd' = [o \in (DOMAIN s_snd \ out) \cup {m} |->
                    IF o = m THEN entry ELSE s_snd[o]]

\* A packet of the burst is heard, its first or a later one.
Heard(m) ==
  /\ \E late \in {0, Late[m]} : Feed(m, Error[m] - late)
  /\ UNCHANGED <<schedule, ntpAge, quiet>>

-----------------------------------------------------------------------------
(* The synchronisation. *)

\* Fresh senders that are clean, or all that are fresh when none is.
Pool ==
  LET fresh == {m \in DOMAIN s_snd : IsFresh(m)}
      clean == {m \in fresh : s_snd[m].clean}
  IN  IF clean # {} THEN clean ELSE fresh

\* t[n / 2] of the sorted times; and t[n - 1].
IsLatest(e, pool) == \A m \in pool : s_snd[m].err <= e
IsMedian(e, pool) ==
  LET half == Cardinality(pool) \div 2
  IN  /\ Cardinality({m \in pool : s_snd[m].err < e}) <= half
      /\ half < Cardinality({m \in pool : s_snd[m].err <= e})

Median(pool) ==
  CHOOSE e \in {s_snd[m].err : m \in pool} : IsMedian(e, pool)

\* try_sync finds a time to set the clock to.
Synced == Pool # {}

\* The request, which waits from when the main loop first saw it; and from when it
\* saw it last.
WaitingAnew == IF s_req THEN 0 ELSE pending
Waiting == IF s_req /\ pending = Never THEN 0 ELSE pending

NextPending ==
  IF Waiting = Never \/ Synced \/ Waiting > ReqWait THEN Never ELSE Waiting

Due == daily /\ nextDaily = 0
Yields == ntpAge # Never /\ ntpAge < Daily

\* What a daily attempt puts the next one off by, which is a day from NTP when it
\* yields; and one that always counts from now.
PutOffFromNow == IF Yields \/ Synced THEN Daily ELSE Retry
PutOff == CASE Yields -> Daily - ntpAge [] ~Yields /\ Synced -> Daily [] OTHER -> Retry

\* shellytime_tick: first the request, then the daily synchronisation.
Tick ==
  /\ s_req' = FALSE
  /\ pending' = NextPending
  /\ nextDaily' = IF Due THEN PutOff ELSE nextDaily
  /\ quiet' = IF Due /\ ~Yields THEN 0 ELSE quiet
  /\ UNCHANGED <<s_snd, daily, ntpAge>>

-----------------------------------------------------------------------------
(* The other tasks, and time. *)

\* shellytime_request_sync, from the web, MQTT or REST.
Request ==
  /\ s_req' = TRUE
  /\ UNCHANGED <<s_snd, pending, daily, nextDaily, ntpAge, quiet>>

NtpSync ==
  /\ ntpAge' = 0
  /\ quiet' = 0
  /\ UNCHANGED <<s_snd, schedule>>

SetDaily ==
  /\ daily' = ~daily
  /\ quiet' = 0
  /\ UNCHANGED <<s_snd, s_req, pending, nextDaily, ntpAge>>

\* A unit passes, of which the main loop, running twenty times a second, has left
\* nothing undone.
Pass ==
  /\ ~s_req /\ ~Due /\ NextPending = pending
  /\ s_snd' = [m \in DOMAIN s_snd |->
                 [s_snd[m] EXCEPT !.age = Older(@, AgeCap)]]
  /\ pending' = IF pending = Never THEN Never ELSE pending + 1
  /\ nextDaily' = IF nextDaily = 0 THEN 0 ELSE nextDaily - 1
  /\ ntpAge' = Older(ntpAge, Daily)
  /\ quiet' = Older(quiet, Daily + 1)
  /\ UNCHANGED <<s_req, daily>>

-----------------------------------------------------------------------------

ShellyNext ==
  \/ \E m \in Senders : Heard(m)
  \/ Tick \/ Request \/ NtpSync \/ SetDaily \/ Pass

\* The main loop runs, and time passes, however often the loop is asked to do
\* something first.
ShellySpec ==
  /\ ShellyInit /\ [][ShellyNext]_shellyVars
  /\ WF_shellyVars(Tick) /\ SF_shellyVars(Pass)

-----------------------------------------------------------------------------
(* Properties. *)

\* The variables range over the values the code can give them, and the table
\* holds no more senders than it has slots.
ShellyTypeOK ==
  /\ DOMAIN s_snd \subseteq Senders
  /\ Cardinality(DOMAIN s_snd) <= MaxSenders
  /\ \A m \in DOMAIN s_snd :
       s_snd[m] \in [age : 0 .. AgeCap, err : Int, clean : BOOLEAN]
  /\ s_req \in BOOLEAN
  /\ pending \in 0 .. ReqWait + 1 \cup {Never}
  /\ daily \in BOOLEAN
  /\ nextDaily \in 0 .. Daily
  /\ ntpAge \in 0 .. Daily \cup {Never}
  /\ quiet \in 0 .. Daily + 1

Right == {m \in Senders : Error[m] = 0}

\* Senders with a wrong clock are outvoted: whenever the main loop may synchronise,
\* if most of the senders it goes by are right, the time it would set is off by no more
\* than the lateness of a right one's stamp heard in mid-burst (shellytime_feed,
\* try_sync).
MajorityRules ==
  2 * Cardinality(Pool \cap Right) > Cardinality(Pool)
    => \E m \in Pool \cap Right : Median(Pool) \in -Late[m] .. 0

\* With the daily synchronisation on, no day goes by without NTP or an attempt
\* (shellytime_tick).
NoDayMissed == daily => quiet <= Daily

\* A request is answered, by a synchronisation or by giving up, however often it
\* is repeated meanwhile (shellytime_tick).
RequestAnswered == s_req \/ pending # Never ~> ~s_req /\ pending = Never

==============================================================================
