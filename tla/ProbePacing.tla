---------------------------- MODULE ProbePacing ------------------------------
(***************************************************************************)
(* The child of udp_ts_seq_reply.cpp: probe sends a packet, moves ts_next  *)
(* one delay on and sleeps until then (timing_mach.h, clock_nanosleep or   *)
(* its emulation on Mach).  The child may run late at any point: the clock *)
(* is read, and time passes, between any two of its steps.                 *)
(***************************************************************************)
EXTENDS Timespec

CONSTANTS
  Seconds,  \* of small packets at the beginning (5)
  Delays,   \* delay_ns: from the rate and the size of the packets
  Starts,   \* readings of the clock when probe begins
  MaxNow,   \* bound on the clock
  MaxSeq    \* bound on the packets sent

ASSUME PacingAssumption ==
  /\ Seconds \in Nat \ {0} /\ MaxNow \in Nat /\ MaxSeq \in Nat
  /\ Delays \subseteq 0..Giga /\ Starts \subseteq Nat

VARIABLES
  now,      \* CLOCK_MONOTONIC in nanoseconds
  mach,     \* the child runs on a Mac
  delay_ns,
  child,    \* where the child is, "none" before fork, "gone" when it is dead
  start,    \* history: the clock when ts_next was set
  ts_next,
  ts_delta, \* in the emulated clock_nanosleep
  until,    \* the end of a sleep
  seq_      \* packets sent

pacingVars == <<now, mach, delay_ns, child, start, ts_next, ts_delta, until, seq_>>
sleepVars == <<ts_delta, until>>
settings == <<mach, delay_ns>>

PacingInit ==
  /\ now \in Starts /\ mach \in BOOLEAN /\ delay_ns \in Delays
  /\ child = "none" /\ start = 0 /\ ts_next = Zero /\ ts_delta = Zero
  /\ until = 0 /\ seq_ = 0

\* Faulty variant: the division is by five delays.
WarmPacketsShort == Giga \div (delay_ns * Seconds)

\* packets_in_first_5_seconds
WarmPackets == (Giga \div delay_ns) * Seconds

\* probe begins; with a delay of 0 the division at line 145 kills it.
Begin ==
  /\ child = "start"
  /\ child' = IF delay_ns = 0 THEN "gone" ELSE "send"
  /\ start' = now /\ ts_next' = Clock(now)
  /\ UNCHANGED <<now, settings, sleepVars, seq_>>

\* Faulty variant: the nanoseconds are carried without taking them off.
LaterKept(t, ns) ==
  IF t.nsec + ns > Giga THEN Time(t.sec + 1, t.nsec + ns) ELSE Time(t.sec, t.nsec + ns)

\* Faulty variant: the carry is lost.
LaterLost(t, ns) ==
  IF t.nsec + ns > Giga THEN Time(t.sec, t.nsec + ns - Giga)
  ELSE Time(t.sec, t.nsec + ns)

\* Lines 177-181, with ">".
Later(t, ns) ==
  IF t.nsec + ns > Giga THEN Time(t.sec + 1, t.nsec + ns - Giga)
  ELSE Time(t.sec, t.nsec + ns)

\* A packet is sent and the next one scheduled.
Send ==
  /\ child = "send" /\ seq_ < MaxSeq
  /\ seq_' = seq_ + 1 /\ ts_next' = Later(ts_next, delay_ns)
  /\ child' = IF mach THEN "emulate" ELSE "sleep"
  /\ UNCHANGED <<now, settings, start, sleepVars>>

\* A sleep is refused (EINVAL) when the nanoseconds are a whole second.
\* clock_nanosleep until ts_next.
Sleep ==
  /\ child = "sleep" /\ child' = "asleep"
  /\ until' = IF Normal(ts_next) THEN Value(ts_next) ELSE now
  /\ UNCHANGED <<now, settings, start, ts_next, ts_delta, seq_>>

\* Mach: the time left is computed ...
Emulate ==
  /\ child = "emulate" /\ child' = "nanosleep"
  /\ ts_delta' = TimespecMonodiffRml(Clock(now), ts_next)
  /\ UNCHANGED <<now, settings, start, ts_next, until, seq_>>

\* ... and slept, from then on.
Nanosleep ==
  /\ child = "nanosleep" /\ child' = "asleep"
  /\ until' = IF Normal(ts_delta) THEN now + Value(ts_delta) ELSE now
  /\ UNCHANGED <<now, settings, start, ts_next, ts_delta, seq_>>

Wake ==
  /\ child = "asleep" /\ now >= until /\ child' = "send"
  /\ UNCHANGED <<now, settings, start, ts_next, sleepVars, seq_>>

Tick ==
  /\ now < MaxNow /\ now' = now + 1
  /\ UNCHANGED <<settings, child, start, ts_next, sleepVars, seq_>>

------------------------------------------------------------------------------
Started == child \notin {"none", "start", "gone"}

\* The period of a whole second, begun at a whole second, is never slept.
Flooding == delay_ns = Giga /\ start % Giga = 0

\* The schedule does not drift, however late the child is and whichever way
\* the nanoseconds are carried (lines 177-181).
OnSchedule == Started => Value(ts_next) = start + seq_ * delay_ns

\* However the sleeps are refused, emulated or late, the child is never more
\* than one packet ahead of the schedule (lines 153-183).
NotAhead ==
  Started /\ ~Flooding => (seq_ - 2) * delay_ns <= now - start

\* Small packets are scheduled for no more than five seconds, and are sent for
\* more than half of that, but for a period, before the first one of full
\* size (lines 145, 169-171).
WarmupRight ==
  Started =>
    /\ seq_ <= WarmPackets => Value(ts_next) - start <= Seconds * Giga
    /\ seq_ > WarmPackets /\ ~Flooding =>
         2 * (now - start) + 2 * delay_ns > Seconds * Giga

PacingType ==
  /\ now \in Nat /\ start \in Nat /\ start <= now /\ seq_ \in Nat /\ until \in Int
  /\ delay_ns \in 0..Giga
  /\ Started => delay_ns > 0
  /\ ts_next \in Times /\ ts_next.nsec \in 0..Giga
  /\ ts_delta \in Times /\ ts_delta.nsec \in 0..Giga
  /\ child \in {"none", "start"} => seq_ = 0
  /\ child \in {"none", "start", "send", "sleep", "emulate", "nanosleep",
                "asleep", "gone"}

\* The next sleep is refused.
Refused == ts_next.nsec = Giga
Ahead == Value(ts_next) - now

\* A refused sleep lets one packet go early; the sleep after it is not refused.
PacingSlack ==
  Started /\ ~Flooding =>
    /\ delay_ns = Giga => ts_next.nsec \notin {0, Giga}
    /\ child = "send" => Ahead <= 0 \/ (Refused /\ Ahead <= delay_ns)
    /\ child # "send" => Ahead <= delay_ns \/ (~Refused /\ Ahead <= 2 * delay_ns)
    /\ child = "nanosleep" =>
         IF Normal(ts_delta) THEN Value(ts_delta) >= Ahead ELSE Refused
    /\ child = "asleep" => until >= Value(ts_next) \/ Refused

\* The inductive invariant.
PacingInv == PacingType /\ OnSchedule /\ PacingSlack
==============================================================================
