------------------------------ MODULE UdpTsSeq ------------------------------
(***************************************************************************)
(* A session of udp_ts_seq_reply.cpp: the sending child (probe), the       *)
(* server, the receiving parent (measure), the network and the client's    *)
(* NAT.  A probe carries its number seq1; the server adds its own number   *)
(* seq2 and the address it saw; the parent counts what comes back (seq3)   *)
(* and prints the losses on the way out and on the way back.               *)
(*                                                                         *)
(* A tick is the time between two probes.  Datagrams keep their order and  *)
(* are at most MaxDelay ticks on each way.  Forget counts ticks here.      *)
(* Timestamps are the delays they measure, plus the distance of the two    *)
(* clocks; Timespec has their arithmetic.  Packet lengths and the wrap of  *)
(* the numbers at 2^32 are left out.                                       *)
(***************************************************************************)
EXTENDS TsSeqServer, FiniteSets, SequencesExt

CONSTANTS
  Session,      \* the id of this session, one of Ids
  IPs, Ports,   \* the external addresses a NAT may give the client
  ByteSize,     \* values of a byte of a port (256)
  Skews,        \* how far the server's clock may be ahead of the client's
  OutageTicks,  \* SO_RCVTIMEO of measure in ticks (10)
  MaxDelay,     \* bound on the delay of a datagram each way
  MaxSent,      \* bound on the probes sent
  MaxLost,      \* bound on the datagrams lost
  MaxRebinds,   \* bound on the changes of the client's external address
  MaxRestarts   \* bound on the restarts of the server

NoIP == "0.0.0.0"
NoPort == 0
NoRtt == 2 * MaxDelay + 1  \* 0xFFFFFFFF: longer than any

ASSUME SessionAssumption ==
  /\ Session \in Ids
  /\ OutageTicks \in Nat \ {0} /\ MaxDelay \in Nat /\ MaxSent \in Nat
  /\ MaxLost \in Nat /\ MaxRebinds \in Nat /\ MaxRestarts \in Nat
  /\ NoIP \notin IPs /\ Skews \subseteq Int
  /\ ByteSize \in Nat \ {0} /\ Ports \subseteq 1..(ByteSize * ByteSize - 1)

VARIABLES
  sent,             \* seq_ in probe
  awake,            \* the sleep in probe is over
  ip, port,         \* the client's address as the server sees it now
  up, down,         \* datagrams on their way
  seq3,             \* replies received
  quiet,            \* ticks since recvfrom was called
  outage_reported,
  previp, prevport,
  skew,             \* how far the server's clock is ahead of the client's
  minrtt, best,     \* the shortest round trip, and ts2 - ts1 of its reply
  report,           \* history: the last line printed for a reply
  outages,          \* history: OUTAGE lines
  notices,          \* history: NEW_IP and NEW_PORT lines
  rebinds,          \* history: changes of the address
  lostUp, lostDown, \* history: numbers of the probes and replies lost
  restarts,         \* history: restarts of the server
  rebooted,         \* history: the server's clock began anew
  renumbered        \* history: the server counted this session anew

probeVars == <<sent, awake>>
addrVars == <<ip, port, rebinds>>
netVars == <<up, down, lostUp, lostDown>>
delayVars == <<minrtt, best>>
measureVars == <<delayVars, seq3, quiet, outage_reported, previp, prevport, report,
                 outages, notices>>
resetVars == <<restarts, renumbered, rebooted, skew>>
vars == <<serverVars, probeVars, addrVars, netVars, measureVars, resetVars>>

Nums == 0..(MaxSent - 1)
Lost == Cardinality(lostUp) + Cardinality(lostDown)
NoReport == [seq1 |-> -1, out |-> 0, back |-> 0, off |-> 0]

Init ==
  /\ EmptyMaps
  /\ sent = 0 /\ awake = TRUE
  /\ ip \in IPs /\ port \in Ports /\ rebinds = 0
  /\ up = <<>> /\ down = <<>> /\ lostUp = {} /\ lostDown = {}
  /\ seq3 = 0 /\ quiet = 0 /\ outage_reported = FALSE
  /\ previp = NoIP /\ prevport = NoPort
  /\ report = NoReport /\ outages = 0 /\ notices = 0
  /\ minrtt = NoRtt /\ best = 0 /\ skew \in Skews
  /\ restarts = 0 /\ renumbered = FALSE /\ rebooted = FALSE

------------------------------------------------------------------------------
\* probe: send and sleep.
SendProbe ==
  /\ awake /\ sent < MaxSent
  /\ up' = Append(up, [seq1 |-> sent, ip |-> ip, port |-> port, age |-> 0])
  /\ sent' = sent + 1 /\ awake' = FALSE
  /\ UNCHANGED <<serverVars, addrVars, down, lostUp, lostDown, measureVars,
                 resetVars>>

\* serve1.
Serve ==
  /\ up # <<>>
  /\ Stamp(Session)
  /\ LET m == Head(up) IN
       down' = Append(down, [seq1 |-> m.seq1, seq2 |-> NumberFor(Session),
                             ip |-> m.ip, port |-> m.port, out |-> m.age,
                             apart |-> m.age + skew, age |-> 0])
  /\ up' = Tail(up)
  /\ renumbered' = (renumbered \/ age[Session] > Forget)
  /\ UNCHANGED <<probeVars, addrVars, lostUp, lostDown, measureVars, restarts,
                 rebooted, skew>>

\* The server is killed and started again: its maps are empty.  If its host
\* was booted, its CLOCK_MONOTONIC is another.
ServerRestarts ==
  /\ restarts < MaxRestarts /\ restarts' = restarts + 1
  /\ Restart
  /\ skew' \in Skews /\ rebooted' = (rebooted \/ skew' # skew)
  /\ renumbered' = (renumbered \/ age[Session] # Never)
  /\ UNCHANGED <<probeVars, addrVars, netVars, measureVars>>

\* Faulty variant: a change from no address counts.
NoticeFirst(i, p) == i # previp \/ p # prevport

\* Does measure print NEW_IP or NEW_PORT for a reply with this address?
Notice(i, p) == IF i = previp THEN p # prevport ELSE previp # NoIP

\* The port as measure computes it from bytes that are signed: one less in the
\* high byte if the low one is negative (line 277).
Shown(p) ==
  IF p % ByteSize >= ByteSize \div 2 THEN (p - ByteSize) % (ByteSize * ByteSize)
  ELSE p

\* Faulty variant: the first reply is the base for ever.
BaseFirst(m) == IF minrtt = NoRtt THEN m.apart ELSE best

\* basets2 - start: ts2 - ts1 of the reply with the shortest round trip.
Base(m) == IF m.out + m.age < minrtt THEN m.apart ELSE best

\* Faulty variant: the reply counts itself before it is compared.
LossesCounted(m) == [out |-> m.seq1 - seq3 - 1, back |-> m.seq2 - seq3 - 1]

\* The losses printed for a reply.
Losses(m) == [out |-> (m.seq1 - seq3) - (m.seq2 - seq3), back |-> m.seq2 - seq3]

\* measure: recvfrom returns a reply; the line printed, and how far its delay
\* on the way out is off (what it says of the way back is off by the opposite).
Receive ==
  /\ down # <<>>
  /\ LET m == Head(down)
         rtt == m.out + m.age
     IN  /\ minrtt' = IF rtt < minrtt THEN rtt ELSE minrtt
         /\ best' = Base(m)
         /\ report' = [seq1 |-> m.seq1, out |-> Losses(m).out, back |-> Losses(m).back,
                       off |-> (m.apart - best') + (minrtt' \div 2) - m.out]
         /\ notices' = IF Notice(m.ip, Shown(m.port)) THEN notices + 1 ELSE notices
         /\ previp' = m.ip /\ prevport' = Shown(m.port)
  /\ seq3' = seq3 + 1 /\ quiet' = 0 /\ outage_reported' = FALSE
  /\ down' = Tail(down)
  /\ UNCHANGED <<serverVars, probeVars, addrVars, up, lostUp, lostDown,
                 outages, resetVars>>

\* Faulty variant: SO_RCVTIMEO is shorter than ten probes.
TimedOutEarly == quiet > 1

\* SO_RCVTIMEO of the socket is over.
TimedOut == quiet >= OutageTicks

\* measure: SO_RCVTIMEO expires, wherever the next reply is on its way; one
\* OUTAGE line per silence.
ReceiveTimeout ==
  /\ TimedOut
  /\ outages' = IF outage_reported THEN outages ELSE outages + 1
  /\ outage_reported' = TRUE /\ quiet' = 0
  /\ UNCHANGED <<serverVars, probeVars, addrVars, netVars, delayVars, seq3,
                 previp, prevport, report, notices, resetVars>>

\* The network loses a probe or a reply.
LoseProbe ==
  /\ Lost < MaxLost
  /\ \E i \in DOMAIN up :
       up' = RemoveAt(up, i) /\ lostUp' = lostUp \cup {up[i].seq1}
  /\ UNCHANGED <<serverVars, probeVars, addrVars, down, lostDown, measureVars,
                 resetVars>>

LoseReply ==
  /\ Lost < MaxLost
  /\ \E i \in DOMAIN down :
       down' = RemoveAt(down, i) /\ lostDown' = lostDown \cup {down[i].seq1}
  /\ UNCHANGED <<serverVars, probeVars, addrVars, up, lostUp, measureVars,
                 resetVars>>

\* The NAT gives the client another external address.
Rebind ==
  /\ rebinds < MaxRebinds /\ rebinds' = rebinds + 1
  /\ ip' \in IPs /\ port' \in Ports /\ <<ip', port'>> # <<ip, port>>
  /\ UNCHANGED <<serverVars, probeVars, netVars, measureVars,
                 resetVars>>

MoreDelayed(ms) == [i \in DOMAIN ms |-> [ms[i] EXCEPT !.age = @ + 1]]
InTime(ms) == \A i \in DOMAIN ms : ms[i].age < MaxDelay

\* The time between two probes passes.
Tick ==
  /\ ~awake \/ sent = MaxSent
  /\ ~TimedOut /\ InTime(up) /\ InTime(down)
  /\ awake' = TRUE /\ quiet' = quiet + 1
  /\ up' = MoreDelayed(up) /\ down' = MoreDelayed(down)
  /\ GrowOlder
  /\ UNCHANGED <<sent, addrVars, lostUp, lostDown, delayVars, seq3,
                 outage_reported, previp, prevport, report, outages, notices, resetVars>>

Next ==
  \/ SendProbe \/ Serve \/ ServerRestarts \/ Receive \/ ReceiveTimeout
  \/ LoseProbe \/ LoseReply \/ Rebind \/ Tick

Spec == Init /\ [][Next]_vars

------------------------------------------------------------------------------
Before(S) == Cardinality({q \in S : q < report.seq1})

\* The two losses printed with a reply add up to the datagrams really lost
\* before it, even if the server counted anew.
TotalLossRight ==
  report.seq1 >= 0 => report.out + report.back = Before(lostUp \cup lostDown)

\* udp_ts_seq_reply.cpp:399, "'probe' measures network delay and loss": the
\* printed losses are the numbers of probes and of replies that were lost
\* before this reply.
MeasuresLoss ==
  report.seq1 >= 0 =>
    report.out = Before(lostUp) /\ report.back = Before(lostDown)

\* They are unless the server forgot the session: after a restart, or when
\* no probe reached it for more than Forget seconds (line 90).
SplitRight == ~renumbered => MeasuresLoss

\* NEW_IP and NEW_PORT are printed for changes of the address only, however
\* many of the packets around a change are lost.
NoFalseNotices == notices <= rebinds

\* While probes are sent an OUTAGE line means loss: of the probes of OutageTicks
\* (SO_RCVTIMEO, lines 233-239) delay explains only those that are still on their
\* way, out or back, and the next.
NoFalseOutage ==
  outages > 0 /\ sent < MaxSent => Lost >= OutageTicks - 2 * MaxDelay - 1

\* udp_ts_seq_reply.cpp:297-340: the delays printed for the two ways are wrong
\* by at most half the shortest round trip so far, whatever the clocks say and
\* whichever way was slow, unless the server's host was booted.
DelaysRight ==
  report.seq1 >= 0 /\ ~rebooted =>
    2 * report.off <= minrtt /\ -2 * report.off <= minrtt + 1
==============================================================================
