----------------------------- MODULE PeckedRelay -----------------------------
(***************************************************************************)
(* udpfilepecker behind a NAT, udppair as its relay (README.md:59) and a   *)
(* controller.  The controller sends commands to socket 1 of the pair; the *)
(* pecks tell socket 2 the pecker's address outside the NAT.               *)
(*                                                                         *)
(* The network is fast: a second passes only when nothing is under way.    *)
(***************************************************************************)
EXTENDS UdpPair, UdpFilePecker

CONSTANTS
  Ports,           \* the external addresses the NAT may give the pecker
  Controller,
  NatTimeout,      \* seconds an idle mapping lives
  NatKinds,        \* may datagrams from outside count as use of a mapping?
  MaxPerSecond,    \* bound on the commands sent in a second
  MaxLost,         \* bound on the datagrams lost or not sent
  MaxRestarts,     \* bound on the restarts of udppair
  MaxStops,        \* bound on how often the pecker is stopped and continued
  MaxFaults        \* bound on all of them together

ASSUME RelayAssumption ==
  /\ Addrs = Ports \cup {Controller} /\ Controller \notin Ports
  /\ Payloads = Commands
  /\ NatTimeout \in Nat /\ NatKinds \subseteq BOOLEAN
  /\ MaxPerSecond \in Nat /\ MaxLost \in Nat /\ MaxRestarts \in Nat
  /\ MaxStops \in Nat /\ MaxFaults \in Nat

VARIABLES
  ext,       \* the pecker's external address, NoAddr before the first peck
  idle,      \* seconds since the NAT last saw the mapping used
  skipped,   \* history: since then a peck failed or was put off
  inbound,   \* do datagrams from outside count as use at this NAT?
  recent,    \* commands sent in this second
  wanted,    \* history: the last command sent that the pecker would carry out
  missed,    \* history: a command did not reach the pecker since then
  lost, restarts, stops

natVars == <<ext, idle, skipped, inbound>>
controllerVars == <<recent, wanted>>
faultVars == <<lost, restarts, stops>>
vars == <<pairVars, peckerVars, natVars, controllerVars, missed, faultVars>>

Init ==
  /\ PairInit /\ PeckerInit
  /\ ext = NoAddr /\ idle = 0 /\ skipped = FALSE /\ inbound \in NatKinds
  /\ recent = 0 /\ wanted = NoCommand /\ missed = FALSE
  /\ lost = 0 /\ restarts = 0 /\ stops = 0

EnoughFaults == lost + restarts + stops >= MaxFaults
Loses == ~EnoughFaults /\ lost < MaxLost /\ lost' = lost + 1

Alive == ext # NoAddr /\ idle <= NatTimeout

\* The NAT sees the mapping used.
Use == idle' = 0 /\ skipped' = FALSE

\* The pair moves on.  A command for a peer it does not know is gone.
Relays ==
  /\ PairStep
  /\ missed' = (missed \/ (turn = 1 /\ 1 \in rfds /\ peer[2] = NoAddr))
  /\ UNCHANGED <<peckerVars, natVars, controllerVars, faultVars>>

\* A datagram on its way to the pecker passes the NAT, or does not.
Deliver ==
  /\ out # <<>> /\ Depart
  /\ IF Alive /\ Head(out).to = ext
     THEN /\ sock' = Append(sock, Head(out).data)
          /\ IF inbound THEN Use ELSE UNCHANGED <<idle, skipped>>
          /\ UNCHANGED missed
     ELSE missed' = TRUE /\ UNCHANGED <<sock, idle, skipped>>
  /\ UNCHANGED <<silent, written, ext, inbound, controllerVars, faultVars>>

Lose ==
  /\ out # <<>> /\ Depart
  /\ Loses /\ missed' = TRUE
  /\ UNCHANGED <<peckerVars, natVars, controllerVars, restarts, stops>>

PeckerReceives ==
  /\ ReceiveCommand
  /\ UNCHANGED <<pairVars, natVars, controllerVars, missed, faultVars>>

PeckerStops ==
  /\ PeckerResumed
  /\ ~EnoughFaults /\ stops < MaxStops /\ stops' = stops + 1
  /\ skipped' = TRUE
  /\ UNCHANGED <<pairVars, ext, idle, inbound, controllerVars, missed, lost, restarts>>

\* A peck renews the mapping or opens one with any address; then it arrives
\* at the pair or is lost.
PeckerPecks ==
  /\ Peck
  /\ Use /\ IF Alive THEN UNCHANGED ext ELSE ext' \in Ports
  /\ \/ Arrive(2, ext', Empty) /\ UNCHANGED lost
     \/ Loses /\ UNCHANGED pairVars
  /\ UNCHANGED <<inbound, controllerVars, missed, restarts, stops>>

\* sendto fails, or the peck is lost before it comes to the NAT: the mapping is
\* not renewed, and the next peck is a whole period away.
PeckFails ==
  /\ Peck /\ Loses /\ skipped' = TRUE
  /\ UNCHANGED <<pairVars, ext, idle, inbound, controllerVars, missed, restarts, stops>>

SendCommand(c) ==
  /\ recent < MaxPerSecond /\ recent' = recent + 1
  /\ Arrive(1, Controller, c)
  /\ IF FdOf[c] \in {1} \cup (3..1000)
     THEN wanted' = c /\ missed' = FALSE ELSE UNCHANGED <<wanted, missed>>
  /\ UNCHANGED <<peckerVars, natVars, faultVars>>

\* The network damages a command.
SendDamaged ==
  /\ recent < MaxPerSecond /\ recent' = recent + 1
  /\ Arrive(1, Controller, Corrupt)
  /\ Loses /\ missed' = TRUE
  /\ UNCHANGED <<peckerVars, natVars, wanted, restarts, stops>>

\* udppair is started again, after it was killed or returned.
PairRestarts ==
  /\ \/ turn = 3 /\ UNCHANGED restarts
     \/ turn # 3 /\ ~EnoughFaults /\ restarts < MaxRestarts /\ restarts' = restarts + 1
  /\ turn' = 0 /\ rfds' = {} /\ peer' = [s \in Sides |-> NoAddr]
  /\ inq' = [s \in Sides |-> <<>>] /\ waited' = [s \in Sides |-> 0]
  /\ missed' = (missed \/ inq[1] # <<>>) /\ damaged' = FALSE
  /\ UNCHANGED <<out, peckerVars, natVars, controllerVars, lost, stops>>

Quiet == turn = 0 /\ inq = [s \in Sides |-> <<>>] /\ out = <<>> /\ sock = <<>>

Second ==
  /\ Quiet /\ PeckerWaits /\ PeckerTick
  /\ idle' = IF idle > NatTimeout THEN idle ELSE idle + 1
  /\ recent' = 0
  /\ UNCHANGED <<pairVars, ext, skipped, inbound, wanted, missed, faultVars>>

Progress == Relays \/ Deliver \/ PeckerReceives \/ PeckerPecks \/ Second

Next ==
  \/ Progress \/ Lose \/ SendDamaged \/ PairRestarts \/ PeckerStops \/ PeckFails
  \/ \E c \in Commands : SendCommand(c)

Spec == Init /\ [][Next]_vars

\* Readable sockets are served, datagrams that are not lost arrive, time passes;
\* whoever uses udppair starts it again when it has returned.
FairSpec == Spec /\ WF_vars(Progress \/ (turn = 3 /\ PairRestarts))

------------------------------------------------------------------------------
\* udpfilepecker pecks "to keep NAT connection alive" (README.md:59), but only
\* when no command came (udpfilepecker.c:18).  Where commands count as use, the
\* two together keep the mapping, and the pecker its address: it changes only if
\* since the last use a peck failed or the pecker was stopped.
KeepsUsedMapping ==
  [][inbound /\ ~skipped /\ ext # NoAddr => UNCHANGED ext]_vars

\* Pair and pecker have met, and nothing under way tells another address.
InTouch ==
  /\ ext # NoAddr /\ ~skipped /\ peer[2] = ext
  /\ \A i \in DOMAIN inq[2] : inq[2][i].from = ext
  /\ \A i \in DOMAIN out : out[i].to = ext

\* There the two stay in touch, and no command is missed while they are, but for
\* a fault in this very step or an end of the pair (udppair.c:75-105); no earlier
\* loss, restart or stop shows later.
MissedForCause ==
  [][inbound /\ InTouch /\ turn # 3 /\ UNCHANGED faultVars
       => InTouch' /\ (missed' => missed)]_vars

\* When nothing is under way the pecker has carried out the last valid
\* command, unless a command was missed, whatever invalid ones came between.
InSync == Quiet /\ ~missed => written = wanted

\* Neither commands nor stops of the pecker keep the two apart for good: without
\* a mapping the pecker hears nothing and pecks, and the pair follows it to the
\* new address.
Reconnects == []<>(Alive /\ peer[2] = ext)
==============================================================================
