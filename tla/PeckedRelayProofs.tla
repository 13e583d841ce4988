-------------------------- MODULE PeckedRelayProofs --------------------------
(***************************************************************************)
(* udppair and udpfilepecker behind a NAT: neither socket of the pair      *)
(* starves, the pair stops for damaged datagrams only, the pecker carries  *)
(* out what was sent last, and commands and pecks keep the mapping.        *)
(*                                                                         *)
(* The argument about commands: they wait in three places, the pair's      *)
(* socket 1, the network and the pecker's socket, and keep their order.    *)
(* What the pecker will have carried out when the three are empty stays    *)
(* the same while a command moves from one to the next.                    *)
(***************************************************************************)
EXTENDS PeckedRelay, SequenceTheorems, TLAPS

Datagram == [from : Addrs, data : Payloads \cup {Empty, Corrupt}]
Sent == [side : Sides, to : Addrs, data : Payloads]

PairTypeOK ==
  /\ turn \in 0..3 /\ rfds \in SUBSET Sides
  /\ peer \in [Sides -> Addrs \cup {NoAddr}]
  /\ inq \in [Sides -> Seq(Datagram)] /\ out \in Seq(Sent)
  /\ waited \in [Sides -> Nat] /\ damaged \in BOOLEAN

\* What select found readable stays readable until its block, unless it was
\* damaged.
SelectedRight ==
  /\ turn \in {1, 2} => \A s \in rfds : s >= turn => inq[s] # <<>> \/ damaged
  /\ turn = 3 => damaged

\* A socket that was overtaken is readable, and after the next select served.
WaitedRight ==
  /\ waited[1] <= 1 /\ waited[2] <= 2
  /\ turn = 0 => /\ waited[2] <= 1
                 /\ \A s \in Sides : waited[s] > 0 => inq[s] # <<>>
  /\ turn = 1 => waited[2] <= 1 /\ \A s \in Sides : waited[s] > 0 => s \in rfds
  /\ turn = 2 => /\ waited[1] = 0
                 /\ waited[2] > 1 => 2 \in rfds
                 /\ waited[2] > 0 => 2 \in rfds \/ inq[2] # <<>>

PairInv == PairTypeOK /\ SelectedRight /\ WaitedRight

Written == Commands \cup {NoCommand}

TypeOK ==
  /\ PairTypeOK
  /\ sock \in Seq(Commands) /\ silent \in 0..Period /\ written \in Written
  /\ ext \in Ports \cup {NoAddr} /\ idle \in Nat
  /\ skipped \in BOOLEAN /\ inbound \in BOOLEAN
  /\ recent \in Nat /\ wanted \in Written /\ missed \in BOOLEAN
  /\ lost \in Nat /\ restarts \in Nat /\ stops \in Nat

\* The controller sends commands to socket 1, the pecker pecks to socket 2.
Contents ==
  /\ \A i \in 1..Len(inq[1]) : inq[1][i].data # Empty
  /\ \A i \in 1..Len(inq[2]) : inq[2][i].data = Empty

Valid(c) == c \in Commands /\ Allowed(c)
CarryOut(w, c) == IF Valid(c) THEN c ELSE w

\* After d[1], ..., d[n] the last command carried out is w, if it was b before.
Yields(d, n, b, w) ==
  \/ \E i \in 1..n : Valid(d[i]) /\ w = d[i] /\ \A j \in 1..n : i < j => ~Valid(d[j])
  \/ w = b /\ \A i \in 1..n : ~Valid(d[i])

Data(s) == [i \in 1..Len(s) |-> s[i].data]

\* Unless one was missed, the commands under way end in the one wanted.
CommandsInOrder ==
  \E x, y, z \in Written :
    /\ Yields(sock, Len(sock), written, x)
    /\ Yields(Data(out), Len(out), x, y)
    /\ Yields(Data(inq[1]), Len(inq[1]), y, z)
    /\ ~missed => z = wanted

\* Where commands count as use the mapping is no older than the silence, unless
\* the pecker has failed to renew it since.
Used == inbound /\ ~skipped
MappingUsed ==
  /\ Used /\ ext # NoAddr => idle <= silent
  /\ Used /\ sock # <<>> => idle = 0

IInv ==
  /\ TypeOK /\ SelectedRight /\ WaitedRight
  /\ Contents /\ CommandsInOrder /\ MappingUsed

------------------------------------------------------------------------------
(* The pair, whatever its network sends and whoever starts it again.        *)

Restarted ==
  /\ turn' = 0 /\ rfds' = {} /\ peer' = [s \in Sides |-> NoAddr]
  /\ inq' = [s \in Sides |-> <<>>] /\ waited' = [s \in Sides |-> 0]
  /\ damaged' = FALSE /\ UNCHANGED out

PairNext ==
  \/ PairStep
  \/ \E s \in Sides, a \in Addrs, d \in Payloads \cup {Empty, Corrupt} : Arrive(s, a, d)
  \/ Depart \/ Restarted
  \/ UNCHANGED pairVars

\* Constants, and what the sequences of the pair become.
LEMMA SidesFact == \A s \in Sides : Other(s) \in Sides /\ Other(s) # s /\ After(s) \in {0, 2}
                                    /\ (s = 1 => Other(s) = 2) /\ (s = 2 => Other(s) = 1)
  BY DEF Sides, Other, After

LEMMA HeadIn ==
  ASSUME PairTypeOK, NEW s \in Sides, inq[s] # <<>>
  PROVE  /\ Head(inq[s]) \in Datagram /\ Head(inq[s]) = inq[s][1]
         /\ Tail(inq[s]) \in Seq(Datagram)
         /\ Len(inq[s]) \in Nat /\ Len(inq[s]) > 0 /\ Len(Tail(inq[s])) = Len(inq[s]) - 1
         /\ \A i \in 1..Len(Tail(inq[s])) :
              i + 1 \in 1..Len(inq[s]) /\ Tail(inq[s])[i] = inq[s][i + 1]
  <1>1. inq[s] \in Seq(Datagram)
    BY DEF PairTypeOK
  <1>. HIDE DEF Datagram
  <1>. QED BY <1>1, HeadTailProperties, LenProperties, EmptySeq

LEMMA HeadOut ==
  ASSUME PairTypeOK, out # <<>>
  PROVE  /\ Head(out) \in Sent /\ Head(out) = out[1] /\ Tail(out) \in Seq(Sent)
         /\ Len(out) \in Nat /\ Len(out) > 0 /\ Len(Tail(out)) = Len(out) - 1
         /\ \A i \in 1..Len(Tail(out)) : i + 1 \in 1..Len(out) /\ Tail(out)[i] = out[i + 1]
  <1>1. out \in Seq(Sent)
    BY DEF PairTypeOK
  <1>. HIDE DEF Sent
  <1>. QED BY <1>1, HeadTailProperties, LenProperties, EmptySeq

LEMMA ArriveSeq ==
  ASSUME PairTypeOK, NEW s \in Sides, NEW a \in Addrs,
         NEW d \in Payloads \cup {Empty, Corrupt}, Arrive(s, a, d)
  PROVE  /\ Len(inq[s]) \in Nat /\ inq'[s] \in Seq(Datagram)
         /\ Len(inq'[s]) = Len(inq[s]) + 1
         /\ \A i \in 1..Len(inq'[s]) : i \in 1..Len(inq[s]) \/ i = Len(inq[s]) + 1
         /\ \A i \in 1..Len(inq[s]) : inq'[s][i] = inq[s][i]
         /\ inq'[s][Len(inq[s]) + 1].from = a /\ inq'[s][Len(inq[s]) + 1].data = d
         /\ \A t \in Sides : t # s => inq'[t] = inq[t]
         /\ \A t \in Sides : inq[t] # <<>> => inq'[t] # <<>>
  <1>. DEFINE m == [from |-> a, data |-> d]
  <1>1. m \in Datagram /\ inq[s] \in Seq(Datagram) /\ m.from = a /\ m.data = d
    BY DEF Datagram, PairTypeOK
  <1>2. inq' = [inq EXCEPT ![s] = Append(inq[s], m)]
    BY <1>1 DEF Arrive
  <1>3. inq'[s] = Append(inq[s], m) /\ \A t \in Sides : t # s => inq'[t] = inq[t]
    BY <1>2 DEF PairTypeOK
  <1>. HIDE DEF m, Datagram
  <1>4. /\ Len(inq[s]) \in Nat /\ inq'[s] \in Seq(Datagram)
        /\ Len(inq'[s]) = Len(inq[s]) + 1
        /\ \A i \in 1..Len(inq'[s]) : i \in 1..Len(inq[s]) \/ i = Len(inq[s]) + 1
        /\ \A i \in 1..Len(inq[s]) : inq'[s][i] = inq[s][i]
        /\ inq'[s][Len(inq[s]) + 1] = m
    BY <1>1, <1>3, AppendProperties, LenProperties
  <1>5. inq'[s] # <<>>
    BY <1>4, EmptySeq
  <1>. QED BY <1>1, <1>3, <1>4, <1>5

\* Every step of the pair keeps its types.
LEMMA PairTypeStep ==
  ASSUME PairTypeOK, PairNext
  PROVE  PairTypeOK'
  <1>1. CASE Select
    BY <1>1 DEF Select, PairTypeOK, Sides
  <1>2. ASSUME NEW s \in Sides, Skip(s)
        PROVE  PairTypeOK'
    BY <1>2, SidesFact DEF Skip, PairTypeOK
  <1>3. ASSUME NEW s \in Sides, Relay(s)
        PROVE  PairTypeOK'
    <2>. DEFINE m == Head(inq[s])
    <2>1. m \in Datagram /\ Tail(inq[s]) \in Seq(Datagram) /\ m.data # Corrupt
      BY <1>3, HeadIn DEF Relay
    <2>2. m.from \in Addrs /\ (m.data # Empty => m.data \in Payloads)
      BY <2>1 DEF Datagram
    <2>3. /\ peer' = [peer EXCEPT ![s] = m.from]
          /\ out' = IF m.data = Empty \/ peer[Other(s)] = NoAddr THEN out
                    ELSE Append(out, [side |-> Other(s), to |-> peer[Other(s)],
                                      data |-> m.data])
          /\ inq' = [inq EXCEPT ![s] = Tail(@)]
      BY <1>3 DEF Relay, Heard
    <2>. HIDE DEF m
    <2>4. peer' \in [Sides -> Addrs \cup {NoAddr}]
      BY <2>2, <2>3 DEF PairTypeOK
    <2>5. out' \in Seq(Sent)
      <3>1. CASE m.data = Empty \/ peer[Other(s)] = NoAddr
        BY <2>3, <3>1 DEF PairTypeOK
      <3>2. CASE ~(m.data = Empty \/ peer[Other(s)] = NoAddr)
        <4>. DEFINE o == [side |-> Other(s), to |-> peer[Other(s)], data |-> m.data]
        <4>1. o \in Sent
          BY <2>2, <3>2, SidesFact DEF Sent, PairTypeOK
        <4>2. out \in Seq(Sent) /\ out' = Append(out, o)
          BY <2>3, <3>2 DEF PairTypeOK
        <4>. HIDE DEF o, Sent
        <4>. QED BY <4>1, <4>2, AppendProperties
      <3>. QED BY <3>1, <3>2
    <2>6. inq' \in [Sides -> Seq(Datagram)]
      <3>. HIDE DEF Datagram
      <3>. QED BY <2>1, <2>3 DEF PairTypeOK
    <2>7. waited' \in [Sides -> Nat]
      <3>1. waited' = [waited EXCEPT ![s] = 0,
                         ![Other(s)] = IF inq[Other(s)] # <<>> THEN @ + 1 ELSE 0]
        BY <1>3 DEF Relay
      <3>2. waited \in [Sides -> Nat] /\ Other(s) \in Sides /\ Other(s) # s
        BY SidesFact DEF PairTypeOK
      <3>3. (IF inq[Other(s)] # <<>> THEN waited[Other(s)] + 1 ELSE 0) \in Nat
        BY <3>2
      <3>. DEFINE v == IF inq[Other(s)] # <<>> THEN waited[Other(s)] + 1 ELSE 0
      <3>4. waited' = [waited EXCEPT ![s] = 0, ![Other(s)] = v]
        BY <3>1, <3>2
      <3>. HIDE DEF v
      <3>. QED BY <3>2, <3>3, <3>4 DEF v
    <2>8. turn' \in 0..3 /\ UNCHANGED <<rfds, damaged>>
      BY <1>3, SidesFact DEF Relay
    <2>. QED BY <2>4, <2>5, <2>6, <2>7, <2>8 DEF PairTypeOK
  <1>4. ASSUME NEW s \in Sides, DropCorrupt(s)
        PROVE  PairTypeOK'
    <2>1. Tail(inq[s]) \in Seq(Datagram)
      BY <1>4, HeadIn DEF DropCorrupt
    <2>. HIDE DEF Datagram
    <2>2. inq' \in [Sides -> Seq(Datagram)]
      BY <1>4, <2>1 DEF DropCorrupt, PairTypeOK
    <2>3. damaged' \in BOOLEAN
      <3>1. damaged' = TRUE
        BY <1>4 DEF DropCorrupt
      <3>. QED BY <3>1
    <2>. QED BY <1>4, <2>2, <2>3 DEF DropCorrupt, PairTypeOK
  <1>5. ASSUME NEW s \in Sides, NothingThere(s)
        PROVE  PairTypeOK'
    BY <1>5 DEF NothingThere, PairTypeOK
  <1>6. ASSUME NEW s \in Sides, NEW a \in Addrs, NEW d \in Payloads \cup {Empty, Corrupt},
               Arrive(s, a, d)
        PROVE  PairTypeOK'
    <2>. DEFINE m == [from |-> a, data |-> d]
    <2>1. m \in Datagram /\ inq[s] \in Seq(Datagram)
      BY DEF Datagram, PairTypeOK
    <2>2. inq' = [inq EXCEPT ![s] = Append(@, m)]
      BY <1>6 DEF Arrive
    <2>. HIDE DEF m, Datagram
    <2>3. Append(inq[s], m) \in Seq(Datagram)
      BY <2>1, AppendProperties
    <2>4. inq' \in [Sides -> Seq(Datagram)]
      BY <2>2, <2>3 DEF PairTypeOK
    <2>. QED BY <1>6, <2>4 DEF Arrive, PairTypeOK
  <1>7. CASE Depart
    BY <1>7, HeadOut DEF Depart, PairTypeOK
  <1>8. CASE Restarted
    <2>1. <<>> \in Seq(Datagram)
      BY EmptySeq
    <2>2. damaged' \in BOOLEAN
      <3>1. damaged' = FALSE
        BY <1>8 DEF Restarted
      <3>. QED BY <3>1
    <2>. QED BY <1>8, <2>1, <2>2 DEF Restarted, PairTypeOK
  <1>9. CASE UNCHANGED pairVars
    BY <1>9 DEF PairTypeOK, pairVars
  <1>. QED BY <1>1, <1>2, <1>3, <1>4, <1>5, <1>6, <1>7, <1>8, <1>9 DEF PairNext, PairStep

\* And that what is in rfds is readable: nobody but the block of a socket takes
\* datagrams from it.
LEMMA SelectedStep ==
  ASSUME PairTypeOK, SelectedRight, PairNext
  PROVE  SelectedRight'
  <1>1. CASE Select
    BY <1>1 DEF Select, SelectedRight
  <1>2. ASSUME NEW s \in Sides, Skip(s)
        PROVE  SelectedRight'
    BY <1>2 DEF Skip, SelectedRight, After, Sides, PairTypeOK
  <1>3. ASSUME NEW s \in Sides, Relay(s)
        PROVE  SelectedRight'
    <2>1. \A t \in Sides : t # s => inq'[t] = inq[t]
      BY <1>3 DEF Relay, PairTypeOK
    <2>2. turn = s /\ turn' = After(s) /\ UNCHANGED <<rfds, damaged>>
      BY <1>3 DEF Relay
    <2>. QED BY <2>1, <2>2 DEF SelectedRight, After, Sides, PairTypeOK
  <1>4. ASSUME NEW s \in Sides, DropCorrupt(s)
        PROVE  SelectedRight'
    BY <1>4 DEF DropCorrupt, SelectedRight
  <1>5. ASSUME NEW s \in Sides, NothingThere(s)
        PROVE  SelectedRight'
    BY <1>5 DEF NothingThere, SelectedRight, Sides
  <1>6. ASSUME NEW s \in Sides, NEW a \in Addrs, NEW d \in Payloads \cup {Empty, Corrupt},
               Arrive(s, a, d)
        PROVE  SelectedRight'
    <2>1. \A t \in Sides : inq[t] # <<>> => inq'[t] # <<>>
      BY <1>6, ArriveSeq
    <2>2. UNCHANGED <<turn, rfds, damaged>>
      BY <1>6 DEF Arrive
    <2>. QED BY <2>1, <2>2 DEF SelectedRight, PairTypeOK
  <1>7. CASE Depart \/ UNCHANGED pairVars
    BY <1>7 DEF Depart, SelectedRight, pairVars
  <1>8. CASE Restarted
    BY <1>8 DEF Restarted, SelectedRight
  <1>. QED BY <1>1, <1>2, <1>3, <1>4, <1>5, <1>6, <1>7, <1>8 DEF PairNext, PairStep

\* And who waits: a datagram that comes after select found its socket empty is
\* seen by the next one.
LEMMA WaitedStep ==
  ASSUME PairTypeOK, WaitedRight, PairNext
  PROVE  WaitedRight'
  <1>0. /\ waited[1] \in Nat /\ waited[2] \in Nat /\ rfds \in SUBSET {1, 2}
        /\ turn \in 0..3 /\ 1 \in Sides /\ 2 \in Sides
    BY DEF PairTypeOK, Sides
  <1>1. CASE Select
    BY <1>0, <1>1 DEF Select, WaitedRight, Sides
  <1>2. ASSUME NEW s \in Sides, Skip(s)
        PROVE  WaitedRight'
    BY <1>0, <1>2 DEF Skip, WaitedRight, After, Sides
  <1>3. ASSUME NEW s \in Sides, Relay(s)
        PROVE  WaitedRight'
    <2>1. turn = s /\ s \in rfds /\ turn' = After(s) /\ rfds' = rfds
      BY <1>3 DEF Relay
    <2>2. /\ waited'[s] = 0
          /\ waited'[Other(s)] = IF inq[Other(s)] # <<>> THEN waited[Other(s)] + 1 ELSE 0
      BY <1>3, SidesFact DEF Relay, PairTypeOK
    <2>3. inq'[Other(s)] = inq[Other(s)]
      BY <1>3, SidesFact DEF Relay, PairTypeOK
    <2>4. CASE s = 1
      BY <1>0, <2>1, <2>2, <2>3, <2>4 DEF WaitedRight, After, Other, Sides
    <2>5. CASE s = 2
      BY <1>0, <2>1, <2>2, <2>3, <2>5 DEF WaitedRight, After, Other, Sides
    <2>. QED BY <2>4, <2>5 DEF Sides
  <1>4. ASSUME NEW s \in Sides, DropCorrupt(s)
        PROVE  WaitedRight'
    <2>1. turn = s /\ s \in rfds /\ UNCHANGED <<turn, rfds, waited>>
      BY <1>4 DEF DropCorrupt
    <2>2. \A t \in Sides : t # s => inq'[t] = inq[t]
      BY <1>4 DEF DropCorrupt, PairTypeOK
    <2>. QED BY <1>0, <2>1, <2>2 DEF WaitedRight, Sides
  <1>5. ASSUME NEW s \in Sides, NothingThere(s)
        PROVE  WaitedRight'
    BY <1>0, <1>5 DEF NothingThere, WaitedRight
  <1>6. ASSUME NEW s \in Sides, NEW a \in Addrs, NEW d \in Payloads \cup {Empty, Corrupt},
               Arrive(s, a, d)
        PROVE  WaitedRight'
    <2>1. \A t \in Sides : inq[t] # <<>> => inq'[t] # <<>>
      BY <1>6, ArriveSeq
    <2>2. UNCHANGED <<turn, rfds, waited>>
      BY <1>6 DEF Arrive
    <2>. QED BY <1>0, <2>1, <2>2 DEF WaitedRight
  <1>7. CASE Depart \/ UNCHANGED pairVars
    BY <1>7 DEF Depart, WaitedRight, pairVars
  <1>8. CASE Restarted
    <2>1. waited'[1] = 0 /\ waited'[2] = 0 /\ turn' = 0
      BY <1>0, <1>8 DEF Restarted
    <2>. QED BY <2>1 DEF WaitedRight, Sides
  <1>. QED BY <1>1, <1>2, <1>3, <1>4, <1>5, <1>6, <1>7, <1>8 DEF PairNext, PairStep

\* All three together.
LEMMA PairStepInv ==
  ASSUME PairInv, PairNext
  PROVE  PairInv'
  BY PairTypeStep, SelectedStep, WaitedStep DEF PairInv

------------------------------------------------------------------------------
(* The pair in the whole.                                                   *)

\* The constants of the three modules.
LEMMA RelayConstants ==
  /\ Ports \subseteq Addrs /\ Controller \in Addrs /\ NoAddr \notin Addrs
  /\ Controller \notin Ports /\ Payloads = Commands
  /\ Empty \notin Commands /\ Corrupt \notin Commands
  /\ Period \in Nat \ {0} /\ NatTimeout \in Nat
  BY PairAssumption, PeckerAssumption, RelayAssumption

\* A peck as the pair and the NAT see it.
LEMMA PeckAddress ==
  ASSUME TypeOK, PeckerPecks
  PROVE  ext' \in Ports
  BY DEF TypeOK, PeckerPecks, Alive

\* What happens in the whole is a step of the pair or of its network.
LEMMA PairActs ==
  ASSUME TypeOK, [Next]_vars
  PROVE  PairNext
  <1>1. CASE Relays
    BY <1>1 DEF Relays, PairNext
  <1>2. CASE Deliver \/ Lose
    BY <1>2 DEF Deliver, Lose, PairNext
  <1>3. CASE PeckerReceives \/ PeckerStops \/ PeckFails \/ Second \/ UNCHANGED vars
    BY <1>3 DEF PeckerReceives, PeckerStops, PeckFails, Second, PairNext, vars
  <1>4. CASE PeckerPecks
    <2>1. Arrive(2, ext', Empty) \/ UNCHANGED pairVars
      BY <1>4 DEF PeckerPecks
    <2>2. ext' \in Addrs /\ 2 \in Sides /\ Empty \in Payloads \cup {Empty, Corrupt}
      BY <1>4, PeckAddress, RelayConstants DEF Sides
    <2>. QED BY <2>1, <2>2 DEF PairNext
  <1>5. ASSUME NEW c \in Commands, SendCommand(c)
        PROVE  PairNext
    <2>1. Arrive(1, Controller, c) /\ c \in Payloads /\ Controller \in Addrs /\ 1 \in Sides
      BY <1>5, RelayConstants DEF SendCommand, Sides
    <2>. QED BY <2>1 DEF PairNext
  <1>6. CASE SendDamaged
    <2>1. Arrive(1, Controller, Corrupt) /\ Controller \in Addrs /\ 1 \in Sides
      BY <1>6, RelayConstants DEF SendDamaged, Sides
    <2>. QED BY <2>1 DEF PairNext
  <1>7. CASE PairRestarts
    BY <1>7 DEF PairRestarts, PairNext, Restarted
  <1>. QED BY <1>1, <1>2, <1>3, <1>4, <1>5, <1>6, <1>7 DEF Next, Progress

\* The first command in the pecker's socket.
LEMMA HeadSock ==
  ASSUME sock \in Seq(Commands), sock # <<>>
  PROVE  /\ Head(sock) \in Commands /\ Head(sock) = sock[1] /\ Tail(sock) \in Seq(Commands)
         /\ Len(sock) \in Nat /\ Len(sock) > 0 /\ Len(Tail(sock)) = Len(sock) - 1
         /\ \A i \in 1..Len(Tail(sock)) : i + 1 \in 1..Len(sock) /\ Tail(sock)[i] = sock[i + 1]
  BY HeadTailProperties, LenProperties, EmptySeq

\* A datagram passes the NAT.
LEMMA Passes ==
  ASSUME TypeOK, Deliver, Alive, Head(out).to = ext
  PROVE  /\ Len(sock) \in Nat /\ sock' \in Seq(Commands) /\ Len(sock') = Len(sock) + 1
         /\ \A i \in 1..Len(sock') : i \in 1..Len(sock) \/ i = Len(sock) + 1
         /\ \A i \in 1..Len(sock) : sock'[i] = sock[i]
         /\ sock'[Len(sock) + 1] = out[1].data
  <1>1. out # <<>> /\ sock' = Append(sock, Head(out).data)
    BY DEF Deliver
  <1>2. Head(out) \in Sent /\ Head(out) = out[1]
    BY <1>1, HeadOut DEF TypeOK
  <1>3. Head(out).data \in Commands
    BY <1>2, RelayConstants DEF Sent
  <1>4. sock \in Seq(Commands)
    BY DEF TypeOK
  <1>. DEFINE d == Head(out).data
  <1>5. d \in Commands /\ sock' = Append(sock, d) /\ d = out[1].data
    BY <1>1, <1>2, <1>3
  <1>. HIDE DEF d
  <1>. QED BY <1>4, <1>5, AppendProperties, LenProperties

\* Every step keeps the types.
LEMMA TypeStep ==
  ASSUME TypeOK, [Next]_vars
  PROVE  TypeOK'
  <1>0. PairTypeOK'
    BY PairActs, PairTypeStep DEF TypeOK
  <1>1. CASE Relays
    <2>1. missed' \in BOOLEAN
      BY <1>1 DEF Relays, TypeOK
    <2>. QED BY <1>0, <1>1, <2>1
      DEF Relays, TypeOK, peckerVars, natVars, controllerVars, faultVars
  <1>2. CASE Deliver
    <2>1. /\ sock' \in Seq(Commands) /\ idle' \in Nat /\ missed' \in BOOLEAN
          /\ skipped' \in BOOLEAN
      <3>1. CASE Alive /\ Head(out).to = ext
        <4>1. /\ (idle' = 0 /\ skipped' = FALSE) \/ UNCHANGED <<idle, skipped>>
              /\ missed' = missed
          BY <1>2, <3>1 DEF Deliver, Use
        <4>2. idle' \in Nat /\ missed' \in BOOLEAN
          BY <4>1 DEF TypeOK
        <4>3. skipped' \in BOOLEAN
          <5>1. skipped \in BOOLEAN
            BY DEF TypeOK
          <5>. QED BY <4>1, <5>1, Zenon
        <4>. QED BY <1>2, <3>1, <4>2, <4>3, Passes
      <3>2. CASE ~(Alive /\ Head(out).to = ext)
        <4>1. missed' = TRUE /\ UNCHANGED <<sock, idle, skipped>>
          BY <1>2, <3>2 DEF Deliver
        <4>. QED BY <4>1 DEF TypeOK
      <3>. QED BY <3>1, <3>2
    <2>. QED BY <1>0, <1>2, <2>1 DEF Deliver, TypeOK, controllerVars, faultVars
  <1>3. CASE Lose
    <2>1. missed' = TRUE /\ lost' = lost + 1
      BY <1>3 DEF Lose, Loses
    <2>. QED BY <1>0, <1>3, <2>1 DEF Lose, TypeOK, peckerVars, natVars, controllerVars
  <1>4. CASE PeckerReceives
    <2>1. sock # <<>> /\ sock' = Tail(sock) /\ silent' = 0
          /\ written' \in {Head(sock), written}
      BY <1>4 DEF PeckerReceives, ReceiveCommand
    <2>2. sock' \in Seq(Commands) /\ Head(sock) \in Commands
      BY <2>1, HeadSock DEF TypeOK
    <2>3. written' \in Written /\ silent' \in 0..Period
      BY <2>1, <2>2, RelayConstants DEF TypeOK, Written
    <2>. QED BY <1>0, <1>4, <2>2, <2>3
      DEF PeckerReceives, TypeOK, natVars, controllerVars, faultVars
  <1>5. CASE PeckerStops
    <2>1. silent' \in 0..Period /\ stops' \in Nat /\ UNCHANGED <<sock, written>>
      BY <1>5, RelayConstants DEF PeckerStops, PeckerResumed, TypeOK
    <2>2. skipped' = TRUE
      BY <1>5 DEF PeckerStops
    <2>. QED BY <1>0, <1>5, <2>1, <2>2 DEF PeckerStops, TypeOK, controllerVars
  <1>6. CASE PeckerPecks
    <2>1. silent' \in 0..Period /\ UNCHANGED <<sock, written>>
      BY <1>6, RelayConstants DEF PeckerPecks, Peck
    <2>2. ext' \in Ports \cup {NoAddr} /\ idle' \in Nat /\ skipped' = FALSE
      BY <1>6, PeckAddress DEF PeckerPecks, Use
    <2>3. lost' \in Nat
      BY <1>6 DEF PeckerPecks, Loses, TypeOK
    <2>. QED BY <1>0, <1>6, <2>1, <2>2, <2>3 DEF PeckerPecks, TypeOK, controllerVars
  <1>7. ASSUME NEW c \in Commands, SendCommand(c)
        PROVE  TypeOK'
    <2>1. wanted' \in Written /\ recent' \in Nat
      BY <1>7 DEF SendCommand, TypeOK, Written
    <2>2. missed' \in BOOLEAN
      <3>1. missed' = FALSE \/ missed' = missed
        BY <1>7 DEF SendCommand
      <3>. QED BY <3>1 DEF TypeOK
    <2>. QED BY <1>0, <1>7, <2>1, <2>2 DEF SendCommand, TypeOK, peckerVars, natVars, faultVars
  <1>8. CASE SendDamaged
    <2>1. missed' = TRUE /\ lost' = lost + 1 /\ recent' = recent + 1
      BY <1>8 DEF SendDamaged, Loses
    <2>. QED BY <1>0, <1>8, <2>1 DEF SendDamaged, TypeOK, peckerVars, natVars
  <1>9. CASE PairRestarts
    <2>1. restarts' \in Nat
      BY <1>9 DEF PairRestarts, TypeOK
    <2>2. missed' \in BOOLEAN
      BY <1>9 DEF PairRestarts, TypeOK
    <2>. QED BY <1>0, <1>9, <2>1, <2>2
      DEF PairRestarts, TypeOK, peckerVars, natVars, controllerVars
  <1>10. CASE Second
    <2>1. silent' \in 0..Period /\ UNCHANGED <<sock, written>>
      BY <1>10, RelayConstants DEF Second, PeckerWaits, PeriodOver, PeckerTick, TypeOK
    <2>2. idle' \in Nat /\ recent' \in Nat
      BY <1>10 DEF Second, TypeOK
    <2>. QED BY <1>0, <1>10, <2>1, <2>2 DEF Second, TypeOK, faultVars
  <1>11. CASE UNCHANGED vars
    BY <1>0, <1>11 DEF TypeOK, vars, peckerVars, natVars, controllerVars, faultVars
  <1>12. CASE PeckFails
    <2>1. silent' \in 0..Period /\ UNCHANGED <<sock, written>>
      BY <1>12, RelayConstants DEF PeckFails, Peck
    <2>2. skipped' = TRUE /\ lost' \in Nat
      BY <1>12 DEF PeckFails, Loses, TypeOK
    <2>. QED BY <1>0, <1>12, <2>1, <2>2 DEF PeckFails, TypeOK, controllerVars
  <1>. QED BY <1>1, <1>2, <1>3, <1>4, <1>5, <1>6, <1>7, <1>8, <1>9, <1>10, <1>11, <1>12
    DEF Next, Progress

\* The blocks of the two sockets in the whole: commands pass, pecks do not.
LEMMA RelayCommand ==
  ASSUME TypeOK, Contents, Relay(1)
  PROVE  /\ inq[1][1].data \in Commands
         /\ Len(inq[1]) \in Nat /\ Len(inq[1]) > 0 /\ Len(inq'[1]) = Len(inq[1]) - 1
         /\ \A i \in 1..Len(inq'[1]) : i + 1 \in 1..Len(inq[1]) /\ inq'[1][i] = inq[1][i + 1]
         /\ inq'[2] = inq[2] /\ peer'[2] = peer[2]
         /\ peer[2] = NoAddr => out' = out
         /\ peer[2] # NoAddr =>
              /\ Len(out) \in Nat /\ Len(out') = Len(out) + 1
              /\ \A i \in 1..Len(out') : i \in 1..Len(out) \/ i = Len(out) + 1
              /\ \A i \in 1..Len(out) : out'[i] = out[i]
              /\ out'[Len(out) + 1].data = inq[1][1].data
              /\ out'[Len(out) + 1].to = peer[2]
  <1>0. 1 \in Sides /\ 2 \in Sides /\ Other(1) = 2 /\ PairTypeOK /\ inq[1] # <<>>
    BY DEF Sides, Other, TypeOK, Relay
  <1>. DEFINE m == Head(inq[1])
  <1>1. m = inq[1][1] /\ m \in Datagram /\ m.data # Corrupt
    BY <1>0, HeadIn DEF Relay
  <1>2. m.data # Empty
    BY <1>0, <1>1, HeadIn DEF Contents
  <1>3. m.data \in Commands
    BY <1>1, <1>2, RelayConstants DEF Datagram
  <1>4. /\ Len(inq[1]) \in Nat /\ Len(inq[1]) > 0 /\ Len(inq'[1]) = Len(inq[1]) - 1
        /\ \A i \in 1..Len(inq'[1]) : i + 1 \in 1..Len(inq[1]) /\ inq'[1][i] = inq[1][i + 1]
        /\ inq'[2] = inq[2]
    <2>1. inq'[1] = Tail(inq[1]) /\ inq'[2] = inq[2]
      BY <1>0 DEF Relay, PairTypeOK
    <2>. HIDE DEF Datagram
    <2>. QED BY <1>0, <2>1, HeadIn
  <1>5. peer'[2] = peer[2]
    BY <1>0 DEF Relay, Heard, PairTypeOK
  <1>. DEFINE o == [side |-> 2, to |-> peer[2], data |-> m.data]
  <1>6. out' = IF peer[2] = NoAddr THEN out ELSE Append(out, o)
    BY <1>0, <1>2 DEF Relay
  <1>7. o.data = m.data /\ o.to = peer[2]
    OBVIOUS
  <1>8. peer[2] # NoAddr => o \in Sent
    BY <1>0, <1>3, RelayConstants DEF Sent, PairTypeOK
  <1>9. out \in Seq(Sent)
    BY <1>0 DEF PairTypeOK
  <1>. HIDE DEF m, o, Sent
  <1>10. peer[2] # NoAddr =>
           /\ Len(out) \in Nat /\ Len(out') = Len(out) + 1
           /\ \A i \in 1..Len(out') : i \in 1..Len(out) \/ i = Len(out) + 1
           /\ \A i \in 1..Len(out) : out'[i] = out[i]
           /\ out'[Len(out) + 1] = o
    BY <1>6, <1>8, <1>9, AppendProperties, LenProperties
  <1>. QED BY <1>1, <1>3, <1>4, <1>5, <1>6, <1>7, <1>10

LEMMA RelayPeck ==
  ASSUME TypeOK, Contents, Relay(2)
  PROVE  /\ Len(inq[2]) \in Nat /\ Len(inq[2]) > 0 /\ Len(inq'[2]) = Len(inq[2]) - 1
         /\ \A i \in 1..Len(inq'[2]) : i + 1 \in 1..Len(inq[2]) /\ inq'[2][i] = inq[2][i + 1]
         /\ inq'[1] = inq[1] /\ peer'[2] = inq[2][1].from /\ out' = out
  <1>0. 1 \in Sides /\ 2 \in Sides /\ PairTypeOK /\ inq[2] # <<>>
    BY DEF Sides, TypeOK, Relay
  <1>1. Head(inq[2]) = inq[2][1] /\ Len(inq[2]) \in Nat /\ Len(inq[2]) > 0
    BY <1>0, HeadIn
  <1>2. Head(inq[2]).data = Empty
    BY <1>1 DEF Contents
  <1>3. out' = out
    BY <1>2 DEF Relay
  <1>4. peer'[2] = inq[2][1].from
    BY <1>0, <1>1 DEF Relay, Heard, PairTypeOK
  <1>5. inq'[2] = Tail(inq[2]) /\ inq'[1] = inq[1]
    BY <1>0 DEF Relay, PairTypeOK
  <1>6. /\ Len(inq'[2]) = Len(inq[2]) - 1
        /\ \A i \in 1..Len(inq'[2]) : i + 1 \in 1..Len(inq[2]) /\ inq'[2][i] = inq[2][i + 1]
    <2>. HIDE DEF Datagram
    <2>. QED BY <1>0, <1>5, HeadIn
  <1>. QED BY <1>1, <1>3, <1>4, <1>5, <1>6

\* Damaged datagrams come in by socket 1 only.
LEMMA DropDamaged ==
  ASSUME TypeOK, Contents, NEW s \in Sides, DropCorrupt(s)
  PROVE  /\ s = 1 /\ inq[1][1].data = Corrupt
         /\ Len(inq[1]) \in Nat /\ Len(inq[1]) > 0 /\ Len(inq'[1]) = Len(inq[1]) - 1
         /\ \A i \in 1..Len(inq'[1]) : i + 1 \in 1..Len(inq[1]) /\ inq'[1][i] = inq[1][i + 1]
         /\ inq'[2] = inq[2]
  <1>0. 1 \in Sides /\ 2 \in Sides /\ PairTypeOK /\ inq[s] # <<>>
    BY DEF Sides, TypeOK, DropCorrupt
  <1>1. Head(inq[s]) = inq[s][1] /\ Len(inq[s]) \in Nat /\ Len(inq[s]) > 0
        /\ inq[s][1].data = Corrupt
    BY <1>0, HeadIn DEF DropCorrupt
  <1>2. s = 1
    BY <1>1 DEF Sides, Contents, Empty, Corrupt
  <1>3. inq'[1] = Tail(inq[1]) /\ inq'[2] = inq[2]
    BY <1>0, <1>2 DEF DropCorrupt, PairTypeOK
  <1>4. /\ Len(inq'[1]) = Len(inq[1]) - 1
        /\ \A i \in 1..Len(inq'[1]) : i + 1 \in 1..Len(inq[1]) /\ inq'[1][i] = inq[1][i + 1]
    <2>. HIDE DEF Datagram
    <2>. QED BY <1>0, <1>2, <1>3, HeadIn
  <1>. QED BY <1>1, <1>2, <1>3, <1>4

\* Every other step of the pair leaves the queues and the peers alone.
LEMMA PairStepCases ==
  ASSUME TypeOK, PairStep
  PROVE  \/ Relay(1) \/ Relay(2) \/ \E s \in Sides : DropCorrupt(s)
         \/ UNCHANGED <<inq, out, peer>>
  BY DEF PairStep, Select, Skip, NothingThere, Sides

\* Every step keeps pecks out of socket 1 and commands out of socket 2.
LEMMA ContentsStep ==
  ASSUME TypeOK, Contents, [Next]_vars
  PROVE  Contents'
  <1>0. 1 \in Sides /\ 2 \in Sides /\ PairTypeOK
    BY DEF Sides, TypeOK
  <1>1. CASE Relay(1)
    BY <1>1, RelayCommand DEF Contents
  <1>2. CASE Relay(2)
    BY <1>2, RelayPeck DEF Contents
  <1>3. ASSUME NEW s \in Sides, DropCorrupt(s)
        PROVE  Contents'
    BY <1>3, DropDamaged DEF Contents
  <1>4. CASE UNCHANGED inq
    BY <1>4 DEF Contents
  <1>5. ASSUME NEW a \in Addrs, Arrive(2, a, Empty)
        PROVE  Contents'
    <2>1. /\ Len(inq[2]) \in Nat /\ Len(inq'[2]) = Len(inq[2]) + 1
          /\ \A i \in 1..Len(inq'[2]) : i \in 1..Len(inq[2]) \/ i = Len(inq[2]) + 1
          /\ \A i \in 1..Len(inq[2]) : inq'[2][i] = inq[2][i]
          /\ inq'[2][Len(inq[2]) + 1].data = Empty /\ inq'[1] = inq[1]
      <3>1. 2 \in Sides /\ 1 \in Sides /\ 1 # 2 /\ Empty \in Payloads \cup {Empty, Corrupt}
        BY <1>0
      <3>. QED BY <1>0, <1>5, <3>1, ArriveSeq
    <2>2. \A i \in 1..Len(inq'[2]) : inq'[2][i].data = Empty
      BY <2>1 DEF Contents
    <2>. QED BY <2>1, <2>2 DEF Contents
  <1>6. ASSUME NEW d \in Commands \cup {Corrupt}, Arrive(1, Controller, d)
        PROVE  Contents'
    <2>1. d # Empty /\ Controller \in Addrs /\ d \in Payloads \cup {Empty, Corrupt}
      BY RelayConstants DEF Empty, Corrupt
    <2>2. /\ Len(inq[1]) \in Nat /\ Len(inq'[1]) = Len(inq[1]) + 1
          /\ \A i \in 1..Len(inq'[1]) : i \in 1..Len(inq[1]) \/ i = Len(inq[1]) + 1
          /\ \A i \in 1..Len(inq[1]) : inq'[1][i] = inq[1][i]
          /\ inq'[1][Len(inq[1]) + 1].data = d /\ inq'[2] = inq[2]
      BY <1>0, <1>6, <2>1, ArriveSeq
    <2>3. \A i \in 1..Len(inq'[1]) : inq'[1][i].data # Empty
      BY <2>1, <2>2 DEF Contents
    <2>. QED BY <2>2, <2>3 DEF Contents
  <1>7. CASE PairRestarts
    <2>1. inq'[1] = <<>> /\ inq'[2] = <<>>
      BY <1>0, <1>7 DEF PairRestarts
    <2>. QED BY <2>1, EmptySeq DEF Contents
  <1>8. CASE Relays
    BY <1>1, <1>2, <1>3, <1>4, <1>8, PairStepCases DEF Relays
  <1>9. CASE PeckerPecks
    <2>1. ext' \in Addrs
      BY <1>9, PeckAddress, RelayConstants
    <2>2. Arrive(2, ext', Empty) \/ UNCHANGED inq
      BY <1>9 DEF PeckerPecks, pairVars
    <2>. QED BY <1>4, <1>5, <2>1, <2>2
  <1>10. CASE SendDamaged \/ \E c \in Commands : SendCommand(c)
    BY <1>6, <1>10 DEF SendDamaged, SendCommand
  <1>11. CASE \/ Deliver \/ Lose \/ PeckerReceives \/ PeckerStops \/ PeckFails
              \/ Second \/ UNCHANGED vars
    <2>1. UNCHANGED inq
      BY <1>11 DEF Deliver, Lose, Depart, PeckerReceives, PeckerStops, PeckFails, Second,
                   vars, pairVars
    <2>. QED BY <1>4, <2>1
  <1>. QED BY <1>7, <1>8, <1>9, <1>10, <1>11 DEF Next, Progress

------------------------------------------------------------------------------
(* What the commands in a queue come to.                                    *)

\* One more at the end.
LEMMA YieldsAppend ==
  ASSUME NEW d, NEW e, NEW n \in Nat, NEW b, NEW w, Yields(d, n, b, w),
         \A i \in 1..n : e[i] = d[i]
  PROVE  Yields(e, n + 1, b, CarryOut(w, e[n + 1]))
  <1>0. n + 1 \in 1..(n + 1) /\ 1..n \subseteq 1..(n + 1)
        /\ \A i \in 1..(n + 1) : i \in 1..n \/ i = n + 1
    OBVIOUS
  <1>1. CASE Valid(e[n + 1])
    <2>1. \A j \in 1..(n + 1) : ~(n + 1 < j)
      OBVIOUS
    <2>. QED BY <1>0, <1>1, <2>1 DEF Yields, CarryOut
  <1>2. CASE ~Valid(e[n + 1])
    <2>1. CarryOut(w, e[n + 1]) = w
      BY <1>2 DEF CarryOut
    <2>2. CASE w = b /\ \A i \in 1..n : ~Valid(d[i])
      <3>1. \A i \in 1..(n + 1) : ~Valid(e[i])
        BY <1>0, <1>2, <2>2
      <3>. QED BY <2>1, <2>2, <3>1 DEF Yields
    <2>3. ASSUME NEW i \in 1..n, Valid(d[i]), w = d[i],
                 \A j \in 1..n : i < j => ~Valid(d[j])
          PROVE  Yields(e, n + 1, b, w)
      <3>1. \A j \in 1..(n + 1) : i < j => ~Valid(e[j])
        BY <1>0, <1>2, <2>3
      <3>2. i \in 1..(n + 1) /\ Valid(e[i]) /\ w = e[i]
        BY <1>0, <2>3
      <3>. QED BY <3>1, <3>2 DEF Yields
    <2>. QED BY <2>1, <2>2, <2>3 DEF Yields
  <1>. QED BY <1>1, <1>2

\* Without the first.
LEMMA YieldsTail ==
  ASSUME NEW d, NEW e, NEW n \in Nat, n > 0, NEW b, NEW w, Yields(d, n, b, w),
         \A i \in 1..(n - 1) : e[i] = d[i + 1]
  PROVE  Yields(e, n - 1, CarryOut(b, d[1]), w)
  <1>0. \A i \in 1..(n - 1) : i + 1 \in 1..n
    OBVIOUS
  <1>1. CASE w = b /\ \A i \in 1..n : ~Valid(d[i])
    <2>1. CarryOut(b, d[1]) = b
      BY <1>1 DEF CarryOut
    <2>2. \A i \in 1..(n - 1) : ~Valid(e[i])
      BY <1>0, <1>1
    <2>. QED BY <1>1, <2>1, <2>2 DEF Yields
  <1>2. ASSUME NEW i \in 1..n, Valid(d[i]), w = d[i],
               \A j \in 1..n : i < j => ~Valid(d[j])
        PROVE  Yields(e, n - 1, CarryOut(b, d[1]), w)
    <2>1. CASE i = 1
      <3>1. CarryOut(b, d[1]) = w
        BY <1>2, <2>1 DEF CarryOut
      <3>2. \A j \in 1..(n - 1) : ~Valid(e[j])
        <4>1. \A j \in 1..(n - 1) : i < j + 1
          BY <2>1
        <4>. QED BY <1>0, <1>2, <4>1
      <3>. QED BY <3>1, <3>2 DEF Yields
    <2>2. CASE i # 1
      <3>1. i - 1 \in 1..(n - 1) /\ (i - 1) + 1 = i
        BY <2>2
      <3>2. Valid(e[i - 1]) /\ w = e[i - 1]
        BY <1>2, <3>1
      <3>3. \A j \in 1..(n - 1) : i - 1 < j => ~Valid(e[j])
        <4>1. \A j \in 1..(n - 1) : i - 1 < j => i < j + 1
          BY <3>1
        <4>. QED BY <1>0, <1>2, <4>1
      <3>. QED BY <3>1, <3>2, <3>3 DEF Yields
    <2>. QED BY <2>1, <2>2
  <1>. QED BY <1>1, <1>2 DEF Yields

\* After another command, and none at all.
LEMMA YieldsAfter ==
  ASSUME NEW d, NEW n \in Nat, NEW b, NEW c, NEW w, Yields(d, n, b, w)
  PROVE  \E v \in {c, w} : Yields(d, n, c, v)
  BY DEF Yields

LEMMA YieldsNothing ==
  \A d, b, w : Yields(d, 0, b, w) <=> w = b
  <1>1. 1..0 = {}
    OBVIOUS
  <1>. QED BY <1>1 DEF Yields

\* CarryOut gives commands.
LEMMA CarryOutType == \A w \in Written : \A c : CarryOut(w, c) \in Written
  BY DEF CarryOut, Written, Valid

\* The three queues of commands: their lengths, and Data where they have some.
LEMMA QueueTypes ==
  ASSUME TypeOK
  PROVE  /\ Len(sock) \in Nat /\ Len(out) \in Nat /\ Len(inq[1]) \in Nat
         /\ sock \in Seq(Commands)
         /\ \A i \in 1..Len(out) : Data(out)[i] = out[i].data
         /\ \A i \in 1..Len(inq[1]) : Data(inq[1])[i] = inq[1][i].data
  <1>1. sock \in Seq(Commands) /\ out \in Seq(Sent) /\ inq[1] \in Seq(Datagram)
    BY DEF TypeOK, PairTypeOK, Sides
  <1>2. Len(sock) \in Nat /\ Len(out) \in Nat /\ Len(inq[1]) \in Nat
    BY <1>1, LenProperties
  <1>. QED BY <1>1, <1>2 DEF Data

\* The same, one step later.
LEMMA QueueTypesNext ==
  ASSUME TypeOK'
  PROVE  /\ Len(sock') \in Nat /\ Len(out') \in Nat /\ Len(inq'[1]) \in Nat
         /\ \A i \in 1..Len(out') : Data(out')[i] = out'[i].data
         /\ \A i \in 1..Len(inq'[1]) : Data(inq'[1])[i] = inq'[1][i].data
  <1>1. sock' \in Seq(Commands) /\ out' \in Seq(Sent) /\ inq'[1] \in Seq(Datagram)
    BY DEF TypeOK, PairTypeOK, Sides
  <1>2. Len(sock') \in Nat /\ Len(out') \in Nat /\ Len(inq'[1]) \in Nat
    BY <1>1, LenProperties
  <1>. QED BY <1>1, <1>2 DEF Data

\* The first command of socket 1 has been taken.
LEMMA InqShorter ==
  ASSUME TypeOK, TypeOK', Len(inq[1]) > 0, Len(inq'[1]) = Len(inq[1]) - 1,
         \A i \in 1..Len(inq'[1]) : i + 1 \in 1..Len(inq[1]) /\ inq'[1][i] = inq[1][i + 1]
  PROVE  /\ \A i \in 1..(Len(inq[1]) - 1) : Data(inq'[1])[i] = Data(inq[1])[i + 1]
         /\ Data(inq[1])[1] = inq[1][1].data /\ Len(inq[1]) \in Nat
  <1>1. Len(inq[1]) \in Nat /\ 1 \in 1..Len(inq[1])
    BY QueueTypes
  <1>2. ASSUME NEW i \in 1..(Len(inq[1]) - 1)
        PROVE  Data(inq'[1])[i] = Data(inq[1])[i + 1]
    <2>1. Data(inq'[1])[i] = inq'[1][i].data
      BY QueueTypesNext
    <2>2. i + 1 \in 1..Len(inq[1]) /\ inq'[1][i] = inq[1][i + 1]
      OBVIOUS
    <2>3. Data(inq[1])[i + 1] = inq[1][i + 1].data
      BY <2>2, QueueTypes
    <2>. QED BY <2>1, <2>2, <2>3
  <1>. QED BY <1>1, <1>2, QueueTypes

\* What leaves the network without reaching the pecker is missed.
LEMMA OutShorter ==
  ASSUME TypeOK, TypeOK', Depart, NEW x \in Written, NEW y \in Written, NEW z \in Written,
         Yields(Data(out), Len(out), x, y), Yields(Data(inq[1]), Len(inq[1]), y, z)
  PROVE  /\ Yields(Data(out'), Len(out'), CarryOut(x, out[1].data), y)
         /\ \E v, w \in Written : /\ Yields(Data(out'), Len(out'), x, v)
                                  /\ Yields(Data(inq'[1]), Len(inq'[1]), v, w)
  <1>1. out' = Tail(out) /\ out # <<>> /\ inq' = inq
    BY DEF Depart
  <1>2. /\ Len(out) \in Nat /\ Len(out) > 0 /\ Len(out') = Len(out) - 1
        /\ \A i \in 1..Len(out') : i + 1 \in 1..Len(out) /\ out'[i] = out[i + 1]
    BY <1>1, HeadOut DEF TypeOK
  <1>3. \A i \in 1..(Len(out) - 1) : Data(out')[i] = Data(out)[i + 1]
    BY <1>2, QueueTypes, QueueTypesNext
  <1>4. Data(out)[1] = out[1].data
    BY <1>2, QueueTypes
  <1>5. Yields(Data(out'), Len(out'), CarryOut(x, out[1].data), y)
    BY <1>2, <1>3, <1>4, YieldsTail
  <1>6. PICK v \in {x, y} : Yields(Data(out'), Len(out'), x, v)
    BY <1>2, <1>5, QueueTypesNext, YieldsAfter
  <1>7. PICK w \in {v, z} : Yields(Data(inq[1]), Len(inq[1]), v, w)
    BY QueueTypes, YieldsAfter
  <1>8. Yields(Data(inq'[1]), Len(inq'[1]), v, w)
    BY <1>1, <1>7
  <1>9. v \in Written /\ w \in Written
    BY <1>6, <1>7
  <1>. QED BY <1>5, <1>6, <1>8, <1>9

\* Every step keeps what the commands under way come to.
LEMMA CommandsStep ==
  ASSUME TypeOK, TypeOK', Contents, CommandsInOrder, [Next]_vars
  PROVE  CommandsInOrder'
  <1>1. PICK x, y, z \in Written :
          /\ Yields(sock, Len(sock), written, x)
          /\ Yields(Data(out), Len(out), x, y)
          /\ Yields(Data(inq[1]), Len(inq[1]), y, z)
          /\ ~missed => z = wanted
    BY DEF CommandsInOrder
  <1>2. SUFFICES \E u, v, w \in Written :
                   /\ Yields(sock', Len(sock'), written', u)
                   /\ Yields(Data(out'), Len(out'), u, v)
                   /\ Yields(Data(inq'[1]), Len(inq'[1]), v, w)
                   /\ ~missed' => w = wanted'
    BY DEF CommandsInOrder
  <1>3. PairTypeOK /\ 1 \in Sides /\ Corrupt \notin Commands
    BY RelayConstants DEF TypeOK, Sides
  <1>4. CASE UNCHANGED <<sock, written, out, wanted>> /\ inq'[1] = inq[1]
             /\ (~missed' => ~missed)
    BY <1>1, <1>4
  <1>5. CASE Relays /\ Relay(1)
    <2>. DEFINE c == inq[1][1].data
    <2>1. UNCHANGED <<sock, written, wanted>>
          /\ missed' = (missed \/ peer[2] = NoAddr)
      BY <1>5 DEF Relays, Relay, peckerVars, controllerVars
    <2>2. /\ Len(inq[1]) \in Nat /\ Len(inq[1]) > 0 /\ Len(inq'[1]) = Len(inq[1]) - 1
          /\ \A i \in 1..(Len(inq[1]) - 1) : Data(inq'[1])[i] = Data(inq[1])[i + 1]
          /\ Data(inq[1])[1] = c
      BY <1>5, RelayCommand, InqShorter
    <2>3. Yields(Data(inq'[1]), Len(inq'[1]), CarryOut(y, c), z)
      BY <1>1, <2>2, YieldsTail
    <2>4. CASE peer[2] = NoAddr
      <3>1. out' = out
        BY <1>5, <2>4, RelayCommand
      <3>2. \E w \in {y, z} : Yields(Data(inq'[1]), Len(inq'[1]), y, w)
        BY <2>3, QueueTypesNext, YieldsAfter
      <3>. QED BY <1>1, <2>1, <2>4, <3>1, <3>2
    <2>5. CASE peer[2] # NoAddr
      <3>1. /\ Len(out) \in Nat /\ Len(out') = Len(out) + 1
            /\ \A i \in 1..Len(out) : Data(out')[i] = Data(out)[i]
            /\ Data(out')[Len(out) + 1] = c
        <4>1. Len(out) \in Nat /\ Len(out') = Len(out) + 1
              /\ out'[Len(out) + 1].data = c
              /\ \A i \in 1..Len(out) : out'[i] = out[i] /\ i \in 1..Len(out')
          BY <1>5, <2>5, RelayCommand
        <4>2. Len(out) + 1 \in 1..Len(out')
          BY <4>1
        <4>. QED BY <4>1, <4>2, QueueTypes, QueueTypesNext
      <3>2. Yields(Data(out'), Len(out'), x, CarryOut(y, c))
        BY <1>1, <3>1, YieldsAppend
      <3>. QED BY <1>1, <2>1, <2>3, <2>5, <3>2, CarryOutType
    <2>. QED BY <2>4, <2>5
  <1>6. ASSUME Relays, NEW s \in Sides, DropCorrupt(s)
        PROVE  CommandsInOrder'
    <2>1. UNCHANGED <<sock, written, wanted, out>> /\ (~missed' => ~missed)
      BY <1>6 DEF Relays, DropCorrupt, peckerVars, controllerVars
    <2>2. /\ Len(inq[1]) \in Nat /\ Len(inq[1]) > 0 /\ Len(inq'[1]) = Len(inq[1]) - 1
          /\ \A i \in 1..(Len(inq[1]) - 1) : Data(inq'[1])[i] = Data(inq[1])[i + 1]
          /\ Data(inq[1])[1] = Corrupt
      BY <1>6, DropDamaged, InqShorter
    <2>3. Yields(Data(inq'[1]), Len(inq'[1]), CarryOut(y, Corrupt), z)
      BY <1>1, <2>2, YieldsTail
    <2>4. CarryOut(y, Corrupt) = y
      BY <1>3 DEF CarryOut, Valid
    <2>. QED BY <1>1, <2>1, <2>3, <2>4 DEF CommandsInOrder
  <1>7. CASE Relays
    <2>1. CASE Relay(2) \/ UNCHANGED <<inq, out, peer>>
      <3>1. UNCHANGED <<sock, written, out, wanted>> /\ inq'[1] = inq[1]
            /\ (~missed' => ~missed)
        BY <1>7, <2>1, RelayPeck DEF Relays, peckerVars, controllerVars
      <3>. QED BY <1>4, <3>1
    <2>. QED BY <1>2, <1>5, <1>6, <1>7, <2>1, PairStepCases DEF Relays, CommandsInOrder
  <1>8. CASE Deliver \/ Lose
    <2>1. Depart /\ inq' = inq /\ UNCHANGED <<written, wanted>>
      BY <1>8 DEF Deliver, Lose, Depart, peckerVars, controllerVars
    <2>2. CASE Deliver /\ Alive /\ Head(out).to = ext
      <3>. DEFINE c == out[1].data
      <3>1. missed' = missed
        BY <2>2 DEF Deliver
      <3>2. /\ Len(sock) \in Nat /\ Len(sock') = Len(sock) + 1
            /\ \A i \in 1..Len(sock) : sock'[i] = sock[i]
            /\ sock'[Len(sock) + 1] = c
        BY <2>2, Passes
      <3>3. Yields(sock', Len(sock'), written', CarryOut(x, c))
        BY <1>1, <2>1, <3>2, YieldsAppend
      <3>4. Yields(Data(out'), Len(out'), CarryOut(x, c), y)
        BY <1>1, <2>1, OutShorter
      <3>. QED BY <1>1, <2>1, <3>1, <3>3, <3>4, CarryOutType
    <2>3. CASE ~(Deliver /\ Alive /\ Head(out).to = ext)
      <3>1. missed' = TRUE /\ sock' = sock
        BY <1>8, <2>3 DEF Deliver, Lose, peckerVars
      <3>2. \E v, w \in Written : /\ Yields(Data(out'), Len(out'), x, v)
                                  /\ Yields(Data(inq'[1]), Len(inq'[1]), v, w)
        BY <1>1, <2>1, OutShorter
      <3>. QED BY <1>1, <2>1, <3>1, <3>2
    <2>. QED BY <2>2, <2>3
  <1>9. CASE PeckerReceives
    <2>1. sock # <<>> /\ sock' = Tail(sock) /\ UNCHANGED <<out, inq, wanted, missed>>
          /\ written' = IF Allowed(Head(sock)) THEN Head(sock) ELSE written
      BY <1>9 DEF PeckerReceives, ReceiveCommand, pairVars, controllerVars
    <2>2. /\ Head(sock) \in Commands /\ Head(sock) = sock[1]
          /\ Len(sock) \in Nat /\ Len(sock) > 0 /\ Len(sock') = Len(sock) - 1
          /\ \A i \in 1..(Len(sock) - 1) : sock'[i] = sock[i + 1]
      BY <2>1, HeadSock, QueueTypes
    <2>3. written' = CarryOut(written, sock[1])
      BY <2>1, <2>2 DEF CarryOut, Valid
    <2>4. Yields(sock', Len(sock'), written', x)
      BY <1>1, <2>2, <2>3, YieldsTail
    <2>. QED BY <1>1, <2>1, <2>4
  <1>10. ASSUME NEW d \in Commands \cup {Corrupt}, Arrive(1, Controller, d),
                UNCHANGED <<sock, written>>, ~missed' => CarryOut(z, d) = wanted'
         PROVE  CommandsInOrder'
    <2>1. Controller \in Addrs /\ d \in Payloads \cup {Empty, Corrupt}
      BY RelayConstants
    <2>2. /\ Len(inq[1]) \in Nat /\ Len(inq'[1]) = Len(inq[1]) + 1
          /\ \A i \in 1..Len(inq[1]) : inq'[1][i] = inq[1][i]
          /\ inq'[1][Len(inq[1]) + 1].data = d
      BY <1>3, <1>10, <2>1, ArriveSeq
    <2>3. /\ \A i \in 1..Len(inq[1]) : Data(inq'[1])[i] = Data(inq[1])[i]
          /\ Data(inq'[1])[Len(inq[1]) + 1] = d
      <3>1. /\ Len(inq[1]) + 1 \in 1..Len(inq'[1])
            /\ \A i \in 1..Len(inq[1]) : i \in 1..Len(inq'[1])
        BY <2>2
      <3>. QED BY <2>2, <3>1, QueueTypes, QueueTypesNext
    <2>4. Yields(Data(inq'[1]), Len(inq'[1]), y, CarryOut(z, d))
      BY <1>1, <2>2, <2>3, YieldsAppend
    <2>5. out' = out
      BY <1>10 DEF Arrive
    <2>. QED BY <1>1, <1>10, <2>4, <2>5, CarryOutType DEF CommandsInOrder
  <1>11. ASSUME NEW c \in Commands, SendCommand(c)
         PROVE  CommandsInOrder'
    <2>1. Arrive(1, Controller, c) /\ UNCHANGED <<sock, written>>
      BY <1>11 DEF SendCommand, peckerVars
    <2>2. ~missed' => CarryOut(z, c) = wanted'
      BY <1>1, <1>11 DEF SendCommand, CarryOut, Valid, Allowed
    <2>. QED BY <1>10, <2>1, <2>2
  <1>12. CASE SendDamaged
    <2>1. Arrive(1, Controller, Corrupt) /\ UNCHANGED <<sock, written>> /\ missed' = TRUE
      BY <1>12 DEF SendDamaged, peckerVars
    <2>. QED BY <1>2, <1>10, <2>1 DEF CommandsInOrder
  <1>13. CASE PairRestarts
    <2>1. UNCHANGED <<sock, written, out, wanted>> /\ inq'[1] = <<>>
          /\ missed' = (missed \/ inq[1] # <<>>)
      BY <1>3, <1>13 DEF PairRestarts, peckerVars, controllerVars
    <2>2. Len(inq'[1]) = 0
      BY <2>1, EmptySeq
    <2>3. Yields(Data(inq'[1]), Len(inq'[1]), y, y)
      BY <2>2, YieldsNothing
    <2>4. ~missed' => y = wanted'
      <3>1. inq[1] = <<>> => Len(inq[1]) = 0
        BY EmptySeq
      <3>2. inq[1] = <<>> => z = y
        BY <1>1, <3>1, YieldsNothing
      <3>. QED BY <1>1, <2>1, <3>2
    <2>. QED BY <1>1, <2>1, <2>3, <2>4
  <1>14. CASE PeckerStops \/ PeckerPecks \/ PeckFails \/ Second \/ UNCHANGED vars
    <2>1. UNCHANGED <<sock, written, out, wanted, missed>>
      BY <1>14 DEF PeckerStops, PeckerPecks, PeckFails, Second, PeckerResumed, Peck,
                   PeckerTick, Arrive, vars, pairVars, peckerVars, controllerVars
    <2>2. inq'[1] = inq[1]
      <3>1. CASE UNCHANGED inq
        BY <3>1
      <3>2. CASE PeckerPecks /\ Arrive(2, ext', Empty)
        BY <1>3, <3>2 DEF Arrive, PairTypeOK
      <3>. QED BY <1>14, <3>1, <3>2
        DEF PeckerStops, PeckerPecks, PeckFails, Second, vars, pairVars
    <2>. QED BY <1>4, <2>1, <2>2
  <1>. QED BY <1>2, <1>7, <1>8, <1>9, <1>11, <1>12, <1>13, <1>14
    DEF Next, Progress, CommandsInOrder

------------------------------------------------------------------------------
(* The mapping and the address.                                             *)

\* Every step keeps the mapping younger than the silence.
LEMMA MappingStep ==
  ASSUME TypeOK, MappingUsed, [Next]_vars
  PROVE  MappingUsed'
  <1>0. idle \in Nat /\ silent \in 0..Period /\ Period \in Nat
    BY RelayConstants DEF TypeOK
  <1>1. CASE Deliver
    <2>1. UNCHANGED <<inbound, ext, silent>>
      BY <1>1 DEF Deliver
    <2>2. CASE Alive /\ Head(out).to = ext
      <3>1. inbound => idle' = 0
        BY <1>1, <2>2 DEF Deliver, Use
      <3>. QED BY <1>0, <2>1, <3>1 DEF MappingUsed, Used
    <2>3. CASE ~(Alive /\ Head(out).to = ext)
      <3>1. UNCHANGED <<sock, idle, skipped>>
        BY <1>1, <2>3 DEF Deliver
      <3>. QED BY <2>1, <3>1 DEF MappingUsed, Used
    <2>. QED BY <2>2, <2>3
  <1>2. CASE PeckerReceives
    <2>1. sock # <<>> /\ silent' = 0 /\ UNCHANGED <<inbound, skipped, ext, idle>>
      BY <1>2 DEF PeckerReceives, ReceiveCommand, natVars
    <2>. QED BY <1>0, <2>1 DEF MappingUsed, Used
  <1>3. CASE PeckerStops \/ PeckFails
    <2>1. skipped' = TRUE
      BY <1>3 DEF PeckerStops, PeckFails
    <2>. QED BY <2>1 DEF MappingUsed, Used
  <1>4. CASE PeckerPecks
    <2>1. idle' = 0 /\ silent' = 0
      BY <1>4 DEF PeckerPecks, Use, Peck
    <2>. QED BY <2>1 DEF MappingUsed
  <1>5. CASE Second
    <2>1. /\ sock = <<>> /\ sock' = sock /\ silent' = silent + 1
          /\ idle' \in {idle, idle + 1} /\ UNCHANGED <<inbound, skipped, ext>>
      BY <1>5 DEF Second, PeckerWaits, PeckerTick
    <2>. QED BY <1>0, <2>1 DEF MappingUsed, Used
  <1>6. CASE \/ Relays \/ Lose \/ SendDamaged \/ PairRestarts
             \/ (\E c \in Commands : SendCommand(c)) \/ UNCHANGED vars
    <2>1. UNCHANGED <<inbound, skipped, ext, idle, silent, sock>>
      BY <1>6 DEF Relays, Lose, SendDamaged, PairRestarts, SendCommand, vars, peckerVars,
                  natVars
    <2>. QED BY <2>1 DEF MappingUsed, Used
  <1>. QED BY <1>1, <1>2, <1>3, <1>4, <1>5, <1>6 DEF Next, Progress

\* A pecker none of whose pecks failed or was put off pecks in time.
LEMMA KeptMapping ==
  ASSUME TypeOK, MappingUsed, Used, Period <= NatTimeout, ext # NoAddr
  PROVE  Alive
  <1>1. idle <= silent /\ idle \in Nat /\ silent \in 0..Period /\ Period \in Nat
        /\ NatTimeout \in Nat
    BY RelayConstants DEF TypeOK, MappingUsed
  <1>. QED BY <1>1 DEF Alive

\* What is sent to the pecker reaches the NAT with the address it has there.
LEMMA InTouchOut ==
  ASSUME TypeOK, InTouch, out # <<>>
  PROVE  Head(out).to = ext
  <1>1. PairTypeOK /\ out \in Seq(Sent)
    BY DEF TypeOK, PairTypeOK
  <1>2. Head(out) = out[1] /\ Len(out) \in Nat /\ Len(out) > 0
    BY <1>1, HeadOut
  <1>3. 1 \in DOMAIN out
    BY <1>1, <1>2, LenProperties
  <1>. QED BY <1>2, <1>3 DEF InTouch

\* A step without a fault keeps the two in touch.
LEMMA TouchStep ==
  ASSUME TypeOK, Contents, MappingUsed, Period <= NatTimeout, [Next]_vars,
         inbound, InTouch, turn # 3, UNCHANGED faultVars
  PROVE  InTouch'
  <1>1. /\ PairTypeOK /\ PairTypeOK' /\ 1 \in Sides /\ 2 \in Sides
        /\ inq[2] \in Seq(Datagram) /\ inq'[2] \in Seq(Datagram)
        /\ out \in Seq(Sent) /\ out' \in Seq(Sent)
    BY TypeStep DEF TypeOK, PairTypeOK, Sides
  <1>2. /\ DOMAIN inq[2] = 1..Len(inq[2]) /\ DOMAIN inq'[2] = 1..Len(inq'[2])
        /\ DOMAIN out = 1..Len(out) /\ DOMAIN out' = 1..Len(out')
    <2>. HIDE DEF Datagram, Sent
    <2>. QED BY <1>1, LenProperties
  <1>3. /\ ext # NoAddr /\ ~skipped /\ peer[2] = ext
        /\ \A i \in 1..Len(inq[2]) : inq[2][i].from = ext
        /\ \A i \in 1..Len(out) : out[i].to = ext
    BY <1>2 DEF InTouch
  <1>4. SUFFICES /\ ext' = ext /\ ~skipped' /\ peer'[2] = ext
                 /\ \A i \in 1..Len(inq'[2]) : inq'[2][i].from = ext
                 /\ \A i \in 1..Len(out') : out'[i].to = ext
    BY <1>2, <1>3 DEF InTouch
  <1>5. Alive
    BY <1>3, KeptMapping DEF Used
  <1>6. lost \in Nat /\ stops \in Nat /\ restarts \in Nat
        /\ UNCHANGED <<lost, stops, restarts>>
    BY DEF TypeOK, faultVars
  <1>7. CASE UNCHANGED <<ext, skipped, out>> /\ inq'[2] = inq[2] /\ peer'[2] = peer[2]
    BY <1>3, <1>7
  <1>8. CASE Relays
    <2>1. UNCHANGED <<ext, skipped>>
      BY <1>8 DEF Relays, natVars
    <2>2. CASE Relay(1)
      <3>1. /\ inq'[2] = inq[2] /\ peer'[2] = peer[2]
            /\ \A i \in 1..Len(out') : i \in 1..Len(out) \/ i = Len(out) + 1
            /\ \A i \in 1..Len(out) : out'[i] = out[i]
            /\ out'[Len(out) + 1].to = peer[2]
        <4>1. peer[2] # NoAddr
          BY <1>3
        <4>. QED BY <2>2, <4>1, RelayCommand
      <3>. QED BY <1>3, <2>1, <3>1
    <2>3. CASE Relay(2)
      <3>1. /\ 1 \in 1..Len(inq[2]) /\ out' = out /\ peer'[2] = inq[2][1].from
            /\ \A i \in 1..Len(inq'[2]) :
                 i + 1 \in 1..Len(inq[2]) /\ inq'[2][i] = inq[2][i + 1]
        BY <2>3, RelayPeck
      <3>. QED BY <1>3, <2>1, <3>1
    <2>4. ASSUME NEW s \in Sides, DropCorrupt(s)
          PROVE  out' = out /\ inq'[2] = inq[2] /\ peer'[2] = peer[2]
      BY <2>4, DropDamaged DEF DropCorrupt
    <2>. QED BY <1>7, <1>8, <2>1, <2>2, <2>3, <2>4, PairStepCases DEF Relays
  <1>9. CASE Deliver
    <2>1. out # <<>> /\ out' = Tail(out) /\ UNCHANGED <<ext, inq, peer>>
      BY <1>9 DEF Deliver, Depart
    <2>3. ~skipped'
      BY <1>3, <1>9 DEF Deliver, Use
    <2>2. \A i \in 1..Len(out') : i + 1 \in 1..Len(out) /\ out'[i] = out[i + 1]
      BY <1>1, <2>1, HeadOut
    <2>. QED BY <1>3, <2>1, <2>2, <2>3
  <1>10. CASE PeckerPecks
    <2>1. ext' = ext /\ skipped' = FALSE
      BY <1>5, <1>10 DEF PeckerPecks, Use
    <2>2. Arrive(2, ext', Empty)
      BY <1>6, <1>10 DEF PeckerPecks, Loses
    <2>3. ext' \in Addrs /\ Empty \in Payloads \cup {Empty, Corrupt}
      BY <1>10, PeckAddress, RelayConstants
    <2>4. /\ \A i \in 1..Len(inq'[2]) : i \in 1..Len(inq[2]) \/ i = Len(inq[2]) + 1
          /\ \A i \in 1..Len(inq[2]) : inq'[2][i] = inq[2][i]
          /\ inq'[2][Len(inq[2]) + 1].from = ext'
      BY <1>1, <2>2, <2>3, ArriveSeq
    <2>5. UNCHANGED <<peer, out>>
      BY <2>2 DEF Arrive
    <2>. QED BY <1>3, <2>1, <2>4, <2>5
  <1>11. CASE \E c \in Commands : SendCommand(c)
    <2>1. PICK c \in Commands : SendCommand(c)
      BY <1>11
    <2>2. Arrive(1, Controller, c) /\ UNCHANGED <<ext, skipped>>
      BY <2>1 DEF SendCommand, natVars
    <2>3. out' = out /\ peer' = peer /\ inq'[2] = inq[2]
      BY <1>1, <2>2 DEF Arrive, PairTypeOK
    <2>. QED BY <1>7, <2>2, <2>3
  <1>12. CASE PeckerReceives \/ Second \/ UNCHANGED vars
    <2>1. UNCHANGED <<ext, skipped, out, inq, peer>>
      BY <1>12 DEF PeckerReceives, Second, vars, pairVars, natVars
    <2>. QED BY <1>7, <2>1
  <1>13. ~Lose /\ ~SendDamaged /\ ~PairRestarts /\ ~PeckerStops /\ ~PeckFails
    <2>1. lost' # lost + 1 /\ restarts' # restarts + 1 /\ stops' # stops + 1
      BY <1>6
    <2>2. ~Loses
      BY <2>1 DEF Loses
    <2>3. ~PairRestarts
      BY <2>1 DEF PairRestarts
    <2>4. ~PeckerStops
      BY <2>1 DEF PeckerStops
    <2>. QED BY <2>2, <2>3, <2>4 DEF Lose, SendDamaged, PeckFails
  <1>. QED BY <1>8, <1>9, <1>10, <1>11, <1>12, <1>13 DEF Next, Progress

------------------------------------------------------------------------------
(* The theorems.                                                            *)

\* The first state satisfies the invariant.
LEMMA InitInv == Init => IInv
  <1>. SUFFICES ASSUME Init PROVE IInv
    OBVIOUS
  <1>1. /\ turn = 0 /\ rfds = {} /\ peer = [s \in Sides |-> NoAddr]
        /\ inq = [s \in Sides |-> <<>>] /\ out = <<>>
        /\ waited = [s \in Sides |-> 0] /\ damaged = FALSE
        /\ sock = <<>> /\ silent = 0 /\ written = NoCommand
    BY DEF Init, PairInit, PeckerInit
  <1>2. /\ ext = NoAddr /\ idle = 0 /\ skipped = FALSE /\ inbound \in NatKinds /\ recent = 0
        /\ wanted = NoCommand /\ missed = FALSE /\ lost = 0 /\ restarts = 0 /\ stops = 0
    BY DEF Init
  <1>3. PairTypeOK
    <2>1. <<>> \in Seq(Datagram) /\ <<>> \in Seq(Sent)
      BY EmptySeq
    <2>2. damaged \in BOOLEAN
      BY <1>1
    <2>. QED BY <1>1, <2>1, <2>2 DEF PairTypeOK
  <1>4. TypeOK
    <2>1. sock \in Seq(Commands)
      BY <1>1, EmptySeq
    <2>2. silent \in 0..Period /\ written \in Written /\ wanted \in Written
      BY <1>1, <1>2, RelayConstants DEF Written
    <2>3. inbound \in BOOLEAN
      BY <1>2, RelayAssumption
    <2>4. missed \in BOOLEAN /\ skipped \in BOOLEAN
      BY <1>2
    <2>. QED BY <1>2, <1>3, <2>1, <2>2, <2>3, <2>4 DEF TypeOK
  <1>5. SelectedRight /\ WaitedRight
    BY <1>1 DEF SelectedRight, WaitedRight, Sides
  <1>6. /\ inq[1] = <<>> /\ inq[2] = <<>> /\ peer[2] = NoAddr
        /\ Len(inq[1]) = 0 /\ Len(inq[2]) = 0 /\ Len(out) = 0 /\ Len(sock) = 0
    BY <1>1, EmptySeq DEF Sides
  <1>7. Contents
    BY <1>6 DEF Contents
  <1>8. CommandsInOrder
    <2>1. /\ Yields(sock, Len(sock), written, written)
          /\ Yields(Data(out), Len(out), written, written)
          /\ Yields(Data(inq[1]), Len(inq[1]), written, written)
      BY <1>6, YieldsNothing
    <2>. QED BY <1>1, <1>2, <1>4, <2>1 DEF CommandsInOrder, TypeOK
  <1>9. MappingUsed
    BY <1>1, <1>2 DEF MappingUsed
  <1>. QED BY <1>4, <1>5, <1>7, <1>8, <1>9 DEF IInv

\* Whatever is lost, damaged, stopped or restarted: what select found readable
\* is readable, a waiting socket is served, the commands under way come to the
\* one wanted and the mapping is as old as the last use.
THEOREM RelayInvariant == Spec => []IInv
  <1>1. IInv /\ [Next]_vars => IInv'
    <2>. SUFFICES ASSUME IInv, [Next]_vars PROVE IInv'
      OBVIOUS
    <2>1. TypeOK'
      BY TypeStep DEF IInv
    <2>2. SelectedRight' /\ WaitedRight'
      BY PairActs, PairStepInv DEF IInv, PairInv, TypeOK
    <2>3. Contents' /\ CommandsInOrder'
      BY <2>1, ContentsStep, CommandsStep DEF IInv
    <2>4. MappingUsed'
      BY MappingStep DEF IInv
    <2>. QED BY <2>1, <2>2, <2>3, <2>4 DEF IInv
  <1>. QED BY InitInv, <1>1, PTL DEF Spec

\* Neither socket of udppair starves the other (udppair.c:75-105).
THEOREM OvertakingHolds == Spec => []Overtaking
  <1>1. IInv => Overtaking
    BY DEF IInv, WaitedRight, Overtaking
  <1>. QED BY <1>1, RelayInvariant, PTL

\* udppair ends (udppair.c:80, 96) only after a damaged datagram.
THEOREM StopsOnlyDamagedHolds == Spec => []StopsOnlyDamaged
  <1>1. IInv => StopsOnlyDamaged
    BY DEF IInv, SelectedRight, StopsOnlyDamaged
  <1>. QED BY <1>1, RelayInvariant, PTL

\* The pecker has carried out the last command, unless one was missed.
THEOREM InSyncHolds == Spec => []InSync
  <1>1. IInv => InSync
    <2>. SUFFICES ASSUME IInv, Quiet, ~missed PROVE written = wanted
      BY DEF InSync
    <2>1. PICK x, y, z \in Written :
            /\ Yields(sock, Len(sock), written, x)
            /\ Yields(Data(out), Len(out), x, y)
            /\ Yields(Data(inq[1]), Len(inq[1]), y, z)
            /\ ~missed => z = wanted
      BY DEF IInv, CommandsInOrder
    <2>2. Len(sock) = 0 /\ Len(out) = 0 /\ Len(inq[1]) = 0
      BY EmptySeq DEF Quiet, Sides
    <2>. QED BY <2>1, <2>2, YieldsNothing
  <1>. QED BY <1>1, RelayInvariant, PTL

\* A pecker that pecks at least as often as the NAT forgets (udpfilepecker.c:90)
\* keeps its address where commands count as use, though it pecks only when no
\* command came, as long as no peck fails (line 20) or is put off.
THEOREM KeepsUsedMappingHolds ==
  ASSUME Period <= NatTimeout
  PROVE  Spec => KeepsUsedMapping
  <1>1. IInv /\ [Next]_vars => [inbound /\ ~skipped /\ ext # NoAddr => UNCHANGED ext]_vars
    <2>. SUFFICES ASSUME IInv, [Next]_vars, inbound, ~skipped, ext # NoAddr
                  PROVE  ext' = ext
      OBVIOUS
    <2>1. CASE PeckerPecks
      BY <2>1, KeptMapping DEF IInv, Used, PeckerPecks
    <2>2. CASE ~PeckerPecks
      BY <2>2 DEF Next, Progress, Relays, Deliver, PeckerReceives, Second, Lose, SendDamaged,
                  PairRestarts, PeckerStops, PeckFails, SendCommand, natVars, vars
    <2>. QED BY <2>1, <2>2
  <1>. QED BY <1>1, RelayInvariant, PTL DEF Spec, KeepsUsedMapping

\* There pair and pecker stay in touch, and no command is missed while they are,
\* but by a fault in that step or an end of the pair: what was lost, stopped or
\* restarted before does not show any more.
THEOREM MissedForCauseHolds ==
  ASSUME Period <= NatTimeout
  PROVE  Spec => MissedForCause
  <1>1. IInv /\ [Next]_vars =>
          [inbound /\ InTouch /\ turn # 3 /\ UNCHANGED faultVars
             => InTouch' /\ (missed' => missed)]_vars
    <2>. SUFFICES ASSUME IInv, [Next]_vars, inbound, InTouch, turn # 3,
                         UNCHANGED faultVars
                  PROVE  InTouch' /\ (missed' => missed)
      OBVIOUS
    <2>0. lost \in Nat /\ restarts \in Nat /\ UNCHANGED <<lost, restarts>>
      BY DEF IInv, TypeOK, faultVars
    <2>1. InTouch'
      BY TouchStep DEF IInv
    <2>2. ext # NoAddr /\ peer[2] # NoAddr /\ Alive
      BY KeptMapping DEF IInv, Used, InTouch
    <2>3. CASE Relays
      BY <2>1, <2>2, <2>3 DEF Relays
    <2>4. CASE Deliver
      <3>1. Head(out).to = ext
        BY <2>4, InTouchOut DEF IInv, Deliver
      <3>. QED BY <2>1, <2>2, <2>4, <3>1 DEF Deliver
    <2>5. ~(Lose \/ SendDamaged \/ PairRestarts)
      BY <2>0 DEF Lose, SendDamaged, PairRestarts, Loses
    <2>6. CASE \/ PeckerReceives \/ PeckerStops \/ PeckerPecks \/ PeckFails \/ Second
               \/ UNCHANGED vars
      <3>1. UNCHANGED missed
        BY <2>6 DEF PeckerReceives, PeckerStops, PeckerPecks, PeckFails, Second, vars
      <3>. QED BY <2>1, <3>1
    <2>7. CASE \E c \in Commands : SendCommand(c)
      <3>1. missed' = FALSE \/ missed' = missed
        BY <2>7 DEF SendCommand
      <3>. QED BY <2>1, <3>1
    <2>. QED BY <2>3, <2>4, <2>5, <2>6, <2>7 DEF Next, Progress
  <1>. QED BY <1>1, RelayInvariant, PTL DEF Spec, MissedForCause
==============================================================================
