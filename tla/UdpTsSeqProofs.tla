--------------------------- MODULE UdpTsSeqProofs ---------------------------
(***************************************************************************)
(* What measure prints is right: losses, notices of a new address, outages *)
(* and delays, for every number of probes, losses, changes of the address  *)
(* and restarts, every delay and every distance of the clocks.             *)
(*                                                                         *)
(* The argument about losses: datagrams keep their order, so the number of *)
(* a datagram minus its place in line and minus the replies received is    *)
(* the number of those lost before it.  The replies and the probes under   *)
(* way are one line (Flight); the server moves one from its back part to   *)
(* its front part and nothing else changes.                                *)
(***************************************************************************)
EXTENDS UdpTsSeq, SequenceTheorems, FiniteSetTheorems, TLAPS

\* A probe and a reply on their way.
Probe == [seq1 : Nat, ip : IPs, port : Ports, age : 0..MaxDelay]
Reply == [seq1 : Nat, seq2 : Nat, ip : IPs, port : Ports, out : 0..MaxDelay,
          apart : Int, age : 0..MaxDelay]

TypeOK ==
  /\ up \in Seq(Probe) /\ down \in Seq(Reply)
  /\ seqs \in [Ids -> Nat] /\ age \in [Ids -> Ages]
  /\ sent \in 0..MaxSent /\ awake \in BOOLEAN
  /\ ip \in IPs /\ port \in Ports /\ rebinds \in Nat
  /\ seq3 \in Nat /\ quiet \in Nat /\ outages \in Nat /\ notices \in Nat
  /\ previp \in IPs \cup {NoIP} /\ prevport \in Int
  /\ minrtt \in 0..NoRtt /\ best \in Int
  /\ report \in [seq1 : Nat \cup {-1}, out : Int, back : Int, off : Int]
  /\ skew \in Int /\ rebooted \in BOOLEAN /\ renumbered \in BOOLEAN

\* What is under way, the oldest first: the replies, then the probes.
Flying == Len(down) + Len(up)
Flight ==
  [k \in 1..Flying |->
     LET m == IF k <= Len(down) THEN down[k] ELSE up[k - Len(down)]
     IN  [seq1 |-> m.seq1, ip |-> m.ip, port |-> m.port]]

LostAny == lostUp \cup lostDown
Below(S, b) == Cardinality({q \in S : q < b})

\* Datagrams keep their order, and none is lost and received or under way.
InOrder ==
  /\ lostUp \in SUBSET Nat /\ IsFiniteSet(lostUp)
  /\ lostDown \in SUBSET Nat /\ IsFiniteSet(lostDown)
  /\ lostUp \cap lostDown = {}
  /\ \A q \in LostAny : q < sent
  /\ report.seq1 < sent
  /\ \A k \in 1..Flying :
       /\ Flight[k].seq1 \notin LostAny
       /\ report.seq1 < Flight[k].seq1 /\ Flight[k].seq1 < sent
       /\ \A l \in 1..Flying : k < l => Flight[k].seq1 < Flight[l].seq1

\* Every number sent is received, under way or lost.
Counted ==
  /\ report.seq1 + 1 - seq3 = Below(LostAny, report.seq1)
  /\ \A k \in 1..Flying : Flight[k].seq1 + 1 - seq3 - k = Below(LostAny, Flight[k].seq1)
  /\ sent - seq3 - Flying = Cardinality(LostAny)

\* And every number given by the server, as long as it goes on counting: its
\* numbers tell the replies lost.
DownCounted ==
  /\ \A k \in 1..Len(down) : down[k].seq2 + 1 - seq3 - k = Below(lostDown, down[k].seq1)
  /\ seqs[Session] - seq3 - Len(down) = Cardinality(lostDown)
  /\ \A q \in lostDown : \A k \in 1..Len(up) : q < up[k].seq1
Numbered ==
  /\ age[Session] = Never => seqs[Session] = 0
  /\ ~renumbered => DownCounted

\* When the probes on their way were sent, counted in changes of the address:
\* between two changes it stays the same.
SinceRebind(e, p) ==
  /\ e \in [1..Flying -> 0..rebinds] /\ p \in 0..rebinds /\ notices <= p
  /\ \A k \in 1..Flying :
       /\ p <= e[k]
       /\ e[k] = rebinds => Flight[k].ip = ip /\ Flight[k].port = port
       /\ previp # NoIP /\ e[k] = p =>
            Flight[k].ip = previp /\ Shown(Flight[k].port) = prevport
       /\ \A l \in 1..Flying : k < l => e[k] <= e[l]
       /\ \A l \in 1..Flying :
            e[k] = e[l] => Flight[k].ip = Flight[l].ip /\ Flight[k].port = Flight[l].port
  /\ previp # NoIP /\ p = rebinds => previp = ip /\ prevport = Shown(port)

Noticed == \E p \in 0..rebinds : \E e \in [1..Flying -> 0..rebinds] : SinceRebind(e, p)

\* Periods of probe so far.
Periods == IF awake THEN sent ELSE sent - 1

\* As long as probes are sent ages tell when.
OnTime ==
  sent < MaxSent =>
    /\ \A k \in 1..Len(up) : up[k].seq1 + up[k].age = Periods
    /\ \A k \in 1..Len(down) : down[k].seq1 + down[k].out + down[k].age = Periods
    /\ report.seq1 + quiet <= Periods

\* The server's clock says by how much it is ahead, and how long it took.
ApartRight ==
  ~rebooted => \A k \in 1..Len(down) : down[k].apart = down[k].out + skew

\* The base is that of a way out no longer than the shortest round trip.
BaseRight ==
  /\ report.seq1 < 0 => minrtt = NoRtt
  /\ report.seq1 >= 0 /\ ~rebooted => best - skew \in 0..minrtt

IInv ==
  TypeOK /\ InOrder /\ Counted /\ TotalLossRight /\ Numbered /\ SplitRight
  /\ Noticed /\ OnTime /\ NoFalseOutage /\ ApartRight /\ BaseRight
  /\ DelaysRight

------------------------------------------------------------------------------
(* What the actions do to the sequences.                                    *)

\* The types of the datagrams under way.
LEMMA Points ==
  ASSUME TypeOK
  PROVE  /\ Len(up) \in Nat /\ \A k \in 1..Len(up) : up[k] \in Probe
         /\ Len(down) \in Nat /\ \A k \in 1..Len(down) : down[k] \in Reply
         /\ DOMAIN up = 1..Len(up) /\ DOMAIN down = 1..Len(down)
  <1>1. up \in Seq(Probe) /\ down \in Seq(Reply)
    BY DEF TypeOK
  <1>. HIDE DEF Probe, Reply
  <1>. QED BY <1>1, LenProperties, ElementOfSeq

\* A sequence without one of its elements.
LEMMA RemoveAtSeq ==
  ASSUME NEW S, NEW s \in Seq(S), NEW i \in DOMAIN s
  PROVE  /\ RemoveAt(s, i) \in Seq(S)
         /\ Len(RemoveAt(s, i)) = Len(s) - 1
         /\ \A k \in 1..(Len(s) - 1) :
              RemoveAt(s, i)[k] = IF k < i THEN s[k] ELSE s[k + 1]
  <1>1. i \in 1..Len(s) /\ Len(s) \in Nat
    BY LenProperties
  <1>2. SubSeq(s, 1, i - 1) \in Seq(S) /\ Len(SubSeq(s, 1, i - 1)) = i - 1
        /\ \A j \in 1..(i - 1) : SubSeq(s, 1, i - 1)[j] = s[j]
    BY <1>1, SubSeqProperties, ElementOfSeq
  <1>3. SubSeq(s, i + 1, Len(s)) \in Seq(S)
        /\ Len(SubSeq(s, i + 1, Len(s))) = Len(s) - i
        /\ \A j \in 1..(Len(s) - i) : SubSeq(s, i + 1, Len(s))[j] = s[i + j]
    BY <1>1, SubSeqProperties, ElementOfSeq
  <1>4. RemoveAt(s, i) = SubSeq(s, 1, i - 1) \o SubSeq(s, i + 1, Len(s))
    BY DEF RemoveAt
  <1>. DEFINE a == SubSeq(s, 1, i - 1)
              b == SubSeq(s, i + 1, Len(s))
  <1>5. RemoveAt(s, i) \in Seq(S) /\ Len(RemoveAt(s, i)) = Len(s) - 1
        /\ \A k \in 1..(Len(s) - 1) :
             RemoveAt(s, i)[k] = IF k <= i - 1 THEN a[k] ELSE b[k - (i - 1)]
    <2>1. a \in Seq(S) /\ b \in Seq(S) /\ RemoveAt(s, i) = a \o b
          /\ Len(a) = i - 1 /\ Len(b) = Len(s) - i
      BY <1>2, <1>3, <1>4
    <2>. HIDE DEF a, b, RemoveAt
    <2>2. /\ a \o b \in Seq(S) /\ Len(a \o b) = Len(a) + Len(b)
          /\ \A k \in 1..Len(a) + Len(b) :
               (a \o b)[k] = IF k <= Len(a) THEN a[k] ELSE b[k - Len(a)]
      BY Zenon, <2>1, ConcatProperties
    <2>3. Len(a) + Len(b) = Len(s) - 1
      BY <1>1, <2>1
    <2>. QED BY Zenon, <2>1, <2>2, <2>3
  <1>6. \A k \in 1..(i - 1) : a[k] = s[k]
    BY <1>2
  <1>7. \A k \in 1..(Len(s) - i) : b[k] = s[i + k]
    BY <1>3
  <1>. HIDE DEF RemoveAt, a, b
  <1>8. ASSUME NEW k \in 1..(Len(s) - 1)
        PROVE  RemoveAt(s, i)[k] = IF k < i THEN s[k] ELSE s[k + 1]
    <2>1. CASE k < i
      BY <1>1, <1>5, <1>6, <2>1
    <2>2. CASE ~(k < i)
      <3>1. k - (i - 1) \in 1..(Len(s) - i) /\ i + (k - (i - 1)) = k + 1
        BY <1>1, <2>2
      <3>. QED BY SMTT(20), <1>1, <1>5, <1>7, <2>2, <3>1
    <2>. QED BY <2>1, <2>2
  <1>. QED BY <1>5, <1>8

\* The datagrams a tick older.
LEMMA MoreDelayedSeq ==
  ASSUME NEW S, NEW s \in Seq(S), \A k \in 1..Len(s) : [s[k] EXCEPT !.age = @ + 1] \in S
  PROVE  /\ MoreDelayed(s) \in Seq(S) /\ Len(MoreDelayed(s)) = Len(s)
         /\ \A k \in 1..Len(s) : MoreDelayed(s)[k] = [s[k] EXCEPT !.age = @ + 1]
  <1>1. Len(s) \in Nat /\ DOMAIN s = 1..Len(s)
    BY LenProperties
  <1>2. MoreDelayed(s) \in [1..Len(s) -> S]
    BY <1>1 DEF MoreDelayed
  <1>3. MoreDelayed(s) \in Seq(S)
    BY <1>1, <1>2, SeqDef
  <1>4. DOMAIN MoreDelayed(s) = 1..Len(s)
    BY <1>1 DEF MoreDelayed
  <1>5. Len(MoreDelayed(s)) = Len(s)
    BY <1>1, <1>3, <1>4, LenProperties
  <1>6. \A k \in 1..Len(s) : MoreDelayed(s)[k] = [s[k] EXCEPT !.age = @ + 1]
    BY <1>1 DEF MoreDelayed
  <1>. QED BY <1>3, <1>5, <1>6

\* What each action does to the two sequences.
LEMMA SendSeq ==
  ASSUME TypeOK, SendProbe
  PROVE  LET m == [seq1 |-> sent, ip |-> ip, port |-> port, age |-> 0]
         IN  /\ m \in Probe /\ up' \in Seq(Probe) /\ Len(up') = Len(up) + 1
             /\ \A k \in 1..Len(up) : up'[k] = up[k]
             /\ up'[Len(up) + 1] = m /\ down' = down
  <1>. DEFINE m == [seq1 |-> sent, ip |-> ip, port |-> port, age |-> 0]
  <1>1. m \in Probe
    BY SessionAssumption DEF TypeOK, Probe
  <1>2. up \in Seq(Probe) /\ up' = Append(up, m) /\ down' = down
    BY DEF TypeOK, SendProbe
  <1>. HIDE DEF m, Probe
  <1>3. up' \in Seq(Probe) /\ Len(up') = Len(up) + 1 /\ up'[Len(up) + 1] = m
        /\ \A k \in 1..Len(up) : up'[k] = up[k]
    BY <1>1, <1>2, AppendProperties
  <1>. QED BY <1>1, <1>2, <1>3 DEF m

LEMMA ServeSeq ==
  ASSUME TypeOK, Serve
  PROVE  LET m == up[1]
             r == [seq1 |-> m.seq1, seq2 |-> NumberFor(Session), ip |-> m.ip,
                   port |-> m.port, out |-> m.age, apart |-> m.age + skew, age |-> 0]
         IN  /\ Len(up) > 0 /\ m \in Probe /\ r \in Reply
             /\ up' \in Seq(Probe) /\ Len(up') = Len(up) - 1
             /\ \A k \in 1..(Len(up) - 1) : up'[k] = up[k + 1]
             /\ down' \in Seq(Reply) /\ Len(down') = Len(down) + 1
             /\ \A k \in 1..Len(down) : down'[k] = down[k]
             /\ down'[Len(down) + 1] = r
  <1>. DEFINE m == up[1]
              r == [seq1 |-> m.seq1, seq2 |-> NumberFor(Session), ip |-> m.ip,
                    port |-> m.port, out |-> m.age, apart |-> m.age + skew, age |-> 0]
  <1>1. up \in Seq(Probe) /\ down \in Seq(Reply) /\ up # <<>> /\ Head(up) = m
        /\ Len(up) \in Nat
    BY Points DEF TypeOK, Serve
  <1>2. down' = Append(down, r) /\ up' = Tail(up)
    BY <1>1 DEF Serve
  <1>3. NumberFor(Session) \in Nat
    BY SessionAssumption DEF TypeOK, NumberFor
  <1>4. m \in Probe /\ Len(up) > 0
    <2>. HIDE DEF Probe, Reply, m
    <2>. QED BY <1>1, HeadTailProperties, EmptySeq
  <1>5. r \in Reply
    <2>. HIDE DEF m
    <2>. QED BY <1>3, <1>4, SessionAssumption DEF TypeOK, Reply, Probe
  <1>. HIDE DEF m, r, Probe, Reply
  <1>6. up' \in Seq(Probe) /\ Len(up') = Len(up) - 1
        /\ \A k \in 1..(Len(up) - 1) : up'[k] = up[k + 1]
    BY <1>1, <1>2, HeadTailProperties
  <1>7. down' \in Seq(Reply) /\ Len(down') = Len(down) + 1 /\ down'[Len(down) + 1] = r
        /\ \A k \in 1..Len(down) : down'[k] = down[k]
    BY <1>1, <1>2, <1>5, AppendProperties
  <1>. QED BY <1>4, <1>5, <1>6, <1>7 DEF m, r

LEMMA ReceiveSeq ==
  ASSUME TypeOK, Receive
  PROVE  /\ Len(down) > 0 /\ Head(down) = down[1] /\ down[1] \in Reply
         /\ down' \in Seq(Reply) /\ Len(down') = Len(down) - 1
         /\ \A k \in 1..(Len(down) - 1) : down'[k] = down[k + 1]
         /\ up' = up
  <1>1. down \in Seq(Reply) /\ down # <<>> /\ Head(down) = down[1] /\ down' = Tail(down)
        /\ up' = up
    BY DEF TypeOK, Receive
  <1>. HIDE DEF Reply
  <1>2. down' \in Seq(Reply) /\ Len(down') = Len(down) - 1 /\ Len(down) > 0
        /\ (\A k \in 1..(Len(down) - 1) : down'[k] = down[k + 1]) /\ down[1] \in Reply
    BY <1>1, HeadTailProperties, EmptySeq
  <1>. QED BY <1>1, <1>2

LEMMA LoseProbeSeq ==
  ASSUME TypeOK, LoseProbe
  PROVE  \E i \in 1..Len(up) :
           /\ lostUp' = lostUp \cup {up[i].seq1} /\ down' = down /\ lostDown' = lostDown
           /\ up' \in Seq(Probe) /\ Len(up') = Len(up) - 1
           /\ \A k \in 1..(Len(up) - 1) : up'[k] = IF k < i THEN up[k] ELSE up[k + 1]
  <1>1. up \in Seq(Probe) /\ DOMAIN up = 1..Len(up)
    BY Points DEF TypeOK
  <1>2. PICK i \in DOMAIN up : up' = RemoveAt(up, i) /\ lostUp' = lostUp \cup {up[i].seq1}
    BY DEF LoseProbe
  <1>3. down' = down /\ lostDown' = lostDown
    BY DEF LoseProbe
  <1>. HIDE DEF Probe
  <1>. QED BY <1>1, <1>2, <1>3, RemoveAtSeq

LEMMA LoseReplySeq ==
  ASSUME TypeOK, LoseReply
  PROVE  \E i \in 1..Len(down) :
           /\ lostDown' = lostDown \cup {down[i].seq1} /\ up' = up /\ lostUp' = lostUp
           /\ down' \in Seq(Reply) /\ Len(down') = Len(down) - 1
           /\ \A k \in 1..(Len(down) - 1) :
                down'[k] = IF k < i THEN down[k] ELSE down[k + 1]
  <1>1. down \in Seq(Reply) /\ DOMAIN down = 1..Len(down)
    BY Points DEF TypeOK
  <1>2. PICK i \in DOMAIN down :
          down' = RemoveAt(down, i) /\ lostDown' = lostDown \cup {down[i].seq1}
    BY DEF LoseReply
  <1>3. up' = up /\ lostUp' = lostUp
    BY DEF LoseReply
  <1>. HIDE DEF Reply
  <1>. QED BY <1>1, <1>2, <1>3, RemoveAtSeq

LEMMA TickSeq ==
  ASSUME TypeOK, Tick
  PROVE  /\ up' \in Seq(Probe) /\ Len(up') = Len(up)
         /\ \A k \in 1..Len(up) : up'[k] = [up[k] EXCEPT !.age = @ + 1]
         /\ down' \in Seq(Reply) /\ Len(down') = Len(down)
         /\ \A k \in 1..Len(down) : down'[k] = [down[k] EXCEPT !.age = @ + 1]
  <1>1. up \in Seq(Probe) /\ down \in Seq(Reply) /\ InTime(up) /\ InTime(down)
        /\ up' = MoreDelayed(up) /\ down' = MoreDelayed(down)
    BY DEF TypeOK, Tick
  <1>2. \A k \in 1..Len(up) : [up[k] EXCEPT !.age = @ + 1] \in Probe
    <2>. SUFFICES ASSUME NEW m \in Probe, m.age < MaxDelay
                  PROVE  [m EXCEPT !.age = @ + 1] \in Probe
      BY <1>1, Points DEF InTime
    <2>1. [m EXCEPT !.age = @ + 1]
            = [seq1 |-> m.seq1, ip |-> m.ip, port |-> m.port, age |-> m.age + 1]
      BY DEF Probe
    <2>. QED BY <2>1, SessionAssumption DEF Probe
  <1>3. \A k \in 1..Len(down) : [down[k] EXCEPT !.age = @ + 1] \in Reply
    <2>. SUFFICES ASSUME NEW m \in Reply, m.age < MaxDelay
                  PROVE  [m EXCEPT !.age = @ + 1] \in Reply
      BY <1>1, Points DEF InTime
    <2>1. [m EXCEPT !.age = @ + 1]
            = [seq1 |-> m.seq1, seq2 |-> m.seq2, ip |-> m.ip, port |-> m.port,
               out |-> m.out, apart |-> m.apart, age |-> m.age + 1]
      BY DEF Reply
    <2>. QED BY <2>1, SessionAssumption DEF Reply
  <1>. HIDE DEF Probe, Reply
  <1>. QED BY <1>1, <1>2, <1>3, MoreDelayedSeq

\* The constants, without the product of SessionAssumption.
LEMMA PortsInt == \A p \in Ports : p \in Nat \ {0}
  BY SessionAssumption

LEMMA ConstantTypes ==
  /\ Session \in Ids /\ MaxDelay \in Nat /\ MaxSent \in Nat /\ OutageTicks \in Nat
  /\ Skews \subseteq Int /\ NoIP \notin IPs
  BY SessionAssumption

LEMMA ShownType == \A p \in Int : Shown(p) \in Int
  <1>. DEFINE w == ByteSize * ByteSize
  <1>1. w \in Nat \ {0}
    BY SessionAssumption
  <1>2. \A p \in Int : Shown(p) = IF p % ByteSize >= ByteSize \div 2
                                  THEN (p - ByteSize) % w ELSE p
    BY DEF Shown
  <1>. HIDE DEF w
  <1>3. \A p \in Int : (p - ByteSize) % w \in Int
    BY <1>1, SessionAssumption
  <1>. QED BY <1>2, <1>3

\* Every step keeps the types.
LEMMA TypeStep ==
  ASSUME TypeOK, [Next]_vars
  PROVE  TypeOK'
  <1>. USE ConstantTypes
  <1>1. CASE SendProbe
    <2>1. up' \in Seq(Probe) /\ down' \in Seq(Reply)
      BY <1>1, SendSeq DEF TypeOK
    <2>2. sent' \in 0..MaxSent /\ awake' \in BOOLEAN
      <3>1. sent' = sent + 1 /\ sent < MaxSent /\ awake' = FALSE
        BY <1>1 DEF SendProbe
      <3>2. sent \in 0..MaxSent
        BY DEF TypeOK
      <3>3. sent' \in 0..MaxSent
        BY <3>1, <3>2
      <3>4. awake' \in BOOLEAN
        BY <3>1
      <3>. QED BY <3>3, <3>4
    <2>3. UNCHANGED <<serverVars, addrVars, measureVars, resetVars>>
      BY <1>1 DEF SendProbe
    <2>. QED BY <2>1, <2>2, <2>3
      DEF TypeOK, serverVars, addrVars, measureVars, delayVars, resetVars
  <1>2. CASE Serve
    <2>1. up' \in Seq(Probe) /\ down' \in Seq(Reply)
      BY <1>2, ServeSeq
    <2>2. seqs' \in [Ids -> Nat] /\ age' \in [Ids -> Ages]
      BY SMTT(20), <1>2, ServerAssumption DEF TypeOK, Serve, Stamp, NumberFor, Ages
    <2>. QED BY <1>2, <2>1, <2>2
      DEF TypeOK, Serve, probeVars, addrVars, measureVars, delayVars
  <1>3. CASE ServerRestarts
    <2>1. seqs' \in [Ids -> Nat] /\ age' \in [Ids -> Ages]
      BY <1>3 DEF ServerRestarts, Restart, Ages
    <2>. QED BY <1>3, <2>1
      DEF TypeOK, ServerRestarts, probeVars, addrVars, netVars, measureVars, delayVars
  <1>4. CASE Receive
    <2>. DEFINE m == down[1]
    <2>1. m \in Reply /\ Head(down) = m /\ down' \in Seq(Reply) /\ up' \in Seq(Probe)
      BY <1>4, ReceiveSeq DEF TypeOK
    <2>2. /\ m.seq1 \in Nat /\ m.seq2 \in Nat /\ m.apart \in Int
          /\ m.out \in 0..MaxDelay /\ m.age \in 0..MaxDelay /\ m.ip \in IPs
      BY <2>1 DEF Reply
    <2>3. m.port \in Int
      <3>1. m.port \in Ports
        BY <2>1 DEF Reply
      <3>. QED BY <3>1, PortsInt
    <2>. HIDE DEF m
    <2>4. Shown(m.port) \in Int
      BY <2>3, ShownType
    <2>5. notices' \in Nat /\ previp' \in IPs /\ prevport' \in Int
      <3>1. /\ notices' = IF Notice(m.ip, Shown(m.port)) THEN notices + 1 ELSE notices
            /\ previp' = m.ip /\ prevport' = Shown(m.port)
        BY <1>4, <2>1 DEF Receive
      <3>2. notices \in Nat
        BY DEF TypeOK
      <3>. QED BY <2>2, <2>4, <3>1, <3>2
    <2>6. minrtt' \in 0..NoRtt /\ best' \in Int
      <3>1. minrtt' = IF m.out + m.age < minrtt THEN m.out + m.age ELSE minrtt
        BY <1>4, <2>1 DEF Receive
      <3>2. best' = IF m.out + m.age < minrtt THEN m.apart ELSE best
        BY <1>4, <2>1 DEF Receive, Base
      <3>3. minrtt \in 0..NoRtt /\ NoRtt \in Nat /\ best \in Int
        BY DEF TypeOK, NoRtt
      <3>. QED BY <2>2, <3>1, <3>2, <3>3
    <2>7. report' \in [seq1 : Nat \cup {-1}, out : Int, back : Int, off : Int]
      <3>1. (m.apart - best') + (minrtt' \div 2) - m.out \in Int
        <4>1. minrtt' \div 2 \in Int
          BY <2>6
        <4>. QED BY <2>2, <2>6, <4>1
      <3>2. report' = [seq1 |-> m.seq1, out |-> (m.seq1 - seq3) - (m.seq2 - seq3),
                       back |-> m.seq2 - seq3,
                       off |-> (m.apart - best') + (minrtt' \div 2) - m.out]
        <4>1. report' = [seq1 |-> m.seq1, out |-> Losses(m).out, back |-> Losses(m).back,
                         off |-> (m.apart - best') + (minrtt' \div 2) - m.out]
          BY <1>4, <2>1 DEF Receive
        <4>. QED BY <4>1 DEF Losses
      <3>3. seq3 \in Int
        BY DEF TypeOK
      <3>. QED BY <2>2, <3>1, <3>2, <3>3
    <2>8. seq3' \in Nat /\ quiet' \in Nat
      BY <1>4 DEF TypeOK, Receive
    <2>. QED BY <1>4, <2>1, <2>5, <2>6, <2>7, <2>8
      DEF TypeOK, Receive, serverVars, probeVars, addrVars, resetVars
  <1>5. CASE ReceiveTimeout
    BY <1>5 DEF TypeOK, ReceiveTimeout, serverVars, probeVars, addrVars, netVars,
                delayVars, resetVars
  <1>6. CASE LoseProbe
    <2>1. up' \in Seq(Probe) /\ down' \in Seq(Reply)
      BY <1>6, LoseProbeSeq DEF TypeOK
    <2>. QED BY <1>6, <2>1
      DEF TypeOK, LoseProbe, serverVars, probeVars, addrVars, measureVars, delayVars,
          resetVars
  <1>7. CASE LoseReply
    <2>1. up' \in Seq(Probe) /\ down' \in Seq(Reply)
      BY <1>7, LoseReplySeq DEF TypeOK
    <2>. QED BY <1>7, <2>1
      DEF TypeOK, LoseReply, serverVars, probeVars, addrVars, measureVars, delayVars,
          resetVars
  <1>8. CASE Rebind
    BY <1>8 DEF TypeOK, Rebind, serverVars, probeVars, netVars, measureVars, delayVars,
                resetVars
  <1>9. CASE Tick
    <2>1. up' \in Seq(Probe) /\ down' \in Seq(Reply)
      BY <1>9, TickSeq
    <2>2. seqs' \in [Ids -> Nat] /\ age' \in [Ids -> Ages]
      BY <1>9, ServerAssumption DEF TypeOK, Tick, GrowOlder, Older, Ages, Never
    <2>. QED BY <1>9, <2>1, <2>2
      DEF TypeOK, Tick, addrVars, delayVars, resetVars
  <1>10. CASE UNCHANGED vars
    BY <1>10 DEF TypeOK, vars, serverVars, probeVars, addrVars, netVars, measureVars,
                 delayVars, resetVars
  <1>. QED BY <1>1, <1>2, <1>3, <1>4, <1>5, <1>6, <1>7, <1>8, <1>9, <1>10 DEF Next

\* The flight as it was, and without its i-th datagram.
SameFlight == Flying' = Flying /\ \A k \in 1..Flying : Flight'[k] = Flight[k]
Leaves(i) ==
  /\ i \in 1..Flying /\ Flying' = Flying - 1
  /\ \A k \in 1..(Flying - 1) : Flight'[k] = IF k < i THEN Flight[k] ELSE Flight[k + 1]

\* FlightType, and what each action does to the flight.
LEMMA FlightType ==
  ASSUME TypeOK
  PROVE  /\ Flying \in Nat
         /\ \A k \in 1..Flying : Flight[k] \in [seq1 : Nat, ip : IPs, port : Ports]
  <1>1. Flying \in Nat
    BY Points DEF Flying
  <1>2. ASSUME NEW k \in 1..Flying
        PROVE  Flight[k] \in [seq1 : Nat, ip : IPs, port : Ports]
    <2>1. CASE k <= Len(down)
      BY <2>1, Points DEF Flying, Flight, Reply
    <2>2. CASE k > Len(down)
      <3>1. k - Len(down) \in 1..Len(up)
        BY <2>2, Points DEF Flying
      <3>. QED BY <2>2, <3>1, Points DEF Flying, Flight, Probe
    <2>. QED BY <2>1, <2>2, Points
  <1>. QED BY <1>1, <1>2

LEMMA SendFlight ==
  ASSUME TypeOK, SendProbe
  PROVE  /\ Flying' = Flying + 1
         /\ \A k \in 1..Flying : Flight'[k] = Flight[k]
         /\ Flight'[Flying + 1] = [seq1 |-> sent, ip |-> ip, port |-> port]
  <1>. DEFINE m == [seq1 |-> sent, ip |-> ip, port |-> port, age |-> 0]
  <1>1. /\ Len(up') = Len(up) + 1 /\ \A k \in 1..Len(up) : up'[k] = up[k]
        /\ up'[Len(up) + 1] = m /\ down' = down
    BY SendSeq
  <1>2. Flying' = Flying + 1
    BY <1>1, Points DEF Flying
  <1>3. ASSUME NEW k \in 1..Flying
        PROVE  Flight'[k] = Flight[k]
    <2>1. CASE k <= Len(down)
      BY <1>1, <1>2, <2>1, Points DEF Flying, Flight
    <2>2. CASE k > Len(down)
      <3>1. k - Len(down) \in 1..Len(up)
        BY <2>2, Points DEF Flying
      <3>. QED BY <1>1, <1>2, <2>2, <3>1, Points DEF Flying, Flight
    <2>. QED BY <2>1, <2>2, Points
  <1>4. Flight'[Flying + 1] = [seq1 |-> sent, ip |-> ip, port |-> port]
    <2>1. (Flying + 1) - Len(down) = Len(up) + 1 /\ Flying + 1 \in 1..Flying'
          /\ ~(Flying + 1 <= Len(down'))
      BY <1>1, <1>2, Points DEF Flying
    <2>2. up'[(Flying + 1) - Len(down')] = m
      BY <1>1, <2>1
    <2>. QED BY <2>1, <2>2 DEF Flight
  <1>. QED BY <1>2, <1>3, <1>4

LEMMA ServeFlight ==
  ASSUME TypeOK, Serve
  PROVE  SameFlight
  <1>1. /\ Len(up) > 0 /\ Len(up') = Len(up) - 1
        /\ \A k \in 1..(Len(up) - 1) : up'[k] = up[k + 1]
        /\ Len(down') = Len(down) + 1
        /\ \A k \in 1..Len(down) : down'[k] = down[k]
        /\ down'[Len(down) + 1].seq1 = up[1].seq1
        /\ down'[Len(down) + 1].ip = up[1].ip
        /\ down'[Len(down) + 1].port = up[1].port
    BY ServeSeq
  <1>2. Flying' = Flying
    BY <1>1, Points DEF Flying
  <1>3. ASSUME NEW k \in 1..Flying
        PROVE  Flight'[k] = Flight[k]
    <2>1. CASE k <= Len(down)
      BY <1>1, <1>2, <2>1, Points DEF Flying, Flight
    <2>2. CASE k = Len(down) + 1
      BY <1>1, <1>2, <2>2, Points DEF Flying, Flight
    <2>3. CASE k > Len(down) + 1
      <3>1. k - Len(down') \in 1..(Len(up) - 1) /\ k - Len(down') + 1 = k - Len(down)
        BY <1>1, <2>3, Points DEF Flying
      <3>2. up'[k - Len(down')] = up[k - Len(down)]
        BY <1>1, <3>1
      <3>. QED BY <1>1, <1>2, <2>3, <3>2, Points DEF Flying, Flight
    <2>. QED BY <2>1, <2>2, <2>3, Points
  <1>. QED BY <1>2, <1>3 DEF SameFlight

LEMMA TickFlight ==
  ASSUME TypeOK, Tick
  PROVE  SameFlight
  <1>1. /\ Len(up') = Len(up) /\ Len(down') = Len(down)
        /\ \A k \in 1..Len(up) : up'[k] = [up[k] EXCEPT !.age = @ + 1]
        /\ \A k \in 1..Len(down) : down'[k] = [down[k] EXCEPT !.age = @ + 1]
    BY TickSeq
  <1>2. \A k \in 1..Len(up) : up'[k].seq1 = up[k].seq1 /\ up'[k].ip = up[k].ip
                              /\ up'[k].port = up[k].port
    BY <1>1, Points DEF Probe
  <1>3. \A k \in 1..Len(down) : down'[k].seq1 = down[k].seq1 /\ down'[k].ip = down[k].ip
                                /\ down'[k].port = down[k].port
    BY <1>1, Points DEF Reply
  <1>4. Flying' = Flying
    BY <1>1 DEF Flying
  <1>5. ASSUME NEW k \in 1..Flying
        PROVE  Flight'[k] = Flight[k]
    <2>1. CASE k <= Len(down)
      BY <1>1, <1>3, <1>4, <2>1, Points DEF Flying, Flight
    <2>2. CASE k > Len(down)
      <3>1. k - Len(down) \in 1..Len(up)
        BY <2>2, Points DEF Flying
      <3>. QED BY <1>1, <1>2, <1>4, <2>2, <3>1, Points DEF Flying, Flight
    <2>. QED BY <2>1, <2>2, Points
  <1>. QED BY <1>4, <1>5 DEF SameFlight

LEMMA ReceiveFlight ==
  ASSUME TypeOK, Receive
  PROVE  /\ Leaves(1) /\ Flight[1].seq1 = down[1].seq1
         /\ Flight[1].ip = down[1].ip /\ Flight[1].port = down[1].port
  <1>1. /\ Len(down) > 0 /\ Len(down') = Len(down) - 1 /\ up' = up
        /\ \A k \in 1..(Len(down) - 1) : down'[k] = down[k + 1]
    BY ReceiveSeq
  <1>2. Flying' = Flying - 1 /\ 1 \in 1..Flying
    BY <1>1, Points DEF Flying
  <1>3. ASSUME NEW k \in 1..(Flying - 1)
        PROVE  Flight'[k] = Flight[k + 1]
    <2>1. CASE k <= Len(down) - 1
      BY <1>1, <1>2, <2>1, Points DEF Flying, Flight
    <2>2. CASE k > Len(down) - 1
      <3>1. k - Len(down') = (k + 1) - Len(down)
        BY <1>1, Points
      <3>. QED BY <1>1, <1>2, <2>2, <3>1, Points DEF Flying, Flight
    <2>. QED BY <2>1, <2>2, Points
  <1>4. Flight[1].seq1 = down[1].seq1 /\ Flight[1].ip = down[1].ip
        /\ Flight[1].port = down[1].port
    BY <1>1, <1>2, Points DEF Flight
  <1>. QED BY <1>2, <1>3, <1>4 DEF Leaves

LEMMA LoseProbeFlight ==
  ASSUME TypeOK, LoseProbe
  PROVE  \E i \in 1..Flying :
           Leaves(i) /\ lostUp' = lostUp \cup {Flight[i].seq1} /\ lostDown' = lostDown
           /\ i > Len(down)
  <1>1. PICK j \in 1..Len(up) :
           /\ lostUp' = lostUp \cup {up[j].seq1} /\ down' = down /\ lostDown' = lostDown
           /\ Len(up') = Len(up) - 1
           /\ \A k \in 1..(Len(up) - 1) : up'[k] = IF k < j THEN up[k] ELSE up[k + 1]
    BY LoseProbeSeq
  <1>. DEFINE i == Len(down) + j
  <1>2. i \in 1..Flying /\ Flying' = Flying - 1 /\ i > Len(down) /\ i - Len(down) = j
    BY <1>1, Points DEF Flying
  <1>3. Flight[i].seq1 = up[j].seq1
    BY <1>1, <1>2, Points DEF Flight, Flying
  <1>4. ASSUME NEW k \in 1..(Flying - 1)
        PROVE  Flight'[k] = IF k < i THEN Flight[k] ELSE Flight[k + 1]
    <2>1. CASE k <= Len(down)
      BY <1>1, <1>2, <2>1, Points DEF Flying, Flight
    <2>2. CASE k > Len(down)
      <3>1. k - Len(down) \in 1..(Len(up) - 1) /\ (k + 1) - Len(down) = (k - Len(down)) + 1
            /\ (k < i <=> k - Len(down) < j)
        BY <1>1, <2>2, Points DEF Flying
      <3>2. up'[k - Len(down)] = IF k < i THEN up[k - Len(down)] ELSE up[(k + 1) - Len(down)]
        BY <1>1, <3>1
      <3>. HIDE DEF i
      <3>. QED BY <1>1, <1>2, <2>2, <3>2, Points DEF Flying, Flight
    <2>. QED BY <2>1, <2>2, Points
  <1>. HIDE DEF i
  <1>. QED BY <1>1, <1>2, <1>3, <1>4 DEF Leaves

LEMMA LoseReplyFlight ==
  ASSUME TypeOK, LoseReply
  PROVE  \E i \in 1..Len(down) :
           /\ i \in 1..Flying /\ Leaves(i) /\ lostUp' = lostUp
           /\ lostDown' = lostDown \cup {Flight[i].seq1} /\ up' = up
           /\ Len(down') = Len(down) - 1
           /\ \A k \in 1..(Len(down) - 1) :
                down'[k] = IF k < i THEN down[k] ELSE down[k + 1]
  <1>1. PICK i \in 1..Len(down) :
           /\ lostDown' = lostDown \cup {down[i].seq1} /\ up' = up /\ lostUp' = lostUp
           /\ Len(down') = Len(down) - 1
           /\ \A k \in 1..(Len(down) - 1) :
                down'[k] = IF k < i THEN down[k] ELSE down[k + 1]
    BY LoseReplySeq
  <1>2. i \in 1..Flying /\ Flying' = Flying - 1
    BY <1>1, Points DEF Flying
  <1>3. Flight[i].seq1 = down[i].seq1
    BY <1>1, <1>2, Points DEF Flight, Flying
  <1>4. ASSUME NEW k \in 1..(Flying - 1)
        PROVE  Flight'[k] = IF k < i THEN Flight[k] ELSE Flight[k + 1]
    <2>1. CASE k <= Len(down) - 1
      BY SMTT(20), <1>1, <1>2, <2>1, Points DEF Flying, Flight
    <2>2. CASE k > Len(down) - 1
      <3>1. k - Len(down') = (k + 1) - Len(down) /\ ~(k < i)
        BY <1>1, <2>2, Points
      <3>. QED BY <1>1, <1>2, <2>2, <3>1, Points DEF Flying, Flight
    <2>. QED BY <2>1, <2>2, Points
  <1>. QED BY <1>1, <1>2, <1>3, <1>4 DEF Leaves

------------------------------------------------------------------------------
(* What a step does to the numbers under way.                               *)

\* A step as the line of numbers sees it: nothing, one more at the end, the
\* first received, or one lost.
Stays == SameFlight /\ UNCHANGED <<sent, seq3, report, lostUp, lostDown>>
Sends ==
  /\ Flying' = Flying + 1 /\ \A k \in 1..Flying : Flight'[k] = Flight[k]
  /\ Flight'[Flying + 1] = [seq1 |-> sent, ip |-> ip, port |-> port]
  /\ sent' = sent + 1 /\ UNCHANGED <<seq3, report, lostUp, lostDown>>
Arrives ==
  /\ Leaves(1) /\ seq3' = seq3 + 1 /\ report'.seq1 = Flight[1].seq1
  /\ report'.out + report'.back = Flight[1].seq1 - seq3
  /\ UNCHANGED <<sent, lostUp, lostDown>>
IsLost(i) ==
  /\ Leaves(i) /\ UNCHANGED <<sent, seq3, report>>
  /\ \/ lostUp' = lostUp \cup {Flight[i].seq1} /\ lostDown' = lostDown
     \/ lostDown' = lostDown \cup {Flight[i].seq1} /\ lostUp' = lostUp

\* Every action is one of them.
LEMMA FlightStep ==
  ASSUME TypeOK, [Next]_vars
  PROVE  Stays \/ Sends \/ Arrives \/ \E i \in 1..Flying : IsLost(i)
  <1>. USE ConstantTypes
  <1>1. CASE SendProbe
    <2>1. sent' = sent + 1 /\ UNCHANGED <<seq3, report, lostUp, lostDown>>
      BY <1>1 DEF SendProbe, measureVars
    <2>. QED BY <1>1, <2>1, SendFlight DEF Sends
  <1>2. CASE Serve
    <2>1. UNCHANGED <<sent, seq3, report, lostUp, lostDown>>
      BY <1>2 DEF Serve, probeVars, measureVars
    <2>. QED BY <1>2, <2>1, ServeFlight DEF Stays
  <1>3. CASE Receive
    <2>. DEFINE m == down[1]
    <2>1. Leaves(1) /\ Flight[1].seq1 = m.seq1 /\ Head(down) = m /\ m \in Reply
      BY <1>3, ReceiveFlight, ReceiveSeq
    <2>2. seq3' = seq3 + 1 /\ UNCHANGED <<sent, lostUp, lostDown>>
      BY <1>3 DEF Receive, probeVars
    <2>3. report'.seq1 = m.seq1 /\ report'.out = Losses(m).out
          /\ report'.back = Losses(m).back
      BY <1>3, <2>1 DEF Receive
    <2>4. m.seq1 \in Int /\ m.seq2 \in Int /\ seq3 \in Int
      BY SMTT(20), <2>1 DEF Reply, TypeOK
    <2>. HIDE DEF m
    <2>5. report'.out + report'.back = m.seq1 - seq3
      BY <2>3, <2>4 DEF Losses
    <2>. QED BY <2>1, <2>2, <2>3, <2>5 DEF Arrives
  <1>4. CASE LoseProbe
    <2>1. UNCHANGED <<sent, seq3, report>>
      BY <1>4 DEF LoseProbe, probeVars, measureVars
    <2>. QED BY <1>4, <2>1, LoseProbeFlight DEF IsLost
  <1>5. CASE LoseReply
    <2>1. UNCHANGED <<sent, seq3, report>>
      BY <1>5 DEF LoseReply, probeVars, measureVars
    <2>. QED BY <1>5, <2>1, LoseReplyFlight DEF IsLost
  <1>6. CASE Tick
    <2>1. UNCHANGED <<sent, seq3, report, lostUp, lostDown>>
      BY <1>6 DEF Tick
    <2>. QED BY <1>6, <2>1, TickFlight DEF Stays
  <1>7. CASE ServerRestarts \/ ReceiveTimeout \/ Rebind \/ UNCHANGED vars
    <2>1. UNCHANGED <<up, down, sent, seq3, report, lostUp, lostDown>>
      BY <1>7 DEF ServerRestarts, ReceiveTimeout, Rebind, vars, probeVars, netVars,
                  measureVars
    <2>2. Flying' = Flying /\ Flight' = Flight
      BY <2>1 DEF Flying, Flight
    <2>. QED BY <2>1, <2>2 DEF Stays, SameFlight
  <1>. QED BY <1>1, <1>2, <1>3, <1>4, <1>5, <1>6, <1>7 DEF Next

\* A number not yet lost is lost.
LEMMA BelowAdd ==
  ASSUME NEW S \in SUBSET Nat, IsFiniteSet(S), NEW x \in Nat, x \notin S, NEW b \in Int
  PROVE  Below(S \cup {x}, b) = IF x < b THEN Below(S, b) + 1 ELSE Below(S, b)
  <1>. DEFINE T == {q \in S : q < b}
  <1>1. IsFiniteSet(T) /\ x \notin T
    BY FS_Subset
  <1>2. {q \in S \cup {x} : q < b} = IF x < b THEN T \cup {x} ELSE T
    OBVIOUS
  <1>. HIDE DEF T
  <1>3. Cardinality(T \cup {x}) = Cardinality(T) + 1
    BY <1>1, FS_AddElement
  <1>4. Below(S, b) = Cardinality(T)
    BY DEF Below, T
  <1>. QED BY <1>2, <1>3, <1>4 DEF Below

LEMMA BelowBounds ==
  ASSUME NEW S \in SUBSET Nat, IsFiniteSet(S), NEW b \in Int
  PROVE  /\ Cardinality(S) \in Nat /\ Below(S, b) \in Nat /\ Below(S, b) <= Cardinality(S)
         /\ (\A q \in S : q < b) => Below(S, b) = Cardinality(S)
  <1>. DEFINE T == {q \in S : q < b}
  <1>1. T \in SUBSET S /\ ((\A q \in S : q < b) => T = S)
    OBVIOUS
  <1>2. Below(S, b) = Cardinality(T)
    BY DEF Below
  <1>. HIDE DEF T
  <1>. QED BY <1>1, <1>2, FS_Subset, FS_CardinalityType

\* Numbers no greater than b do not matter to what is lost before b.
LEMMA BelowSame ==
  ASSUME NEW S \in SUBSET Nat, NEW x \in Nat, NEW b \in Int, ~(x < b)
  PROVE  Below(S \cup {x}, b) = Below(S, b)
  <1>1. {q \in S \cup {x} : q < b} = {q \in S : q < b}
    OBVIOUS
  <1>. QED BY <1>1 DEF Below

LEMMA LostAnyFinite ==
  ASSUME InOrder
  PROVE  LostAny \in SUBSET Nat /\ IsFiniteSet(LostAny)
  BY FS_Union DEF InOrder, LostAny

LEMMA NumberTypes ==
  ASSUME TypeOK
  PROVE  /\ Flying \in Nat /\ sent \in Nat /\ report.seq1 \in Int /\ seq3 \in Nat
         /\ \A k \in 1..Flying : Flight[k].seq1 \in Nat
  <1>1. \A k \in 1..Flying : Flight[k].seq1 \in Nat
    BY FlightType
  <1>2. report.seq1 \in Int
    BY DEF TypeOK
  <1>3. sent \in Nat /\ seq3 \in Nat
    BY ConstantTypes DEF TypeOK
  <1>. QED BY <1>1, <1>2, <1>3, FlightType

\* Every step keeps the order, the count, and so the total loss printed.
LEMMA InOrderStep ==
  ASSUME TypeOK, TypeOK', InOrder, [Next]_vars
  PROVE  InOrder'
  <1>0. /\ Flying \in Nat /\ sent \in Nat /\ report.seq1 \in Int
        /\ \A k \in 1..Flying : Flight[k].seq1 \in Nat
    BY NumberTypes
  <1>1. CASE Stays
    BY <1>1 DEF InOrder, Stays, SameFlight, LostAny
  <1>2. CASE Sends
    <2>1. 1..Flying' = (1..Flying) \cup {Flying + 1}
      BY <1>0, <1>2 DEF Sends
    <2>2. \A k \in 1..Flying' :
            \/ k \in 1..Flying /\ Flight'[k] = Flight[k]
            \/ k = Flying + 1 /\ Flight'[k].seq1 = sent
      BY <1>2, <2>1 DEF Sends
    <2>3. \A k \in 1..Flying' : Flight'[k].seq1 \notin LostAny'
                                /\ report.seq1 < Flight'[k].seq1 /\ Flight'[k].seq1 < sent + 1
      BY <1>0, <1>2, <2>2 DEF InOrder, Sends, LostAny
    <2>4. \A k, l \in 1..Flying' : k < l => Flight'[k].seq1 < Flight'[l].seq1
      BY <1>0, <2>2 DEF InOrder
    <2>. QED BY <1>0, <1>2, <2>3, <2>4 DEF InOrder, Sends, LostAny
  <1>3. CASE Arrives
    <2>1. 1 \in 1..Flying /\ Flying' = Flying - 1
          /\ \A k \in 1..Flying' : k + 1 \in 1..Flying /\ Flight'[k] = Flight[k + 1]
      BY <1>0, <1>3 DEF Arrives, Leaves
    <2>2. \A k \in 1..Flying' : Flight'[k].seq1 \notin LostAny
                                /\ Flight[1].seq1 < Flight'[k].seq1 /\ Flight'[k].seq1 < sent
      BY <1>0, <2>1 DEF InOrder
    <2>3. \A k, l \in 1..Flying' : k < l => Flight'[k].seq1 < Flight'[l].seq1
      BY <1>0, <2>1 DEF InOrder
    <2>. QED BY <1>0, <1>3, <2>1, <2>2, <2>3 DEF InOrder, Arrives, LostAny
  <1>4. ASSUME NEW i \in 1..Flying, IsLost(i)
        PROVE  InOrder'
    <2>. DEFINE x == Flight[i].seq1
                j(k) == IF k < i THEN k ELSE k + 1
    <2>1. Flying' = Flying - 1 /\ sent' = sent /\ report' = report
          /\ \A k \in 1..Flying' : j(k) \in 1..Flying /\ j(k) # i /\ Flight'[k] = Flight[j(k)]
      BY <1>0, <1>4 DEF IsLost, Leaves
    <2>2. LostAny' = LostAny \cup {x} /\ x \in Nat /\ x < sent /\ x \notin LostAny
          /\ report.seq1 < x
      BY <1>0, <1>4 DEF IsLost, LostAny, InOrder
    <2>3. \A k \in 1..Flying' : \A l \in 1..Flying' : k < l => j(k) < j(l)
      BY <1>0
    <2>4. \A k \in 1..Flying : \A l \in 1..Flying : k < l => Flight[k].seq1 < Flight[l].seq1
      BY DEF InOrder
    <2>. HIDE DEF j
    <2>5. \A k, l \in 1..Flying' : k < l => Flight'[k].seq1 < Flight'[l].seq1
      BY <2>1, <2>3, <2>4
    <2>6. \A k \in 1..Flying : k # i => Flight[k].seq1 # x
      BY <1>0, <2>4
    <2>7. \A k \in 1..Flying' : Flight'[k].seq1 \notin LostAny'
                                /\ report.seq1 < Flight'[k].seq1 /\ Flight'[k].seq1 < sent
      BY <2>1, <2>2, <2>6 DEF InOrder
    <2>8. /\ lostUp' \in SUBSET Nat /\ IsFiniteSet(lostUp')
          /\ lostDown' \in SUBSET Nat /\ IsFiniteSet(lostDown')
          /\ lostUp' \cap lostDown' = {}
      <3>1. x \notin lostUp /\ x \notin lostDown
        BY <2>2 DEF LostAny
      <3>2. IsFiniteSet(lostUp \cup {x}) /\ IsFiniteSet(lostDown \cup {x})
        BY FS_AddElement DEF InOrder
      <3>. QED BY <1>4, <2>2, <3>1, <3>2 DEF InOrder, IsLost
    <2>9. \A q \in LostAny' : q < sent
      BY <2>2 DEF InOrder
    <2>. QED BY <2>1, <2>5, <2>7, <2>8, <2>9 DEF InOrder
  <1>. QED BY <1>1, <1>2, <1>3, <1>4, FlightStep

LEMMA CountedStep ==
  ASSUME TypeOK, TypeOK', InOrder, Counted, [Next]_vars
  PROVE  Counted'
  <1>0. /\ Flying \in Nat /\ sent \in Nat /\ report.seq1 \in Int /\ seq3 \in Nat
        /\ \A k \in 1..Flying : Flight[k].seq1 \in Nat
        /\ LostAny \in SUBSET Nat /\ IsFiniteSet(LostAny) /\ Cardinality(LostAny) \in Nat
    BY NumberTypes, LostAnyFinite, FS_CardinalityType
  <1>1. CASE Stays
    BY <1>1 DEF Counted, Stays, SameFlight, LostAny, Below
  <1>2. CASE Sends
    <2>1. LostAny' = LostAny
      BY <1>2 DEF Sends, LostAny
    <2>2. \A k \in 1..Flying' :
            \/ k \in 1..Flying /\ Flight'[k] = Flight[k]
            \/ k = Flying + 1 /\ Flight'[k].seq1 = sent
      BY <1>0, <1>2 DEF Sends
    <2>3. Below(LostAny, sent) = Cardinality(LostAny)
      BY <1>0, BelowBounds DEF InOrder
    <2>4. \A k \in 1..Flying' :
            Flight'[k].seq1 + 1 - seq3 - k = Below(LostAny, Flight'[k].seq1)
      BY <1>0, <2>2, <2>3 DEF Counted
    <2>5. (sent + 1) - seq3 - Flying' = Cardinality(LostAny)
      BY <1>0, <1>2 DEF Counted, Sends
    <2>6. report.seq1 + 1 - seq3 = Below(LostAny, report.seq1)
      BY DEF Counted
    <2>. QED BY <1>2, <2>1, <2>4, <2>5, <2>6 DEF Counted, Sends, Below
  <1>3. CASE Arrives
    <2>1. 1 \in 1..Flying /\ Flying' = Flying - 1
          /\ \A k \in 1..Flying' : k + 1 \in 1..Flying /\ Flight'[k] = Flight[k + 1]
      BY <1>0, <1>3 DEF Arrives, Leaves
    <2>2. LostAny' = LostAny /\ seq3' = seq3 + 1 /\ sent' = sent
          /\ report'.seq1 = Flight[1].seq1
      BY <1>3 DEF Arrives, LostAny
    <2>3. \A k \in 1..Flying' :
            Flight'[k].seq1 + 1 - (seq3 + 1) - k = Below(LostAny, Flight'[k].seq1)
      BY <1>0, <2>1 DEF Counted
    <2>4. Flight[1].seq1 + 1 - (seq3 + 1) = Below(LostAny, Flight[1].seq1)
      BY <1>0, <2>1 DEF Counted
    <2>5. sent - (seq3 + 1) - Flying' = Cardinality(LostAny)
      BY <1>0, <2>1 DEF Counted
    <2>. QED BY <2>2, <2>3, <2>4, <2>5 DEF Counted, Below
  <1>4. ASSUME NEW i \in 1..Flying, IsLost(i)
        PROVE  Counted'
    <2>. DEFINE x == Flight[i].seq1
    <2>1. Flying' = Flying - 1 /\ sent' = sent /\ report' = report /\ seq3' = seq3
          /\ \A k \in 1..Flying' : Flight'[k] = IF k < i THEN Flight[k] ELSE Flight[k + 1]
      BY <1>0, <1>4 DEF IsLost, Leaves
    <2>2. LostAny' = LostAny \cup {x} /\ x \in Nat /\ x \notin LostAny /\ report.seq1 < x
      <3>1. LostAny' = LostAny \cup {x}
        BY <1>4 DEF IsLost, LostAny
      <3>. QED BY <1>0, <3>1 DEF InOrder
    <2>3. report.seq1 + 1 - seq3 = Below(LostAny', report.seq1)
      <3>. HIDE DEF x
      <3>1. ~(x < report.seq1)
        BY <1>0, <2>2
      <3>2. Below(LostAny', report.seq1) = Below(LostAny, report.seq1)
        BY <1>0, <2>2, <3>1, BelowSame
      <3>. QED BY <3>2 DEF Counted
    <2>4. Cardinality(LostAny') = Cardinality(LostAny) + 1
      BY <1>0, <2>2, FS_AddElement
    <2>5. ASSUME NEW k \in 1..Flying'
          PROVE  Flight'[k].seq1 + 1 - seq3 - k = Below(LostAny', Flight'[k].seq1)
      <3>1. CASE k < i
        <4>1. k \in 1..Flying /\ Flight'[k] = Flight[k] /\ ~(x < Flight[k].seq1)
          BY <1>0, <2>1, <3>1 DEF InOrder
        <4>. QED BY <1>0, <2>2, <4>1, BelowSame DEF Counted
      <3>2. CASE ~(k < i)
        <4>1. k + 1 \in 1..Flying /\ Flight'[k] = Flight[k + 1] /\ x < Flight[k + 1].seq1
          BY <1>0, <2>1, <3>2 DEF InOrder
        <4>2. Below(LostAny', Flight[k + 1].seq1) = Below(LostAny, Flight[k + 1].seq1) + 1
          BY <1>0, <2>2, <4>1, BelowAdd
        <4>3. Flight[k + 1].seq1 + 1 - seq3 - (k + 1) = Below(LostAny, Flight[k + 1].seq1)
          BY <4>1 DEF Counted
        <4>. QED BY <1>0, <2>1, <4>1, <4>2, <4>3
      <3>. QED BY <3>1, <3>2
    <2>6. sent - seq3 - Flying' = Cardinality(LostAny')
      BY <1>0, <2>1, <2>4 DEF Counted
    <2>. QED BY <2>1, <2>3, <2>5, <2>6 DEF Counted, Below
  <1>. QED BY <1>1, <1>2, <1>3, <1>4, FlightStep

LEMMA TotalLossStep ==
  ASSUME TypeOK, InOrder, Counted, TotalLossRight, [Next]_vars
  PROVE  TotalLossRight'
  <1>0. /\ Flying \in Nat /\ report.seq1 \in Int /\ seq3 \in Nat
        /\ \A k \in 1..Flying : Flight[k].seq1 \in Nat
        /\ LostAny \in SUBSET Nat
    BY NumberTypes, LostAnyFinite
  <1>1. CASE Stays \/ Sends
    BY <1>1 DEF TotalLossRight, Before, Stays, Sends
  <1>2. CASE Arrives
    <2>1. 1 \in 1..Flying /\ Flight[1].seq1 - seq3 = Below(LostAny, Flight[1].seq1)
      BY <1>0, <1>2 DEF Arrives, Leaves, Counted
    <2>. QED BY <1>2, <2>1 DEF TotalLossRight, Before, Arrives, Below, LostAny
  <1>3. ASSUME NEW i \in 1..Flying, IsLost(i)
        PROVE  TotalLossRight'
    <2>. DEFINE x == Flight[i].seq1
    <2>1. LostAny' = LostAny \cup {x} /\ report' = report
      BY <1>3 DEF IsLost, LostAny
    <2>2. x \in Nat /\ ~(x < report.seq1)
      BY <1>0 DEF InOrder
    <2>. HIDE DEF x
    <2>3. Below(LostAny', report.seq1) = Below(LostAny, report.seq1)
      BY <1>0, <2>1, <2>2, BelowSame
    <2>. QED BY <2>1, <2>3 DEF TotalLossRight, Before, Below, LostAny
  <1>. QED BY <1>1, <1>2, <1>3, FlightStep

------------------------------------------------------------------------------
(* The numbers of the server.                                               *)

\* The parts of the flight.
LEMMA FlightUpDown ==
  ASSUME TypeOK
  PROVE  /\ \A k \in 1..Len(down) : k \in 1..Flying /\ Flight[k].seq1 = down[k].seq1
         /\ \A k \in 1..Len(up) : Len(down) + k \in 1..Flying
                                  /\ Flight[Len(down) + k].seq1 = up[k].seq1
  BY Points DEF Flying, Flight

\* Every step keeps what the server's numbers say.
LEMMA NumberedStep ==
  ASSUME TypeOK, TypeOK', InOrder, Numbered, [Next]_vars
  PROVE  Numbered'
  <1>0. /\ Len(down) \in Nat /\ Len(up) \in Nat /\ seq3 \in Nat /\ seqs[Session] \in Nat
        /\ \A k \in 1..Len(down) : down[k].seq1 \in Nat /\ down[k].seq2 \in Nat
        /\ \A k \in 1..Len(up) : up[k].seq1 \in Nat
        /\ lostDown \in SUBSET Nat /\ IsFiniteSet(lostDown) /\ Cardinality(lostDown) \in Nat
        /\ age[Session] \in Ages /\ renumbered \in BOOLEAN
    <2>1. seqs[Session] \in Nat /\ age[Session] \in Ages /\ renumbered \in BOOLEAN
          /\ seq3 \in Nat
      BY ConstantTypes DEF TypeOK
    <2>2. \A k \in 1..Len(down) : down[k].seq1 \in Nat /\ down[k].seq2 \in Nat
      BY Points DEF Reply
    <2>3. \A k \in 1..Len(up) : up[k].seq1 \in Nat
      BY Points DEF Probe
    <2>. QED BY <2>1, <2>2, <2>3, Points, FS_CardinalityType DEF InOrder
  <1>1. SUFFICES /\ age'[Session] = Never => seqs'[Session] = 0
                 /\ ~renumbered' => DownCounted'
    BY DEF Numbered
  <1>2. /\ age[Session] = Never => seqs[Session] = 0
        /\ ~renumbered => DownCounted
    BY DEF Numbered
  <1>3. CASE SendProbe
    <2>1. /\ Len(up') = Len(up) + 1 /\ down' = down /\ up'[Len(up) + 1].seq1 = sent
          /\ \A k \in 1..Len(up) : up'[k] = up[k]
      BY <1>3, SendSeq
    <2>2. UNCHANGED <<seqs, age, seq3, lostDown, renumbered>>
      BY <1>3 DEF SendProbe, serverVars, measureVars, resetVars
    <2>3. \A q \in lostDown : q < sent
      BY DEF InOrder, LostAny
    <2>4. \A k \in 1..Len(up') : k \in 1..Len(up) \/ k = Len(up) + 1
      BY <1>0, <2>1
    <2>5. ~renumbered => \A q \in lostDown : \A k \in 1..Len(up') : q < up'[k].seq1
      BY <1>2, <2>1, <2>3, <2>4 DEF DownCounted
    <2>. QED BY <1>2, <2>1, <2>2, <2>5 DEF DownCounted, Below
  <1>4. CASE Serve
    <2>1. /\ Len(up) > 0 /\ Len(up') = Len(up) - 1 /\ Len(down') = Len(down) + 1
          /\ \A k \in 1..(Len(up) - 1) : up'[k] = up[k + 1]
          /\ \A k \in 1..Len(down) : down'[k] = down[k]
          /\ down'[Len(down) + 1].seq1 = up[1].seq1
          /\ down'[Len(down) + 1].seq2 = NumberFor(Session)
      BY <1>4, ServeSeq
    <2>2. seqs'[Session] = NumberFor(Session) + 1 /\ age'[Session] = 0
      BY <1>4, ConstantTypes DEF Serve, Stamp, TypeOK
    <2>3. UNCHANGED <<seq3, lostDown>> /\ (~renumbered' => ~renumbered /\ ~(age[Session] > Forget))
      BY <1>4 DEF Serve, measureVars
    <2>4. SUFFICES ASSUME ~renumbered'
                   PROVE  DownCounted'
      BY <2>2 DEF Never
    <2>5. NumberFor(Session) = seqs[Session] /\ DownCounted
      BY <1>0, <1>2, <2>3, <2>4, ServerAssumption DEF NumberFor, Ages, Never
    <2>6. Below(lostDown, up[1].seq1) = Cardinality(lostDown)
      <3>1. 1 \in 1..Len(up) /\ up[1].seq1 \in Int /\ \A q \in lostDown : q < up[1].seq1
        BY <1>0, <2>1, <2>5 DEF DownCounted
      <3>. QED BY <1>0, <3>1, BelowBounds
    <2>7. ASSUME NEW k \in 1..Len(down')
          PROVE  down'[k].seq2 + 1 - seq3 - k = Below(lostDown, down'[k].seq1)
      <3>1. CASE k \in 1..Len(down)
        BY <2>1, <2>5, <3>1 DEF DownCounted
      <3>2. CASE k = Len(down) + 1
        BY <1>0, <2>1, <2>5, <2>6, <3>2 DEF DownCounted
      <3>. QED BY <1>0, <2>1, <3>1, <3>2
    <2>8. seqs'[Session] - seq3 - Len(down') = Cardinality(lostDown)
      BY <1>0, <2>1, <2>2, <2>5 DEF DownCounted
    <2>9. \A q \in lostDown : \A k \in 1..Len(up') : q < up'[k].seq1
      <3>1. ASSUME NEW k \in 1..Len(up')
            PROVE  k + 1 \in 1..Len(up) /\ up'[k] = up[k + 1]
        <4>1. k \in 1..(Len(up) - 1)
          BY <2>1
        <4>. QED BY <1>0, <2>1, <4>1
      <3>. QED BY <2>5, <3>1 DEF DownCounted
    <2>. QED BY <2>3, <2>7, <2>8, <2>9 DEF DownCounted, Below
  <1>5. CASE ServerRestarts
    <2>1. seqs'[Session] = 0 /\ seqs' \in [Ids -> Nat]
          /\ UNCHANGED <<up, down, seq3, lostDown>>
          /\ (~renumbered' => ~renumbered /\ age[Session] = Never)
      BY <1>5, ConstantTypes DEF ServerRestarts, Restart, netVars, measureVars
    <2>. QED BY <1>2, <2>1 DEF DownCounted, Below
  <1>6. CASE Receive
    <2>1. /\ Len(down) > 0 /\ Len(down') = Len(down) - 1 /\ up' = up
          /\ \A k \in 1..(Len(down) - 1) : down'[k] = down[k + 1]
      BY <1>6, ReceiveSeq
    <2>2. seq3' = seq3 + 1 /\ UNCHANGED <<seqs, age, lostDown, renumbered>>
      BY <1>6 DEF Receive, serverVars, resetVars
    <2>3. \A k \in 1..Len(down') : k + 1 \in 1..Len(down) /\ down'[k] = down[k + 1]
      BY <1>0, <2>1
    <2>4. ASSUME DownCounted, NEW k \in 1..Len(down')
          PROVE  down'[k].seq2 + 1 - (seq3 + 1) - k = Below(lostDown, down'[k].seq1)
      <3>1. k + 1 \in 1..Len(down) /\ down'[k] = down[k + 1]
            /\ down[k + 1].seq2 \in Int
        BY <1>0, <2>3
      <3>2. down[k + 1].seq2 + 1 - seq3 - (k + 1) = Below(lostDown, down[k + 1].seq1)
        BY <2>4, <3>1 DEF DownCounted
      <3>. QED BY <1>0, <3>1, <3>2
    <2>5. DownCounted => seqs[Session] - (seq3 + 1) - Len(down') = Cardinality(lostDown)
      BY <1>0, <2>1 DEF DownCounted
    <2>. QED BY <1>2, <2>1, <2>2, <2>4, <2>5 DEF DownCounted, Below
  <1>7. CASE LoseProbe
    <2>1. PICK i \in 1..Len(up) :
            /\ down' = down /\ lostDown' = lostDown /\ Len(up') = Len(up) - 1
            /\ \A k \in 1..(Len(up) - 1) : up'[k] = IF k < i THEN up[k] ELSE up[k + 1]
      BY <1>7, LoseProbeSeq
    <2>2. UNCHANGED <<seqs, age, seq3, renumbered>>
      BY <1>7 DEF LoseProbe, serverVars, measureVars, resetVars
    <2>3. \A k \in 1..Len(up') : \E l \in 1..Len(up) : up'[k] = up[l]
      BY <1>0, <2>1
    <2>4. DownCounted => \A q \in lostDown : \A k \in 1..Len(up') : q < up'[k].seq1
      BY <2>3 DEF DownCounted
    <2>. QED BY <1>2, <2>1, <2>2, <2>4 DEF DownCounted, Below
  <1>8. CASE LoseReply
    <2>1. PICK i \in 1..Len(down) :
            /\ i \in 1..Flying /\ lostDown' = lostDown \cup {Flight[i].seq1} /\ up' = up
            /\ Len(down') = Len(down) - 1
            /\ \A k \in 1..(Len(down) - 1) :
                 down'[k] = IF k < i THEN down[k] ELSE down[k + 1]
      BY <1>8, LoseReplyFlight
    <2>2. UNCHANGED <<seqs, age, seq3, renumbered>>
      BY <1>8 DEF LoseReply, serverVars, measureVars, resetVars
    <2>. DEFINE x == down[i].seq1
    <2>3. lostDown' = lostDown \cup {x} /\ x \in Nat /\ x \notin lostDown
      <3>1. Flight[i].seq1 = x
        BY <2>1, FlightUpDown
      <3>. QED BY <1>0, <2>1, <3>1 DEF InOrder, LostAny
    <2>4. /\ \A k \in 1..Len(down) : k < i => down[k].seq1 < x
          /\ \A k \in 1..Len(down) : i < k => x < down[k].seq1
          /\ \A k \in 1..Len(up) : x < up[k].seq1
      <3>1. \A k, l \in 1..Flying : k < l => Flight[k].seq1 < Flight[l].seq1
        BY DEF InOrder
      <3>2. \A k \in 1..Len(up) : i < Len(down) + k
        BY <1>0
      <3>. QED BY <2>1, <3>1, <3>2, FlightUpDown
    <2>. HIDE DEF x
    <2>5. SUFFICES ASSUME DownCounted
                   PROVE  DownCounted'
      BY <1>2, <2>2
    <2>6. ASSUME NEW k \in 1..Len(down')
          PROVE  down'[k].seq2 + 1 - seq3 - k = Below(lostDown', down'[k].seq1)
      <3>1. CASE k < i
        <4>1. k \in 1..(Len(down) - 1) /\ k \in 1..Len(down)
          BY <1>0, <2>1
        <4>2. down'[k] = down[k]
          BY <2>1, <3>1, <4>1
        <4>3. down[k].seq1 \in Int /\ ~(x < down[k].seq1)
          <5>1. down[k].seq1 \in Nat /\ down[k].seq1 < x
            BY <1>0, <2>4, <3>1, <4>1
          <5>. QED BY <2>3, <5>1
        <4>4. Below(lostDown', down[k].seq1) = Below(lostDown, down[k].seq1)
          BY <1>0, <2>3, <4>3, BelowSame
        <4>5. down[k].seq2 + 1 - seq3 - k = Below(lostDown, down[k].seq1)
          BY <2>5, <4>1 DEF DownCounted
        <4>. QED BY <4>2, <4>4, <4>5
      <3>2. CASE ~(k < i)
        <4>1. k + 1 \in 1..Len(down) /\ down'[k] = down[k + 1] /\ x < down[k + 1].seq1
              /\ down[k + 1].seq1 \in Int /\ down[k + 1].seq2 \in Int
          BY <1>0, <2>1, <2>4, <3>2
        <4>2. Below(lostDown', down[k + 1].seq1) = Below(lostDown, down[k + 1].seq1) + 1
          BY <1>0, <2>3, <4>1, BelowAdd
        <4>3. down[k + 1].seq2 + 1 - seq3 - (k + 1) = Below(lostDown, down[k + 1].seq1)
          BY <2>5, <4>1 DEF DownCounted
        <4>. QED BY <1>0, <4>1, <4>2, <4>3
      <3>. QED BY <3>1, <3>2
    <2>7. Cardinality(lostDown') = Cardinality(lostDown) + 1
      BY <1>0, <2>3, FS_AddElement
    <2>8. seqs[Session] - seq3 - Len(down') = Cardinality(lostDown')
      BY <1>0, <2>1, <2>5, <2>7 DEF DownCounted
    <2>9. \A q \in lostDown' : \A k \in 1..Len(up) : q < up[k].seq1
      BY <2>3, <2>4, <2>5 DEF DownCounted
    <2>. QED BY <2>1, <2>2, <2>6, <2>8, <2>9 DEF DownCounted, Below
  <1>9. CASE Tick
    <2>1. /\ Len(up') = Len(up) /\ Len(down') = Len(down)
          /\ \A k \in 1..Len(up) : up'[k].seq1 = up[k].seq1
          /\ \A k \in 1..Len(down) : down'[k].seq1 = down[k].seq1
                                     /\ down'[k].seq2 = down[k].seq2
      <3>1. \A m \in Probe : [m EXCEPT !.age = @ + 1].seq1 = m.seq1
        BY DEF Probe
      <3>2. \A m \in Reply : /\ [m EXCEPT !.age = @ + 1].seq1 = m.seq1
                             /\ [m EXCEPT !.age = @ + 1].seq2 = m.seq2
        BY DEF Reply
      <3>. HIDE DEF Probe, Reply
      <3>. QED BY <1>9, <3>1, <3>2, TickSeq, Points
    <2>2. UNCHANGED <<seqs, seq3, lostDown, renumbered>>
          /\ (age'[Session] = Never => age[Session] = Never)
      BY <1>0, <1>9, ConstantTypes, ServerAssumption
      DEF Tick, GrowOlder, Older, Never, resetVars, Ages
    <2>. QED BY <1>2, <2>1, <2>2 DEF DownCounted, Below
  <1>10. CASE ReceiveTimeout \/ Rebind \/ UNCHANGED vars
    <2>1. UNCHANGED <<up, down, seq3, lostDown, seqs, age, renumbered>>
      BY <1>10 DEF ReceiveTimeout, Rebind, vars, netVars, measureVars, serverVars,
                   resetVars
    <2>. QED BY <1>2, <2>1 DEF DownCounted, Below
  <1>. QED BY <1>3, <1>4, <1>5, <1>6, <1>7, <1>8, <1>9, <1>10 DEF Next

\* A number is lost on one of the two ways.
LEMMA BelowUnion ==
  ASSUME InOrder, NEW b \in Int
  PROVE  Below(LostAny, b) = Below(lostUp, b) + Below(lostDown, b)
  <1>. DEFINE S == {q \in lostUp : q < b}
              T == {q \in lostDown : q < b}
  <1>1. IsFiniteSet(S) /\ IsFiniteSet(T) /\ S \cap T = {}
    BY FS_Subset DEF InOrder
  <1>2. {q \in LostAny : q < b} = S \cup T
    BY DEF LostAny
  <1>3. Below(lostUp, b) = Cardinality(S) /\ Below(lostDown, b) = Cardinality(T)
        /\ Below(LostAny, b) = Cardinality(S \cup T)
    BY <1>2 DEF Below
  <1>. HIDE DEF S, T
  <1>4. Cardinality(S) \in Nat /\ Cardinality(T) \in Nat /\ Cardinality(S \cap T) = 0
    <2>1. Cardinality(S \cap T) = 0
      BY ONLY <1>1, FS_EmptySet
    <2>. QED BY <1>1, <2>1, FS_CardinalityType
  <1>5. Cardinality(S \cup T) = Cardinality(S) + Cardinality(T) - Cardinality(S \cap T)
    BY <1>1, FS_Union
  <1>. QED BY <1>3, <1>4, <1>5

LEMMA Renumbers == ASSUME TypeOK, [Next]_vars, ~renumbered'
                   PROVE  ~renumbered
  BY DEF Next, SendProbe, Serve, ServerRestarts, Receive, ReceiveTimeout, LoseProbe,
         LoseReply, Rebind, Tick, vars, resetVars

\* A reply's own number and the server's give the two losses apart.
LEMMA SplitStep ==
  ASSUME TypeOK, InOrder, Counted, Numbered, SplitRight, [Next]_vars
  PROVE  SplitRight'
  <1>0. /\ Flying \in Nat /\ report.seq1 \in Int /\ seq3 \in Nat
        /\ \A k \in 1..Flying : Flight[k].seq1 \in Nat
        /\ lostUp \in SUBSET Nat /\ lostDown \in SUBSET Nat
    BY NumberTypes DEF InOrder
  <1>1. SUFFICES ASSUME ~renumbered'
                 PROVE  MeasuresLoss'
    BY DEF SplitRight
  <1>2. ~renumbered /\ MeasuresLoss
    BY <1>1, Renumbers DEF SplitRight
  <1>3. CASE Receive
    <2>. DEFINE m == down[1]
    <2>1. 1 \in 1..Flying /\ Flight[1].seq1 = m.seq1 /\ 1 \in 1..Len(down)
          /\ m \in Reply /\ Head(down) = m
      BY <1>0, <1>3, ReceiveSeq, ReceiveFlight, Points DEF Leaves
    <2>2. m.seq1 \in Nat /\ m.seq2 \in Nat
      BY <2>1 DEF Reply
    <2>3. m.seq2 + 1 - seq3 - 1 = Below(lostDown, m.seq1)
      BY <1>2, <2>1 DEF Numbered, DownCounted
    <2>4. m.seq1 + 1 - seq3 - 1 = Below(LostAny, m.seq1)
      BY <2>1 DEF Counted
    <2>5. /\ report'.seq1 = m.seq1
          /\ report'.out = Losses(m).out /\ report'.back = Losses(m).back
          /\ lostUp' = lostUp /\ lostDown' = lostDown
      BY <1>3, <2>1 DEF Receive
    <2>. HIDE DEF m
    <2>6. Below(LostAny, m.seq1) = Below(lostUp, m.seq1) + Below(lostDown, m.seq1)
      BY <2>2, BelowUnion
    <2>7. Below(lostUp, m.seq1) \in Int
      BY <2>2, BelowBounds DEF InOrder
    <2>8. report'.out = (m.seq1 - seq3) - (m.seq2 - seq3) /\ report'.back = m.seq2 - seq3
      BY <2>5 DEF Losses
    <2>9. report'.out = Below(lostUp, m.seq1) /\ report'.back = Below(lostDown, m.seq1)
      BY <1>0, <2>2, <2>3, <2>4, <2>6, <2>7, <2>8
    <2>. QED BY <2>5, <2>9 DEF MeasuresLoss, Before, Below
  <1>4. CASE ~Receive /\ (Stays \/ Sends)
    BY <1>2, <1>4 DEF MeasuresLoss, Before, Stays, Sends
  <1>5. ASSUME NEW i \in 1..Flying, IsLost(i)
        PROVE  MeasuresLoss'
    <2>. DEFINE x == Flight[i].seq1
    <2>1. x \in Nat /\ ~(x < report.seq1) /\ report' = report
      BY <1>0, <1>5 DEF InOrder, IsLost
    <2>2. \/ lostUp' = lostUp \cup {x} /\ lostDown' = lostDown
          \/ lostDown' = lostDown \cup {x} /\ lostUp' = lostUp
      BY <1>5 DEF IsLost
    <2>. HIDE DEF x
    <2>3. Below(lostUp', report.seq1) = Below(lostUp, report.seq1)
          /\ Below(lostDown', report.seq1) = Below(lostDown, report.seq1)
      <3>1. Below(lostUp \cup {x}, report.seq1) = Below(lostUp, report.seq1)
        BY <1>0, <2>1, BelowSame
      <3>2. Below(lostDown \cup {x}, report.seq1) = Below(lostDown, report.seq1)
        BY <1>0, <2>1, BelowSame
      <3>. QED BY <2>2, <3>1, <3>2
    <2>. QED BY <1>2, <2>1, <2>3 DEF MeasuresLoss, Before, Below
  <1>6. Arrives => Receive
    <2>1. ~Receive => report' = report /\ seq3' = seq3
      BY DEF Next, SendProbe, Serve, ServerRestarts, ReceiveTimeout, LoseProbe,
             LoseReply, Rebind, Tick, vars, measureVars
    <2>2. seq3 + 1 # seq3
      BY <1>0
    <2>. QED BY <2>1, <2>2 DEF Arrives
  <1>. QED BY <1>3, <1>4, <1>5, <1>6, FlightStep

------------------------------------------------------------------------------
(* Addresses.                                                               *)

addressVars == <<ip, port, rebinds, notices, previp, prevport>>

\* Every probe bears the address of one of the periods between two changes,
\* in order, and measure has printed at most one notice for each change.
LEMMA NoticedStep ==
  ASSUME TypeOK, Noticed, [Next]_vars
  PROVE  Noticed'
  <1>0. Flying \in Nat /\ rebinds \in Nat /\ notices \in Nat
    BY FlightType DEF TypeOK
  <1>1. PICK p \in 0..rebinds : \E e \in [1..Flying -> 0..rebinds] : SinceRebind(e, p)
    BY DEF Noticed
  <1>2. PICK e \in [1..Flying -> 0..rebinds] : SinceRebind(e, p)
    BY <1>1
  <1>3. SUFFICES \E q \in 0..rebinds' : \E f \in [1..Flying' -> 0..rebinds'] :
                   SinceRebind(f, q)'
    BY DEF Noticed
  <1>4. CASE Stays /\ UNCHANGED addressVars
    <2>1. SinceRebind(e, p)'
      BY <1>2, <1>4 DEF SinceRebind, Stays, SameFlight, addressVars
    <2>. QED BY <1>2, <1>4, <2>1 DEF Stays, SameFlight, addressVars
  <1>5. CASE Sends /\ UNCHANGED addressVars
    <2>1. Flying' = Flying + 1 /\ rebinds' = rebinds
      BY <1>5 DEF Sends, addressVars
    <2>2. PICK f \in [1..Flying' -> 0..rebinds'] :
            \A k \in 1..Flying' : f[k] = IF k <= Flying THEN e[k] ELSE rebinds
      <3>. DEFINE g == [k \in 1..(Flying + 1) |-> IF k <= Flying THEN e[k] ELSE rebinds]
      <3>1. g \in [1..(Flying + 1) -> 0..rebinds]
        BY <1>0, <1>2
      <3>. QED BY <2>1, <3>1
    <2>3. \A k \in 1..Flying' :
            \/ k \in 1..Flying /\ f[k] = e[k] /\ Flight'[k] = Flight[k]
            \/ k = Flying + 1 /\ f[k] = rebinds /\ Flight'[k].ip = ip
               /\ Flight'[k].port = port
      BY <1>0, <1>5, <2>1, <2>2 DEF Sends
    <2>4. SinceRebind(f, p)'
      <3>1. \A k \in 1..Flying : e[k] \in 0..rebinds
        BY <1>2
      <3>2. \A k \in 1..Flying' :
              /\ p <= f[k]
              /\ f[k] = rebinds => Flight'[k].ip = ip /\ Flight'[k].port = port
              /\ previp # NoIP /\ f[k] = p =>
                   Flight'[k].ip = previp /\ Shown(Flight'[k].port) = prevport
        BY <1>0, <1>2, <2>3 DEF SinceRebind
      <3>3. \A k, l \in 1..Flying' :
              /\ k < l => f[k] <= f[l]
              /\ f[k] = f[l] => Flight'[k].ip = Flight'[l].ip
                                /\ Flight'[k].port = Flight'[l].port
        BY <1>0, <1>2, <2>3, <3>1 DEF SinceRebind
      <3>4. \A x : Shown(x)' = Shown(x)
        BY DEF Shown
      <3>. QED BY <1>2, <1>5, <2>1, <2>2, <3>2, <3>3, <3>4 DEF SinceRebind, addressVars
    <2>. QED BY <1>2, <2>1, <2>2, <2>4
  <1>6. CASE Receive
    <2>. DEFINE m == down[1]
    <2>1. Leaves(1) /\ Flight[1].ip = m.ip /\ Flight[1].port = m.port
          /\ Head(down) = m /\ m \in Reply
      BY <1>6, ReceiveFlight, ReceiveSeq
    <2>2. 1 \in 1..Flying /\ Flying' = Flying - 1
          /\ \A k \in 1..Flying' : k + 1 \in 1..Flying /\ Flight'[k] = Flight[k + 1]
      BY <1>0, <2>1 DEF Leaves
    <2>3. PICK f \in [1..Flying' -> 0..rebinds] : \A k \in 1..Flying' : f[k] = e[k + 1]
      <3>1. [k \in 1..Flying' |-> e[k + 1]] \in [1..Flying' -> 0..rebinds]
        BY <1>2, <2>2
      <3>. QED BY <3>1
    <2>. HIDE DEF m
    <2>4. /\ UNCHANGED <<ip, port, rebinds>>
          /\ previp' = m.ip /\ prevport' = Shown(m.port)
          /\ notices' = IF Notice(m.ip, Shown(m.port)) THEN notices + 1 ELSE notices
      BY <1>6, <2>1 DEF Receive, addrVars
    <2>5. m.ip # NoIP
      BY <2>1, ConstantTypes DEF Reply
    <2>6. PICK q \in 0..rebinds : q = e[1]
      BY <1>2, <2>2
    <2>7. p <= q /\ notices <= p
      BY <1>2, <2>2, <2>6 DEF SinceRebind
    <2>8. notices' <= q
      <3>1. CASE Notice(m.ip, Shown(m.port))
        <4>1. previp # NoIP /\ (m.ip # previp \/ Shown(m.port) # prevport)
          BY <2>5, <3>1 DEF Notice
        <4>2. q # p
          BY <1>2, <2>1, <2>2, <2>6, <4>1 DEF SinceRebind
        <4>. QED BY <1>0, <1>1, <2>4, <2>7, <3>1, <4>2
      <3>2. CASE ~Notice(m.ip, Shown(m.port))
        BY <1>0, <1>1, <2>4, <2>7, <3>2
      <3>. QED BY <3>1, <3>2
    <2>9. ASSUME NEW k \in 1..Flying'
          PROVE  /\ q <= f[k]
                 /\ f[k] = rebinds => Flight'[k].ip = ip /\ Flight'[k].port = port
                 /\ f[k] = q => Flight'[k].ip = m.ip /\ Flight'[k].port = m.port
                 /\ \A l \in 1..Flying' : k < l => f[k] <= f[l]
                 /\ \A l \in 1..Flying' :
                      f[k] = f[l] => Flight'[k].ip = Flight'[l].ip
                                     /\ Flight'[k].port = Flight'[l].port
      <3>1. k + 1 \in 1..Flying /\ Flight'[k] = Flight[k + 1] /\ f[k] = e[k + 1] /\ 1 < k + 1
        BY <2>2, <2>3
      <3>2. q <= f[k] /\ (f[k] = rebinds => Flight'[k].ip = ip /\ Flight'[k].port = port)
        <4>1. e[1] <= e[k + 1]
          BY <1>2, <2>2, <3>1 DEF SinceRebind
        <4>2. e[k + 1] = rebinds => Flight[k + 1].ip = ip /\ Flight[k + 1].port = port
          BY <1>2, <3>1 DEF SinceRebind
        <4>. QED BY <2>6, <3>1, <4>1, <4>2
      <3>3. f[k] = q => Flight'[k].ip = m.ip /\ Flight'[k].port = m.port
        <4>1. e[k + 1] = e[1] => Flight[k + 1].ip = Flight[1].ip
                                 /\ Flight[k + 1].port = Flight[1].port
          BY <1>2, <2>2, <3>1 DEF SinceRebind
        <4>. QED BY <2>1, <2>6, <3>1, <4>1
      <3>4. ASSUME NEW l \in 1..Flying'
            PROVE  /\ k < l => f[k] <= f[l]
                   /\ f[k] = f[l] => Flight'[k].ip = Flight'[l].ip
                                     /\ Flight'[k].port = Flight'[l].port
        <4>1. l + 1 \in 1..Flying /\ Flight'[l] = Flight[l + 1] /\ f[l] = e[l + 1]
              /\ (k < l => k + 1 < l + 1)
          BY <2>2, <2>3
        <4>. QED BY <1>2, <3>1, <4>1 DEF SinceRebind
      <3>. QED BY <3>2, <3>3, <3>4
    <2>10. q = rebinds => m.ip = ip /\ Shown(m.port) = Shown(port)
      BY <1>2, <2>1, <2>2, <2>6 DEF SinceRebind
    <2>11. SinceRebind(f, q)'
      <3>1. \A x : Shown(x)' = Shown(x)
        BY DEF Shown
      <3>. QED BY <2>3, <2>4, <2>6, <2>8, <2>9, <2>10, <3>1 DEF SinceRebind
    <2>. QED BY <2>3, <2>4, <2>6, <2>11
  <1>7. ASSUME NEW i \in 1..Flying, IsLost(i), UNCHANGED addressVars
        PROVE  Noticed'
    <2>. DEFINE j(k) == IF k < i THEN k ELSE k + 1
    <2>1. Flying' = Flying - 1
          /\ \A k \in 1..Flying' : j(k) \in 1..Flying /\ Flight'[k] = Flight[j(k)]
      BY <1>0, <1>7 DEF IsLost, Leaves
    <2>2. \A k, l \in 1..Flying' : k < l => j(k) < j(l)
      BY <1>0
    <2>. HIDE DEF j
    <2>3. PICK f \in [1..Flying' -> 0..rebinds] : \A k \in 1..Flying' : f[k] = e[j(k)]
      <3>1. [k \in 1..Flying' |-> e[j(k)]] \in [1..Flying' -> 0..rebinds]
        BY <1>2, <2>1
      <3>. QED BY <3>1
    <2>4. \A k \in 1..Flying' :
            /\ p <= f[k]
            /\ f[k] = rebinds => Flight'[k].ip = ip /\ Flight'[k].port = port
            /\ previp # NoIP /\ f[k] = p =>
                 Flight'[k].ip = previp /\ Shown(Flight'[k].port) = prevport
      BY <1>2, <2>1, <2>3 DEF SinceRebind
    <2>5. \A k, l \in 1..Flying' :
            /\ k < l => f[k] <= f[l]
            /\ f[k] = f[l] => Flight'[k].ip = Flight'[l].ip
                              /\ Flight'[k].port = Flight'[l].port
      BY <1>2, <2>1, <2>2, <2>3 DEF SinceRebind
    <2>6. SinceRebind(f, p)'
      <3>1. \A x : Shown(x)' = Shown(x)
        BY DEF Shown
      <3>. QED BY <1>2, <1>7, <2>3, <2>4, <2>5, <3>1 DEF SinceRebind, addressVars
    <2>. QED BY <1>2, <1>7, <2>3, <2>6 DEF addressVars, Noticed
  <1>8. CASE Rebind
    <2>1. rebinds' = rebinds + 1
          /\ UNCHANGED <<up, down, notices, previp, prevport>>
      BY <1>8 DEF Rebind, netVars, measureVars
    <2>2. Flying' = Flying /\ Flight' = Flight
      BY <2>1 DEF Flying, Flight
    <2>3. p \in 0..rebinds' /\ p # rebinds' /\ e \in [1..Flying' -> 0..rebinds']
          /\ \A k \in 1..Flying : e[k] # rebinds'
      BY <1>0, <1>2, <2>1, <2>2
    <2>4. SinceRebind(e, p)'
      BY <1>2, <2>1, <2>2, <2>3 DEF SinceRebind
    <2>. QED BY <2>3, <2>4
  <1>9. ~Receive /\ ~Rebind => UNCHANGED addressVars
    BY DEF Next, SendProbe, Serve, ServerRestarts, ReceiveTimeout, LoseProbe,
           LoseReply, Tick, vars, addrVars, measureVars, addressVars
  <1>10. Arrives => Receive
    <2>1. ~Receive => seq3' = seq3
      BY DEF Next, SendProbe, Serve, ServerRestarts, ReceiveTimeout, LoseProbe,
             LoseReply, Rebind, Tick, vars, measureVars
    <2>2. seq3 + 1 # seq3
      BY DEF TypeOK
    <2>. QED BY <2>1, <2>2 DEF Arrives
  <1>. QED BY <1>4, <1>5, <1>6, <1>7, <1>8, <1>9, <1>10, FlightStep DEF Noticed

------------------------------------------------------------------------------
(* Time.                                                                    *)

LEMMA PeriodsType ==
  ASSUME TypeOK
  PROVE  Periods \in Int
  BY ConstantTypes DEF TypeOK, Periods

\* Every step keeps the ages.
LEMMA OnTimeStep ==
  ASSUME TypeOK, TypeOK', OnTime, [Next]_vars
  PROVE  OnTime'
  <1>0. /\ Len(down) \in Nat /\ Len(up) \in Nat /\ sent \in Nat /\ Periods \in Int
        /\ quiet \in Nat /\ report.seq1 \in Int
        /\ \A k \in 1..Len(down) : /\ down[k].seq1 \in Nat /\ down[k].out \in Nat
                                   /\ down[k].age \in Nat
        /\ \A k \in 1..Len(up) : up[k].seq1 \in Nat /\ up[k].age \in Nat
    <2>1. quiet \in Nat
      BY DEF TypeOK
    <2>2. \A k \in 1..Len(down) : /\ down[k].seq1 \in Nat /\ down[k].out \in Nat
                                  /\ down[k].age \in Nat
      BY Points, ConstantTypes DEF Reply
    <2>3. \A k \in 1..Len(up) : up[k].seq1 \in Nat /\ up[k].age \in Nat
      BY Points, ConstantTypes DEF Probe
    <2>. QED BY <2>1, <2>2, <2>3, Points, NumberTypes, PeriodsType
  <1>1. SUFFICES ASSUME sent' < MaxSent
                 PROVE  /\ \A k \in 1..Len(up') : up'[k].seq1 + up'[k].age = Periods'
                        /\ \A k \in 1..Len(down') :
                             down'[k].seq1 + down'[k].out + down'[k].age = Periods'
                        /\ report'.seq1 + quiet' <= Periods'
    BY DEF OnTime
  <1>2. sent < MaxSent
    <2>1. sent' = sent \/ sent' = sent + 1
      BY DEF Next, SendProbe, Serve, ServerRestarts, Receive, ReceiveTimeout, LoseProbe,
             LoseReply, Rebind, Tick, vars, probeVars
    <2>. QED BY <1>0, <1>1, <2>1, ConstantTypes
  <1>3. /\ \A k \in 1..Len(up) : up[k].seq1 + up[k].age = Periods
        /\ \A k \in 1..Len(down) : down[k].seq1 + down[k].out + down[k].age = Periods
        /\ report.seq1 + quiet <= Periods
    BY <1>2 DEF OnTime
  <1>4. CASE SendProbe
    <2>1. /\ Len(up') = Len(up) + 1 /\ down' = down
          /\ up'[Len(up) + 1].seq1 = sent /\ up'[Len(up) + 1].age = 0
          /\ \A k \in 1..Len(up) : up'[k] = up[k]
      BY <1>4, SendSeq
    <2>2. UNCHANGED <<report, quiet>> /\ awake /\ sent' = sent + 1 /\ awake' = FALSE
      BY <1>4 DEF SendProbe, measureVars
    <2>3. Periods' = Periods /\ Periods = sent
      BY <1>0, <2>2 DEF Periods
    <2>4. ASSUME NEW k \in 1..Len(up')
          PROVE  up'[k].seq1 + up'[k].age = Periods
      <3>1. CASE k = Len(up) + 1
        BY <1>0, <2>1, <2>3, <3>1
      <3>2. CASE k \in 1..Len(up)
        BY <1>3, <2>1, <3>2
      <3>. QED BY <1>0, <2>1, <3>1, <3>2
    <2>. QED BY <1>3, <2>1, <2>2, <2>3, <2>4
  <1>5. CASE Serve
    <2>1. /\ Len(up) > 0 /\ Len(up') = Len(up) - 1 /\ Len(down') = Len(down) + 1
          /\ \A k \in 1..(Len(up) - 1) : up'[k] = up[k + 1]
          /\ \A k \in 1..Len(down) : down'[k] = down[k]
          /\ down'[Len(down) + 1].seq1 = up[1].seq1
          /\ down'[Len(down) + 1].out = up[1].age
          /\ down'[Len(down) + 1].age = 0
      BY <1>5, ServeSeq
    <2>2. UNCHANGED <<report, quiet, sent, awake>>
      BY <1>5 DEF Serve, measureVars, probeVars
    <2>3. Periods' = Periods
      BY <2>2 DEF Periods
    <2>4. ASSUME NEW k \in 1..Len(up')
          PROVE  up'[k].seq1 + up'[k].age = Periods
      <3>1. k \in 1..(Len(up) - 1) /\ k + 1 \in 1..Len(up)
        BY <1>0, <2>1
      <3>. QED BY <1>3, <2>1, <3>1
    <2>5. ASSUME NEW k \in 1..Len(down')
          PROVE  down'[k].seq1 + down'[k].out + down'[k].age = Periods
      <3>1. CASE k \in 1..Len(down)
        BY <1>3, <2>1, <3>1
      <3>2. CASE k = Len(down) + 1
        <4>1. 1 \in 1..Len(up)
          BY <1>0, <2>1
        <4>. QED BY <1>0, <1>3, <2>1, <3>2, <4>1
      <3>. QED BY <1>0, <2>1, <3>1, <3>2
    <2>. QED BY <1>3, <2>2, <2>3, <2>4, <2>5
  <1>6. CASE Receive
    <2>1. /\ Len(down) > 0 /\ Len(down') = Len(down) - 1 /\ up' = up
          /\ \A k \in 1..(Len(down) - 1) : down'[k] = down[k + 1]
          /\ report'.seq1 = down[1].seq1
      BY <1>6, ReceiveSeq DEF Receive
    <2>2. quiet' = 0 /\ UNCHANGED <<sent, awake>>
      BY <1>6 DEF Receive, probeVars
    <2>3. Periods' = Periods
      BY <2>2 DEF Periods
    <2>4. ASSUME NEW k \in 1..Len(down')
          PROVE  down'[k].seq1 + down'[k].out + down'[k].age = Periods
      <3>1. k \in 1..(Len(down) - 1) /\ k + 1 \in 1..Len(down)
        BY <1>0, <2>1
      <3>. QED BY <1>3, <2>1, <3>1
    <2>5. report'.seq1 + quiet' <= Periods
      <3>1. 1 \in 1..Len(down)
        BY <1>0, <2>1
      <3>2. /\ down[1].seq1 + down[1].out + down[1].age = Periods
            /\ down[1].seq1 \in Nat /\ down[1].out \in Nat /\ down[1].age \in Nat
        BY <1>0, <1>3, <3>1
      <3>. QED BY <1>0, <2>1, <2>2, <3>2
    <2>. QED BY <1>3, <2>1, <2>3, <2>4, <2>5
  <1>7. CASE ReceiveTimeout
    <2>1. UNCHANGED <<up, down, report, sent, awake>> /\ quiet' = 0
      BY <1>7 DEF ReceiveTimeout, netVars, probeVars
    <2>2. Periods' = Periods
      BY <2>1 DEF Periods
    <2>. QED BY <1>0, <1>3, <2>1, <2>2
  <1>8. CASE LoseProbe
    <2>1. PICK i \in 1..Len(up) :
            /\ down' = down /\ Len(up') = Len(up) - 1
            /\ \A k \in 1..(Len(up) - 1) : up'[k] = IF k < i THEN up[k] ELSE up[k + 1]
      BY <1>8, LoseProbeSeq
    <2>2. UNCHANGED <<report, quiet, sent, awake>>
      BY <1>8 DEF LoseProbe, measureVars, probeVars
    <2>3. Periods' = Periods
      BY <2>2 DEF Periods
    <2>4. \A k \in 1..Len(up') : \E l \in 1..Len(up) : up'[k] = up[l]
      BY <1>0, <2>1
    <2>. QED BY <1>3, <2>1, <2>2, <2>3, <2>4
  <1>9. CASE LoseReply
    <2>1. PICK i \in 1..Len(down) :
            /\ up' = up /\ Len(down') = Len(down) - 1
            /\ \A k \in 1..(Len(down) - 1) :
                 down'[k] = IF k < i THEN down[k] ELSE down[k + 1]
      BY <1>9, LoseReplySeq
    <2>2. UNCHANGED <<report, quiet, sent, awake>>
      BY <1>9 DEF LoseReply, measureVars, probeVars
    <2>3. Periods' = Periods
      BY <2>2 DEF Periods
    <2>4. \A k \in 1..Len(down') : \E l \in 1..Len(down) : down'[k] = down[l]
      BY <1>0, <2>1
    <2>. QED BY <1>3, <2>1, <2>2, <2>3, <2>4
  <1>10. CASE Tick
    <2>1. /\ Len(up') = Len(up) /\ Len(down') = Len(down)
          /\ \A k \in 1..Len(up) : up'[k] = [up[k] EXCEPT !.age = @ + 1]
          /\ \A k \in 1..Len(down) : down'[k] = [down[k] EXCEPT !.age = @ + 1]
      BY <1>10, TickSeq
    <2>2. \A k \in 1..Len(up) : up'[k].seq1 = up[k].seq1 /\ up'[k].age = up[k].age + 1
      BY <2>1, Points DEF Probe
    <2>3. \A k \in 1..Len(down) : /\ down'[k].seq1 = down[k].seq1
                                  /\ down'[k].out = down[k].out
                                  /\ down'[k].age = down[k].age + 1
      BY <2>1, Points DEF Reply
    <2>4. /\ UNCHANGED <<report, sent>> /\ quiet' = quiet + 1 /\ awake' = TRUE
          /\ ~awake \/ sent = MaxSent
      BY <1>10 DEF Tick
    <2>5. Periods' = Periods + 1
      BY <1>0, <1>2, <2>4, ConstantTypes DEF Periods
    <2>6. \A k \in 1..Len(up') : up'[k].seq1 + up'[k].age = Periods'
      BY <1>0, <1>3, <2>1, <2>2, <2>5
    <2>7. \A k \in 1..Len(down') :
            down'[k].seq1 + down'[k].out + down'[k].age = Periods'
      <3>. SUFFICES ASSUME NEW k \in 1..Len(down)
                    PROVE  down'[k].seq1 + down'[k].out + down'[k].age = Periods'
        BY <2>1
      <3>1. down[k].seq1 + down[k].out + (down[k].age + 1) = Periods + 1
        <4>1. down[k].seq1 \in Nat /\ down[k].out \in Nat /\ down[k].age \in Nat
          BY <1>0
        <4>2. down[k].seq1 + down[k].out + down[k].age = Periods
          BY <1>3
        <4>. QED BY <4>1, <4>2
      <3>. QED BY <2>3, <2>5, <3>1
    <2>. QED BY <1>0, <1>3, <2>4, <2>5, <2>6, <2>7
  <1>11. CASE ServerRestarts \/ Rebind \/ UNCHANGED vars
    <2>1. UNCHANGED <<up, down, report, sent, awake, quiet>>
      BY <1>11 DEF ServerRestarts, Rebind, vars, netVars, probeVars, measureVars
    <2>. QED BY <1>3, <2>1 DEF Periods
  <1>. QED BY <1>4, <1>5, <1>6, <1>7, <1>8, <1>9, <1>10, <1>11 DEF Next

LEMMA LostIsCardinality ==
  ASSUME InOrder
  PROVE  Lost = Cardinality(LostAny) /\ Lost \in Nat
  <1>1. Cardinality(lostUp \cap lostDown) = 0
    BY FS_EmptySet DEF InOrder
  <1>2. IsFiniteSet(lostUp) /\ IsFiniteSet(lostDown)
    BY DEF InOrder
  <1>3. Cardinality(lostUp) \in Nat /\ Cardinality(lostDown) \in Nat
    BY <1>2, FS_CardinalityType
  <1>4. Cardinality(LostAny)
          = Cardinality(lostUp) + Cardinality(lostDown) - Cardinality(lostUp \cap lostDown)
    BY <1>2, FS_Union DEF LostAny
  <1>. QED BY <1>1, <1>3, <1>4 DEF Lost

\* The first datagram on its way, a reply or a probe, left at most 2 * MaxDelay
\* ago: the other probes of the silence are lost.
LEMMA OutageStep ==
  ASSUME TypeOK, TypeOK', InOrder, InOrder', Counted, OnTime, NoFalseOutage, [Next]_vars
  PROVE  NoFalseOutage'
  <1>0. /\ outages \in Nat /\ Lost \in Nat /\ sent \in Nat /\ OutageTicks \in Nat
        /\ MaxDelay \in Nat /\ MaxSent \in Nat
    BY LostIsCardinality, NumberTypes, ConstantTypes DEF TypeOK
  <1>1. Lost' \in Nat /\ Lost <= Lost'
    <2>1. \E x \in Nat : LostAny' = LostAny \/ LostAny' = LostAny \cup {x}
      <3>1. CASE Stays \/ Sends \/ Arrives
        BY <3>1 DEF Stays, Sends, Arrives, LostAny
      <3>2. ASSUME NEW i \in 1..Flying, IsLost(i)
            PROVE  Flight[i].seq1 \in Nat /\ LostAny' = LostAny \cup {Flight[i].seq1}
        <4>1. Flight[i].seq1 \in Nat
          BY NumberTypes
        <4>2. LostAny' = LostAny \cup {Flight[i].seq1}
          BY <3>2 DEF IsLost, LostAny
        <4>. QED BY <4>1, <4>2
      <3>3. 0 \in Nat
        OBVIOUS
      <3>. QED BY <3>1, <3>2, <3>3, FlightStep
    <2>2. Cardinality(LostAny) <= Cardinality(LostAny')
      <3>1. PICK x \in Nat : LostAny' = LostAny \/ LostAny' = LostAny \cup {x}
        BY <2>1
      <3>2. IsFiniteSet(LostAny) /\ Cardinality(LostAny) \in Nat
        BY LostAnyFinite, FS_CardinalityType
      <3>3. IsFiniteSet(LostAny') /\ LostAny \in SUBSET LostAny'
        BY <3>1, <3>2, FS_AddElement
      <3>. QED BY <3>3, FS_Subset
    <2>3. Lost' = Cardinality(LostAny') /\ Lost' \in Nat
      <3>1. Cardinality(lostUp' \cap lostDown') = 0
        BY FS_EmptySet DEF InOrder
      <3>2. IsFiniteSet(lostUp') /\ IsFiniteSet(lostDown')
        BY DEF InOrder
      <3>3. Cardinality(lostUp') \in Nat /\ Cardinality(lostDown') \in Nat
        BY <3>2, FS_CardinalityType
      <3>4. Cardinality(LostAny')
              = Cardinality(lostUp') + Cardinality(lostDown')
                - Cardinality(lostUp' \cap lostDown')
        BY <3>2, FS_Union DEF LostAny
      <3>. QED BY <3>1, <3>3, <3>4 DEF Lost
    <2>. QED BY <2>2, <2>3, LostIsCardinality
  <1>2. sent' = sent \/ sent' = sent + 1
    BY DEF Next, SendProbe, Serve, ServerRestarts, Receive, ReceiveTimeout, LoseProbe,
           LoseReply, Rebind, Tick, vars, probeVars
  <1>3. CASE ~ReceiveTimeout
    <2>1. outages' = outages
      BY <1>3 DEF Next, SendProbe, Serve, ServerRestarts, Receive, LoseProbe,
                  LoseReply, Rebind, Tick, vars, measureVars
    <2>. QED BY <1>0, <1>1, <1>2, <2>1 DEF NoFalseOutage
  <1>4. CASE ReceiveTimeout /\ sent < MaxSent
    <2>1. quiet >= OutageTicks
      BY <1>4 DEF ReceiveTimeout, TimedOut
    <2>2. /\ Flying \in Nat /\ Len(up) \in Nat /\ Len(down) \in Nat /\ quiet \in Nat
          /\ seq3 \in Nat /\ report.seq1 \in Int /\ Periods \in Int
      <3>1. quiet \in Nat
        BY DEF TypeOK
      <3>. QED BY <3>1, Points, NumberTypes, PeriodsType
    <2>3. LostAny \in SUBSET Nat /\ IsFiniteSet(LostAny)
      BY LostAnyFinite
    <2>4. report.seq1 + quiet <= Periods
      BY <1>4 DEF OnTime
    <2>5. seq3 <= report.seq1 + 1
      <3>1. Below(LostAny, report.seq1) \in Nat
        BY <2>2, <2>3, BelowBounds
      <3>. QED BY <2>2, <3>1 DEF Counted
    <2>6. CASE Flying = 0
      <3>1. sent - seq3 = Lost
        BY <1>0, <2>2, <2>6, LostIsCardinality DEF Counted
      <3>2. Periods <= sent
        BY <1>0 DEF Periods
      <3>. QED BY <1>0, <1>1, <2>1, <2>2, <2>4, <2>5, <3>1, <3>2 DEF NoFalseOutage
    <2>7. CASE Flying > 0
      <3>. DEFINE first == Flight[1].seq1
      <3>1. 1 \in 1..Flying /\ first \in Nat
        BY <2>2, <2>7, NumberTypes
      <3>2. Periods - 2 * MaxDelay <= first
        <4>1. CASE Len(down) > 0
          <5>1. 1 \in 1..Len(down) /\ 1 <= Len(down)
            BY <2>2, <4>1
          <5>2. /\ first = down[1].seq1
                /\ down[1].out \in 0..MaxDelay /\ down[1].age \in 0..MaxDelay
            BY <3>1, <5>1, Points DEF Flight, Reply
          <5>3. down[1].seq1 + down[1].out + down[1].age = Periods
            BY <1>4, <5>1 DEF OnTime
          <5>. QED BY <1>0, <2>2, <3>1, <5>2, <5>3
        <4>2. CASE Len(down) = 0
          <5>1. 1 \in 1..Len(up) /\ ~(1 <= Len(down)) /\ 1 - Len(down) = 1
            BY <2>2, <2>7, <4>2 DEF Flying
          <5>2. first = up[1].seq1 /\ up[1].age \in 0..MaxDelay
            BY <3>1, <5>1, Points DEF Flight, Probe
          <5>3. up[1].seq1 + up[1].age = Periods
            BY <1>4, <5>1 DEF OnTime
          <5>. QED BY <1>0, <2>2, <3>1, <5>2, <5>3
        <4>. QED BY <2>2, <4>1, <4>2
      <3>3. first + 1 - seq3 - 1 = Below(LostAny, first)
        BY <3>1 DEF Counted
      <3>. HIDE DEF first
      <3>4. Below(LostAny, first) <= Lost
        BY <2>3, <3>1, BelowBounds, LostIsCardinality
      <3>5. first - seq3 <= Lost
        BY <1>0, <2>2, <3>1, <3>3, <3>4
      <3>6. OutageTicks - 2 * MaxDelay - 1 <= first - seq3
        BY <1>0, <2>1, <2>2, <2>4, <2>5, <3>1, <3>2
      <3>7. Lost' >= OutageTicks - 2 * MaxDelay - 1
        BY <1>0, <1>1, <2>2, <3>1, <3>5, <3>6
      <3>. QED BY <3>7 DEF NoFalseOutage
    <2>. QED BY <2>2, <2>6, <2>7
  <1>5. CASE ReceiveTimeout /\ ~(sent < MaxSent)
    <2>1. sent' = sent
      BY <1>5 DEF ReceiveTimeout, probeVars
    <2>. QED BY <1>5, <2>1 DEF NoFalseOutage
  <1>. QED BY <1>3, <1>4, <1>5

------------------------------------------------------------------------------
(* Delays.                                                                  *)

DelayInv == ApartRight /\ BaseRight /\ DelaysRight

\* The distance of the clocks stays until a boot.
LEMMA Reboots ==
  ASSUME TypeOK, [Next]_vars, ~rebooted'
  PROVE  ~rebooted /\ skew' = skew
  <1>1. CASE ServerRestarts
    BY <1>1 DEF ServerRestarts, TypeOK
  <1>2. CASE ~ServerRestarts
    BY <1>2 DEF Next, SendProbe, Serve, Receive, ReceiveTimeout, LoseProbe, LoseReply,
                Rebind, Tick, vars, resetVars
  <1>. QED BY <1>1, <1>2

\* Every step keeps what replies on their way say.
LEMMA ApartStep ==
  ASSUME TypeOK, ApartRight, [Next]_vars
  PROVE  ApartRight'
  <1>1. SUFFICES ASSUME ~rebooted'
                 PROVE  \A k \in 1..Len(down') : down'[k].apart = down'[k].out + skew
    BY Reboots DEF ApartRight
  <1>2. \A k \in 1..Len(down) : down[k].apart = down[k].out + skew
    BY <1>1, Reboots DEF ApartRight
  <1>3. Len(down) \in Nat
    BY Points
  <1>4. CASE Serve
    <2>1. /\ Len(down') = Len(down) + 1
          /\ \A k \in 1..Len(down) : down'[k] = down[k]
          /\ down'[Len(down) + 1].out = up[1].age
          /\ down'[Len(down) + 1].apart = up[1].age + skew
      BY <1>4, ServeSeq
    <2>2. \A k \in 1..Len(down') : k \in 1..Len(down) \/ k = Len(down) + 1
      BY <1>3, <2>1
    <2>. QED BY <1>2, <2>1, <2>2
  <1>5. CASE Receive
    <2>1. /\ Len(down') = Len(down) - 1
          /\ \A k \in 1..(Len(down) - 1) : down'[k] = down[k + 1]
      BY <1>5, ReceiveSeq
    <2>2. \A k \in 1..Len(down') : \E l \in 1..Len(down) : down'[k] = down[l]
      BY <1>3, <2>1
    <2>. QED BY <1>2, <2>2
  <1>6. CASE LoseReply
    <2>1. PICK i \in 1..Len(down) :
            /\ Len(down') = Len(down) - 1
            /\ \A k \in 1..(Len(down) - 1) :
                 down'[k] = IF k < i THEN down[k] ELSE down[k + 1]
      BY <1>6, LoseReplySeq
    <2>2. \A k \in 1..Len(down') : \E l \in 1..Len(down) : down'[k] = down[l]
      BY <1>3, <2>1
    <2>. QED BY <1>2, <2>2
  <1>7. CASE Tick
    <2>1. /\ Len(down') = Len(down)
          /\ \A k \in 1..Len(down) : down'[k] = [down[k] EXCEPT !.age = @ + 1]
      BY <1>7, TickSeq
    <2>2. \A k \in 1..Len(down) : down'[k].out = down[k].out
                                  /\ down'[k].apart = down[k].apart
      BY <2>1, Points DEF Reply
    <2>. QED BY <1>2, <2>1, <2>2
  <1>8. CASE SendProbe \/ LoseProbe \/ ReceiveTimeout \/ ServerRestarts \/ Rebind
             \/ UNCHANGED vars
    <2>1. down' = down
      BY <1>8 DEF SendProbe, LoseProbe, ReceiveTimeout, ServerRestarts, Rebind, vars,
                  netVars
    <2>. QED BY <1>2, <2>1
  <1>. QED BY <1>4, <1>5, <1>6, <1>7, <1>8 DEF Next

LEMMA Halves ==
  \A n \in Nat : n \div 2 \in Int /\ 2 * (n \div 2) <= n /\ n <= 2 * (n \div 2) + 1
  OBVIOUS

\* What Receive computes: the base is that of the shortest way there and back,
\* so it lies between the clocks' distance and that round trip.
LEMMA DelaysReceived ==
  ASSUME TypeOK, ApartRight, BaseRight, Receive, ~rebooted
  PROVE  /\ best' - skew \in 0..minrtt' /\ minrtt' \in Nat
         /\ 2 * report'.off <= minrtt' /\ -2 * report'.off <= minrtt' + 1
  <1>. DEFINE m == down[1]
              rtt == m.out + m.age
  <1>1. Len(down) > 0 /\ Head(down) = m /\ m \in Reply
    BY ReceiveSeq
  <1>2. m.apart = m.out + skew
    BY <1>1, Points DEF ApartRight
  <1>3. m.out \in Nat /\ m.age \in Nat /\ m.out + m.age < NoRtt
        /\ skew \in Int /\ best \in Int /\ minrtt \in Nat /\ minrtt <= NoRtt
        /\ report.seq1 \in Nat \cup {-1}
    <2>1. m.out \in 0..MaxDelay /\ m.age \in 0..MaxDelay
      BY <1>1 DEF Reply
    <2>2. NoRtt = 2 * MaxDelay + 1
      BY DEF NoRtt
    <2>3. skew \in Int /\ best \in Int /\ minrtt \in 0..NoRtt
          /\ report.seq1 \in Nat \cup {-1}
      BY DEF TypeOK
    <2>. QED BY <2>1, <2>2, <2>3, ConstantTypes
  <1>4. /\ minrtt' = IF rtt < minrtt THEN rtt ELSE minrtt
        /\ best' = IF rtt < minrtt THEN m.apart ELSE best
        /\ report'.off = (m.apart - best') + (minrtt' \div 2) - m.out
    BY <1>1 DEF Receive, Base
  <1>. HIDE DEF m
  <1>5. best' - skew \in 0..minrtt' /\ minrtt' \in Nat
    <2>1. CASE rtt < minrtt
      BY <1>2, <1>3, <1>4, <2>1
    <2>2. CASE ~(rtt < minrtt)
      <3>1. report.seq1 >= 0
        BY <1>3, <2>2 DEF BaseRight
      <3>. QED BY <1>3, <1>4, <2>2, <3>1 DEF BaseRight
    <2>. QED BY <2>1, <2>2
  <1>. DEFINE b == best' - skew
              h == minrtt' \div 2
  <1>6. b \in 0..minrtt' /\ h \in Int /\ 2 * h <= minrtt' /\ minrtt' <= 2 * h + 1
    BY <1>5, Halves
  <1>7. best' = b + skew
    <2>1. best' \in Int
      BY <1>2, <1>3, <1>4
    <2>2. skew \in Int
      BY <1>3
    <2>3. \A x, y \in Int : x = (x - y) + y
      OBVIOUS
    <2>. QED BY Zenon, <2>1, <2>2, <2>3
  <1>8. report'.off = (m.apart - best') + h - m.out
    BY <1>4
  <1>. HIDE DEF b, h
  <1>9. report'.off = h - b
    BY <1>2, <1>3, <1>6, <1>7, <1>8
  <1>. QED BY <1>5, <1>6, <1>9 DEF b

\* Every step keeps base and delays.
LEMMA DelayStep ==
  ASSUME TypeOK, DelayInv, [Next]_vars
  PROVE  DelayInv'
  <1>1. ApartRight'
    BY ApartStep DEF DelayInv
  <1>2. CASE Receive
    <2>1. report'.seq1 \in Nat
      <3>1. down[1].seq1 \in Nat /\ report'.seq1 = down[1].seq1
        BY <1>2, ReceiveSeq DEF Receive, Reply
      <3>. QED BY <3>1
    <2>2. rebooted' = rebooted /\ skew' = skew
      BY <1>2 DEF Receive, resetVars
    <2>3. BaseRight'
      BY <1>2, <2>1, <2>2, DelaysReceived DEF DelayInv, BaseRight
    <2>4. DelaysRight'
      BY <1>2, <2>2, DelaysReceived DEF DelayInv, DelaysRight
    <2>. QED BY <1>1, <2>3, <2>4 DEF DelayInv
  <1>3. CASE ~Receive
    <2>1. UNCHANGED <<report, minrtt, best>>
      BY <1>3 DEF Next, SendProbe, Serve, ServerRestarts, ReceiveTimeout, LoseProbe,
                  LoseReply, Rebind, Tick, vars, measureVars, delayVars
    <2>2. BaseRight' /\ DelaysRight'
      BY <2>1, Reboots DEF DelayInv, BaseRight, DelaysRight
    <2>. QED BY <1>1, <2>2 DEF DelayInv
  <1>. QED BY <1>2, <1>3

------------------------------------------------------------------------------
(* The theorems.                                                            *)

\* The first state satisfies the invariant.
LEMMA InitInv == Init => IInv
  <1>. SUFFICES ASSUME Init PROVE IInv
    OBVIOUS
  <1>1. up = <<>> /\ down = <<>> /\ Len(up) = 0 /\ Len(down) = 0
        /\ up \in Seq(Probe) /\ down \in Seq(Reply)
    BY EmptySeq DEF Init
  <1>2. Flying = 0 /\ 1..Flying = {}
    BY <1>1 DEF Flying
  <1>3. LostAny = {} /\ lostUp = {} /\ lostDown = {} /\ Cardinality({}) = 0 /\ IsFiniteSet({})
        /\ Lost = 0
    BY FS_EmptySet DEF Init, LostAny, Lost
  <1>4. report.seq1 = -1 /\ sent = 0 /\ seq3 = 0 /\ outages = 0 /\ quiet = 0 /\ awake = TRUE
        /\ notices = 0 /\ rebinds = 0 /\ previp = NoIP
    BY DEF Init, NoReport
  <1>5. TypeOK
    <2>1. seqs \in [Ids -> Nat] /\ age \in [Ids -> Ages]
      BY DEF Init, EmptyMaps, Ages
    <2>2. report \in [seq1 : Nat \cup {-1}, out : Int, back : Int, off : Int]
      BY DEF Init, NoReport
    <2>3. minrtt \in 0..NoRtt /\ skew \in Int
      BY ConstantTypes DEF Init, NoRtt
    <2>4. sent \in 0..MaxSent /\ awake \in BOOLEAN
      BY <1>4, ConstantTypes
    <2>5. prevport \in Int /\ best \in Int
      BY DEF Init, NoPort
    <2>6. rebooted \in BOOLEAN /\ renumbered \in BOOLEAN
      BY Zenon DEF Init
    <2>7. ip \in IPs /\ port \in Ports
      BY Zenon DEF Init
    <2>. QED BY <1>1, <1>4, <2>1, <2>2, <2>3, <2>4, <2>5, <2>6, <2>7 DEF TypeOK
  <1>6. InOrder
    BY <1>2, <1>3, <1>4 DEF InOrder
  <1>7. Counted
    <2>1. Below(LostAny, report.seq1) = 0
      BY <1>3 DEF Below
    <2>. QED BY <1>2, <1>3, <1>4, <2>1 DEF Counted
  <1>8. TotalLossRight /\ SplitRight
    BY <1>4 DEF TotalLossRight, SplitRight, MeasuresLoss
  <1>9. Numbered
    <2>1. seqs[Session] = 0
      BY ConstantTypes DEF Init, EmptyMaps
    <2>. QED BY <1>1, <1>3, <1>4, <2>1 DEF Numbered, DownCounted, Below
  <1>10. Noticed
    <2>. DEFINE e == [k \in 1..Flying |-> 0]
    <2>1. e \in [1..Flying -> 0..rebinds] /\ 0 \in 0..rebinds
      BY <1>4
    <2>. HIDE DEF e
    <2>2. SinceRebind(e, 0)
      BY <1>2, <1>4, <2>1 DEF SinceRebind
    <2>. QED BY <2>1, <2>2 DEF Noticed
  <1>11. OnTime /\ NoFalseOutage
    BY <1>1, <1>4 DEF OnTime, NoFalseOutage, Periods
  <1>12. ApartRight /\ BaseRight /\ DelaysRight
    BY <1>1, <1>4 DEF ApartRight, BaseRight, DelaysRight, Init
  <1>. QED BY <1>5, <1>6, <1>7, <1>8, <1>9, <1>10, <1>11, <1>12 DEF IInv

\* In every session, whatever is lost, delayed, restarted or renumbered, the
\* numbers, addresses, ages and clock readings under way are those of IInv.
THEOREM SessionInvariant == Spec => []IInv
  <1>1. IInv /\ [Next]_vars => IInv'
    <2>. SUFFICES ASSUME IInv, [Next]_vars PROVE IInv'
      OBVIOUS
    <2>1. TypeOK' /\ InOrder'
      BY TypeStep, InOrderStep DEF IInv
    <2>2. Counted' /\ TotalLossRight' /\ Numbered' /\ SplitRight'
      BY <2>1, CountedStep, TotalLossStep, NumberedStep, SplitStep DEF IInv
    <2>3. Noticed' /\ OnTime' /\ NoFalseOutage'
      BY <2>1, NoticedStep, OnTimeStep, OutageStep DEF IInv
    <2>4. ApartRight' /\ BaseRight' /\ DelaysRight'
      BY DelayStep DEF IInv, DelayInv
    <2>. QED BY <2>1, <2>2, <2>3, <2>4 DEF IInv
  <1>. QED BY InitInv, <1>1, PTL DEF Spec

\* The two losses measure prints with a reply add up to what was lost before it,
\* even if the server was restarted (udp_ts_seq_reply.cpp:297-340).
THEOREM TotalLossRightHolds == Spec => []TotalLossRight
  <1>1. IInv => TotalLossRight
    BY DEF IInv
  <1>. QED BY <1>1, SessionInvariant, PTL

\* Each of the two losses is right while the server's maps keep the session.
THEOREM SplitRightHolds == Spec => []SplitRight
  <1>1. IInv => SplitRight
    BY DEF IInv
  <1>. QED BY <1>1, SessionInvariant, PTL

\* measure prints at most one NEW_IP or NEW_PORT for a change of the address,
\* even though it computes the port from signed bytes.
THEOREM NoFalseNoticesHolds == Spec => []NoFalseNotices
  <1>1. IInv => NoFalseNotices
    <2>. SUFFICES ASSUME IInv PROVE NoFalseNotices
      OBVIOUS
    <2>1. PICK p \in 0..rebinds : notices <= p
      BY DEF IInv, Noticed, SinceRebind
    <2>. QED BY <2>1 DEF IInv, TypeOK, NoFalseNotices
  <1>. QED BY <1>1, SessionInvariant, PTL

\* An OUTAGE line during probing means that datagrams were lost, not only late
\* on their way out or back.
THEOREM NoFalseOutageHolds == Spec => []NoFalseOutage
  <1>1. IInv => NoFalseOutage
    BY DEF IInv
  <1>. QED BY <1>1, SessionInvariant, PTL

\* The delays printed are off by half the shortest round trip at most, for every
\* distance of the two clocks, until the server's host is booted.
THEOREM DelaysRightHolds == Spec => []DelaysRight
  <1>1. IInv => DelaysRight
    BY DEF IInv
  <1>. QED BY <1>1, SessionInvariant, PTL
=============================================================================
