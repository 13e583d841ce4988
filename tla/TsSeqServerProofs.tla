------------------------- MODULE TsSeqServerProofs --------------------------
(***************************************************************************)
(* The numbers of the udp_ts_seq_reply server are per client exactly when  *)
(* every client has one id of its own, for any clients, ids and Forget.    *)
(***************************************************************************)
EXTENDS TsSeqClients, TLAPS

Inv == TypeOK /\ MapsFollowClients

LEMMA InvInit == Init => Inv
  <1>. SUFFICES ASSUME Init PROVE Inv
    OBVIOUS
  <1>1. TypeOK
    BY ClientsAssumption, ServerAssumption
    DEF Init, EmptyMaps, TypeOK, Ages, Never
  <1>2. MapsFollowClients
    <2>1. ASSUME NEW c \in Clients, NEW id \in IdsOf[c]
          PROVE  age[id] = since[c] /\ seqs[id] = last[c] + 1
      <3>1. id \in Ids
        BY ClientsAssumption
      <3>2. age[id] = Never /\ since[c] = Never
        BY <3>1 DEF Init, EmptyMaps
      <3>3. seqs[id] = 0 /\ last[c] = -1
        BY <3>1 DEF Init, EmptyMaps
      <3>. QED BY <3>2, <3>3
    <2>. QED BY <2>1 DEF MapsFollowClients
  <1>. QED BY <1>1, <1>2 DEF Inv

LEMMA NumberType ==
  ASSUME TypeOK, NEW id \in Ids
  PROVE  NumberFor(id) \in 0..MaxSeq
  BY ClientsAssumption DEF TypeOK, NumberFor

\* A second makes every entry and every client's silence older alike.
LEMMA SecondStep == Inv /\ Second => Inv'
  <1>. SUFFICES ASSUME Inv, Second PROVE Inv'
    OBVIOUS
  <1>1. \A a \in Ages : Older(a) \in Ages
    BY ServerAssumption DEF Ages, Older, Never
  <1>2. TypeOK'
    BY <1>1 DEF Inv, TypeOK, Second, GrowOlder
  <1>3. MapsFollowClients'
    BY ClientsAssumption
    DEF Inv, TypeOK, MapsFollowClients, OwnIds, Second, GrowOlder
  <1>. QED BY <1>2, <1>3 DEF Inv

\* serve1 changes the entry of one id and the history of one client.
LEMMA PacketStep ==
  ASSUME Inv, NEW c \in Clients, NEW id \in Ids, Packet(c, id)
  PROVE  Inv'
  <1>1. NumberFor(id) \in 0..MaxSeq /\ NumberFor(id) < MaxSeq
    BY NumberType DEF Inv, Packet
  <1>2. TypeOK'
    <2>1. seqs' \in [Ids -> 0..MaxSeq] /\ last' \in [Clients -> -1..MaxSeq]
      BY <1>1, ClientsAssumption DEF Inv, TypeOK, Packet, Stamp
    <2>2. age' \in [Ids -> Ages] /\ since' \in [Clients -> Ages]
      BY ServerAssumption DEF Inv, TypeOK, Packet, Stamp, Ages
    <2>. QED BY <2>1, <2>2 DEF TypeOK
  <1>3. ASSUME OwnIds, NEW d \in Clients, NEW i \in IdsOf[d]
        PROVE  age'[i] = since'[d] /\ seqs'[i] = last'[d] + 1
    <2>1. i \in Ids /\ id \in IdsOf[c] /\ (i = id <=> d = c)
      BY <1>3, ClientsAssumption DEF OwnIds, Packet
    <2>2. CASE d = c
      BY <1>1, <2>1, <2>2 DEF Inv, TypeOK, Packet, Stamp
    <2>3. CASE d # c
      BY <1>3, <2>1, <2>3 DEF Inv, TypeOK, MapsFollowClients, Packet, Stamp
    <2>. QED BY <2>2, <2>3
  <1>4. MapsFollowClients'
    BY <1>3 DEF MapsFollowClients, OwnIds
  <1>. QED BY <1>2, <1>4 DEF Inv

LEMMA InvNext == Inv /\ [Next]_vars => Inv'
  <1>1. Inv /\ UNCHANGED vars => Inv'
    BY DEF Inv, TypeOK, MapsFollowClients, OwnIds, vars, serverVars
  <1>. QED BY <1>1, SecondStep, PacketStep DEF Next

\* The types, and the server's entry for an id (seqs and lastseens in
\* serve1) is the history of the one client that uses it.
THEOREM ServerInvariant == Spec => [](TypeOK /\ MapsFollowClients)
  <1>1. Inv => TypeOK /\ MapsFollowClients
    BY DEF Inv
  <1>. QED BY InvInit, InvNext, <1>1, PTL DEF Spec

LEMMA InvHolds == Spec => []Inv
  BY InvInit, InvNext, PTL DEF Spec

\* Clients with one id of their own are numbered one after the other.
THEOREM NumbersPerClient ==
  ASSUME OwnIds
  PROVE  Spec => PerClientNumbers
  <1>1. ASSUME Inv, [Next]_vars,
               NEW c \in Clients, NEW id \in Ids, Packet(c, id)
        PROVE  last'[c] = IF since[c] \in 0..Forget THEN last[c] + 1 ELSE 0
    <2>1. last'[c] = NumberFor(id)
      BY <1>1 DEF Packet, Inv, TypeOK
    <2>2. age[id] = since[c] /\ seqs[id] = last[c] + 1
      BY <1>1 DEF Packet, Inv, MapsFollowClients
    <2>. QED BY <2>1, <2>2 DEF NumberFor
  <1>2. Inv /\ [Next]_vars =>
          [\A c \in Clients, id \in Ids :
             Packet(c, id) =>
               last'[c] = IF since[c] \in 0..Forget THEN last[c] + 1
                          ELSE 0]_vars
    BY <1>1
  <1>. QED BY <1>2, InvHolds, PTL DEF Spec, PerClientNumbers
==============================================================================
