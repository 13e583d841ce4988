---------------------------- MODULE TsSeqClients ----------------------------
(***************************************************************************)
(* The server of udp_ts_seq_reply with any clients that send it packets,   *)
(* like the socat session of README.md:136.                                *)
(***************************************************************************)
EXTENDS TsSeqServer

CONSTANTS
  Clients,
  IdsOf,     \* the first four bytes of the packets of each client
  MaxSeq     \* bound on the numbers given out

ASSUME ClientsAssumption ==
  /\ IdsOf \in [Clients -> SUBSET Ids]
  /\ MaxSeq \in Nat

VARIABLES
  last,      \* history: number of the last answer to a client, -1 before
  since      \* history: seconds since the last answer to a client

vars == <<serverVars, last, since>>

TypeOK ==
  /\ seqs \in [Ids -> 0..MaxSeq] /\ age \in [Ids -> Ages]
  /\ last \in [Clients -> -1..MaxSeq] /\ since \in [Clients -> Ages]

Init ==
  /\ EmptyMaps
  /\ last = [c \in Clients |-> -1] /\ since = [c \in Clients |-> Never]

Packet(c, id) ==
  /\ id \in IdsOf[c] /\ NumberFor(id) < MaxSeq
  /\ Stamp(id)
  /\ last' = [last EXCEPT ![c] = NumberFor(id)]
  /\ since' = [since EXCEPT ![c] = 0]

Second ==
  /\ GrowOlder
  /\ since' = [c \in Clients |-> Older(since[c])]
  /\ UNCHANGED last

Next == Second \/ \E c \in Clients, id \in Ids : Packet(c, id)

Spec == Init /\ [][Next]_vars

\* README.md:133, "4 bytes of per-client sequence number": the answers to a
\* client that keeps sending are numbered one after the other from zero.
PerClientNumbers ==
  [][\A c \in Clients, id \in Ids :
       Packet(c, id) =>
         last'[c] = IF since[c] \in 0..Forget THEN last[c] + 1 ELSE 0]_vars

\* What makes it true: no client shares its id or uses two.
OwnIds ==
  /\ \A c \in Clients : \A i, j \in IdsOf[c] : i = j
  /\ \A c, d \in Clients : c # d => IdsOf[c] \cap IdsOf[d] = {}

\* The maps of the server hold what the client with the id was told.
MapsFollowClients ==
  OwnIds => \A c \in Clients : \A id \in IdsOf[c] :
    /\ age[id] = since[c]
    /\ seqs[id] = last[c] + 1
==============================================================================
