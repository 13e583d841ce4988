---------------------------- MODULE TsSeqServer -----------------------------
(***************************************************************************)
(* serve1 of udp_ts_seq_reply.cpp: the numbers the server puts in front of *)
(* the packets it echoes.  They are counted per id, the first four bytes   *)
(* of a packet, and start again when an id was not seen for Forget         *)
(* seconds.  A server that is restarted has empty maps.                    *)
(***************************************************************************)
EXTENDS Integers

CONSTANTS
  Ids,     \* values of the first four bytes of a packet
  Forget   \* seconds after which the numbers of an id start again (60)

ASSUME ServerAssumption == Forget \in Nat

VARIABLES
  seqs,    \* the map seqs
  age      \* the map lastseens: seconds since then, Never without an entry

serverVars == <<seqs, age>>

Never == -1
Ages == {Never} \cup 0..(Forget + 1)

EmptyMaps == seqs = [id \in Ids |-> 0] /\ age = [id \in Ids |-> Never]

\* Faulty variant: ">= 60" in line 90.
NumberForTooShort(id) == IF age[id] \in 0..(Forget - 1) THEN seqs[id] ELSE 0

\* The number the next packet with this id gets.
NumberFor(id) == IF age[id] \in 0..Forget THEN seqs[id] ELSE 0

\* serve1 echoes a packet.
Stamp(id) ==
  /\ seqs' = [seqs EXCEPT ![id] = NumberFor(id) + 1]
  /\ age' = [age EXCEPT ![id] = 0]

\* A second passes; ages beyond Forget are not told apart.
Older(a) == IF a \in 0..Forget THEN a + 1 ELSE a
GrowOlder == age' = [id \in Ids |-> Older(age[id])] /\ UNCHANGED seqs

Restart ==
  /\ seqs' = [id \in Ids |-> 0]
  /\ age' = [id \in Ids |-> Never]
==============================================================================
