--------------------------- MODULE MCTsSeqClients ---------------------------
(* Clients for TLC: probers with an id of their own, and the socat session  *)
(* of README.md:136, whose packets begin with different bytes.              *)
EXTENDS TsSeqClients

ProberIds == [c \in Clients |-> IF c = "a" THEN {"id1"} ELSE {"id2"}]
SocatIds == [c \in Clients |-> {"123", "ABC"}]
==============================================================================
