---------------------------- MODULE MCPeckedRelay ----------------------------
(* Commands for TLC: two for an open file, one for stderr.                  *)
EXTENDS PeckedRelay

MCFdOf == [c \in Commands |-> IF c = "stderr" THEN 2 ELSE 3]
==============================================================================
