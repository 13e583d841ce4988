------------------------------ MODULE OpenGate ------------------------------
(***************************************************************************)
(* What lease.c promises ("delays the next open", line 23): a gate in      *)
(* front of a file.  While it is up, openers in its way wait.  The first   *)
(* of them rings the bell, upon which a command that was armed runs; the   *)
(* gate comes down when the command ends, or when BreakTime has passed     *)
(* since the bell, and not before.                                         *)
(***************************************************************************)
EXTENDS Integers

CONSTANTS
  Readers, Writers, \* those who open the file, by what they open it for
  BreakTime         \* /proc/sys/fs/lease-break-time in ticks

VARIABLES
  level,    \* who is kept out: "none", "ro": writers, "rw": everybody
  command,  \* "none", "armed" or "running"
  bell,     \* ticks since it rang, Silent if it did not
  inside    \* those who have the file open

gateVars == <<level, command, bell, inside>>

Silent == -1
Levels == {"none", "ro", "rw"}
KeptOut(l) ==
  CASE l = "none" -> {} [] l = "ro" -> Writers [] l = "rw" -> Readers \cup Writers
Lower(l) == CASE l = "none" -> {} [] l = "ro" -> {"none"} [] l = "rw" -> {"none", "ro"}

GateInit ==
  level = "none" /\ command = "none" /\ bell = Silent /\ inside = {}

\* The gate is put up, moved or taken down on request, past nobody inside.
Place ==
  /\ command = "none" /\ command' \in {"none", "armed"}
  /\ level' \in Levels /\ inside \cap KeptOut(level') = {}
  /\ bell' = IF level = "none" THEN Silent ELSE bell
  /\ UNCHANGED inside

Ring ==
  /\ KeptOut(level) # {}
  /\ bell' = IF bell = Silent THEN 0 ELSE bell
  /\ UNCHANGED <<level, command, inside>>

Enter ==
  /\ \E o \in (Readers \cup Writers) \ KeptOut(level) : inside' = inside \cup {o}
  /\ UNCHANGED <<level, command, bell>>

Leave ==
  /\ \E o \in inside : inside' = inside \ {o}
  /\ UNCHANGED <<level, command, bell>>

Run ==
  /\ command = "armed" /\ bell # Silent /\ command' = "running"
  /\ UNCHANGED <<level, bell, inside>>

\* The gate outlasts the command if somebody else holds it up as well.
End ==
  /\ command = "running" /\ command' = "none"
  /\ level' \in {level, "none"}
  /\ UNCHANGED <<bell, inside>>

\* A tick; after BreakTime the gate may give way.
Pass ==
  /\ bell' \in {bell, bell + 1}
  /\ level' = level \/ (bell' >= BreakTime /\ level' \in Lower(level))
  /\ UNCHANGED <<command, inside>>

GateNext == Place \/ Ring \/ Enter \/ Leave \/ Run \/ End \/ Pass

GateSpec == GateInit /\ [][GateNext]_gateVars
==============================================================================
