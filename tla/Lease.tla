------------------------------- MODULE Lease --------------------------------
(***************************************************************************)
(* lease.c: F_SETLEASE on a file, and a command run by the handler of      *)
(* SIGIO, which the kernel sends when somebody opens the file.             *)
(*                                                                         *)
(* The tool is given the name of the file, and the lease lives as long as  *)
(* its process (also through execvp), or (`shared') a descriptor of the    *)
(* shell that calls it (@fdnum), and the lease outlives it.  Calls follow  *)
(* one another.  The rest is the kernel: a lease is broken by an open      *)
(* that conflicts with it, a second time if a writer follows a reader; the *)
(* opener waits until the lease is given up or BreakTime is over.  SIGIO   *)
(* goes to the process that first set the lease and to no other.           *)
(*                                                                         *)
(* A tick is a unit of BreakTime and of the command's duration; the steps  *)
(* of processes that can go on take no time.                               *)
(***************************************************************************)
EXTENDS Integers

CONSTANTS
  Readers, Writers, \* other processes, by what they open the file for
  BreakTime,        \* /proc/sys/fs/lease-break-time in ticks (45 s)
  Durations,        \* ticks a command may take
  MaxRuns,          \* bound on the calls of the tool
  MaxOpens          \* bound on the opens of the others

Openers == Readers \cup Writers

ASSUME LeaseAssumption ==
  /\ BreakTime \in Nat \ {0} /\ Durations \subseteq Nat
  /\ MaxRuns \in Nat /\ MaxOpens \in Nat

VARIABLES
  shared,   \* the descriptor belongs to the shell (@fdnum)
  run,      \* calls so far; the number of a call stands for its process
  pc,       \* where the last process is, "gone" when there is none
  mode, has_command_line,
  handler,  \* SIGIO is handled by sigio
  blocked,  \* SIGIO is blocked
  pending,  \* SIGIO is pending
  left,     \* ticks the command still takes
  lease,    \* the lease of the open file description
  owner,    \* the process SIGIO is sent to, 0 for none
  downgrade, unlock, \* ticks until the lease is forced down to ro, to none
  at,       \* where each opener is
  opens,
  since,    \* history: ticks since the first open the lease delayed
  killed    \* history: SIGIO ended a call with a command line

callVars == <<shared, run, mode, has_command_line>>
signalVars == <<handler, blocked, pending>>
leaseVars == <<lease, owner, downgrade, unlock, since>>
openVars == <<at, opens>>
vars == <<callVars, pc, signalVars, left, leaseVars, openVars, killed>>

No == -1
Timers == {No} \cup 1..BreakTime

FlagsOK ==
  /\ shared \in BOOLEAN /\ has_command_line \in BOOLEAN
  /\ handler \in BOOLEAN /\ blocked \in BOOLEAN /\ pending \in BOOLEAN
  /\ killed \in BOOLEAN

PlaceOK ==
  /\ run \in 0..MaxRuns /\ mode \in {"ro", "rw", "no", "get"} /\ left \in Nat
  /\ pc \in {"gone", "sigaction", "open", "setlease", "pause", "command", "return"}

KernelOK ==
  /\ lease \in {"none", "ro", "rw"} /\ owner \in 0..MaxRuns
  /\ downgrade \in Timers /\ unlock \in Timers
  /\ at \in [Openers -> {"out", "waiting", "in"}] /\ opens \in 0..MaxOpens
  /\ since \in {No} \cup 0..BreakTime

TypeOK == FlagsOK /\ PlaceOK /\ KernelOK

Init ==
  /\ shared \in BOOLEAN /\ run = 0 /\ pc = "gone"
  /\ mode = "get" /\ has_command_line = FALSE
  /\ handler = FALSE /\ blocked = FALSE /\ pending = FALSE /\ left = 0
  /\ lease = "none" /\ owner = 0 /\ downgrade = No /\ unlock = No
  /\ at = [o \in Openers |-> "out"] /\ opens = 0
  /\ since = No /\ killed = FALSE

------------------------------------------------------------------------------
(* The kernel's side.                                                       *)

Conflicts(o, l) == l = "rw" \/ (l = "ro" /\ o \in Writers)
Present(o) == at[o] # "out"

NoLease == lease' = "none" /\ owner' = 0 /\ downgrade' = No /\ unlock' = No

\* The last descriptor of the process is closed when it is gone.
Closes == IF shared THEN UNCHANGED <<lease, owner, downgrade, unlock>> ELSE NoLease

\* The end of the process.
Exits == pc' = "gone" /\ pending' = FALSE /\ left' = 0 /\ UNCHANGED <<handler, blocked>>

\* An open conflicts with the lease: the holder is told, unless it was told
\* the same before.
Break(o) ==
  LET first == unlock = No /\ (o \in Writers \/ downgrade = No) IN
  /\ IF first THEN /\ IF o \in Writers
                      THEN unlock' = BreakTime /\ UNCHANGED downgrade
                      ELSE downgrade' = BreakTime /\ UNCHANGED unlock
                   /\ pending' = (pending \/ (pc # "gone" /\ owner = run))
              ELSE UNCHANGED <<downgrade, unlock, pending>>
  /\ since' = IF since = No THEN 0 ELSE since

------------------------------------------------------------------------------
(* The tool.                                                                *)

\* A call with arguments main accepts.
Call ==
  /\ pc = "gone" /\ run < MaxRuns /\ run' = run + 1
  /\ mode' \in {"ro", "rw", "no", "get"} /\ has_command_line' \in BOOLEAN
  /\ has_command_line' => mode' \in {"ro", "rw"}
  /\ pc' = IF has_command_line' THEN "sigaction" ELSE "open"
  /\ handler' = FALSE /\ blocked' = FALSE /\ pending' = FALSE
  /\ UNCHANGED <<shared, left, leaseVars, openVars, killed>>

\* Faulty variant: the handler is set after the lease, when SIGIO may have come.
InstallHandlerLate ==
  \/ /\ pc = "sigaction" /\ pc' = "open"
     /\ UNCHANGED <<callVars, signalVars, left, leaseVars, openVars, killed>>
  \/ /\ pc = "pause" /\ handler' = TRUE
     /\ UNCHANGED <<callVars, pc, blocked, pending, left, leaseVars, openVars,
                    killed>>

\* sigaction(SIGIO), before there is a lease.
InstallHandler ==
  /\ pc = "sigaction" /\ handler' = TRUE /\ pc' = "open"
  /\ UNCHANGED <<callVars, blocked, pending, left, leaseVars, openVars, killed>>

OpenFile ==
  /\ pc = "open" /\ pc' = "setlease"
  /\ UNCHANGED <<callVars, signalVars, left, leaseVars, openVars, killed>>

\* open or a call of fcntl fails (returns 2 or 3), or main is at its end.
Returns ==
  /\ pc \in {"open", "setlease", "return"}
  /\ Exits /\ Closes
  /\ UNCHANGED <<callVars, since, openVars, killed>>

\* F_SETLEASE fails if the file is open otherwise, and may fail anyway.  A
\* lease that is there already is changed, and stays with its first owner.
SetLease ==
  /\ pc = "setlease" /\ mode \in {"ro", "rw"}
  /\ \A o \in Openers : Present(o) => ~Conflicts(o, mode)
  /\ lease = "none" \/ mode = "ro" \/ (lease = "rw" /\ since = No)
  /\ pc' = IF has_command_line THEN "pause" ELSE "return"
  /\ lease' = mode /\ downgrade' = No
  /\ owner' = IF owner = 0 THEN run ELSE owner
  /\ since' = IF lease = "none" THEN No ELSE since
  /\ UNCHANGED <<callVars, signalVars, left, unlock, openVars, killed>>

\* F_SETLEASE with F_UNLCK.
RemoveLease ==
  /\ pc = "setlease" /\ mode = "no" /\ lease # "none"
  /\ NoLease /\ Exits
  /\ UNCHANGED <<callVars, since, openVars, killed>>

\* Faulty variant: SA_NODEFER, so that the command starts with SIGIO unblocked.
SigioNoDefer ==
  /\ pending /\ ~blocked /\ pc = "pause" /\ handler
  /\ pc' = "command" /\ left' \in Durations \cup {0}
  /\ handler' = FALSE /\ blocked' = FALSE /\ pending' = FALSE
  /\ UNCHANGED <<callVars, leaseVars, openVars, killed>>

\* Faulty variant: the descriptor is closed on exec.
SigioCloexec ==
  /\ pending /\ ~blocked /\ pc = "pause" /\ handler
  /\ pc' = "command" /\ left' \in Durations \cup {0}
  /\ handler' = FALSE /\ blocked' = TRUE /\ pending' = FALSE /\ Closes
  /\ UNCHANGED <<callVars, since, openVars, killed>>

\* sigio: exec from within the handler.  The command starts without the
\* handler, but with SIGIO blocked, as it is while the handler runs.  If exec
\* fails the command is over at once (exit(127)).
Sigio ==
  /\ pending /\ ~blocked /\ pc = "pause" /\ handler
  /\ pc' = "command" /\ left' \in Durations \cup {0}
  /\ handler' = FALSE /\ blocked' = TRUE /\ pending' = FALSE
  /\ UNCHANGED <<callVars, leaseVars, openVars, killed>>

\* SIGIO without a handler ends the process.
SigioKills ==
  /\ pending /\ ~blocked /\ ~handler
  /\ Exits /\ Closes /\ killed' = (killed \/ has_command_line)
  /\ UNCHANGED <<callVars, since, openVars>>

CommandEnds ==
  /\ pc = "command" /\ left = 0
  /\ Exits /\ Closes
  /\ UNCHANGED <<callVars, since, openVars, killed>>

Tool ==
  \/ InstallHandler \/ OpenFile \/ Returns \/ SetLease \/ RemoveLease
  \/ Sigio \/ SigioKills \/ CommandEnds

------------------------------------------------------------------------------
(* The others, and time.                                                    *)

\* open, with or without O_NONBLOCK.
Open(o) ==
  /\ at[o] = "out" /\ opens < MaxOpens /\ opens' = opens + 1
  /\ IF Conflicts(o, lease)
     THEN /\ Break(o)
          /\ at' \in {at, [at EXCEPT ![o] = "waiting"]}
     ELSE /\ at' = [at EXCEPT ![o] = "in"]
          /\ UNCHANGED <<downgrade, unlock, pending, since>>
  /\ UNCHANGED <<callVars, pc, handler, blocked, left, lease, owner, killed>>

\* The lease is not in the way any more.
Opened(o) ==
  /\ at[o] = "waiting" /\ ~Conflicts(o, lease)
  /\ at' = [at EXCEPT ![o] = "in"]
  /\ UNCHANGED <<callVars, pc, signalVars, left, leaseVars, opens, killed>>

\* The file is closed, or waiting for it ended by a signal.
GoesAway(o) ==
  /\ at[o] # "out" /\ at' = [at EXCEPT ![o] = "out"]
  /\ UNCHANGED <<callVars, pc, signalVars, left, leaseVars, opens, killed>>

Down(t) == IF t \in Nat \ {0, 1} THEN t - 1 ELSE No

\* A tick passes when every process waits.
Tick ==
  /\ pc \in {"gone", "pause"} \/ (pc = "command" /\ left > 0)
  /\ ~(pending /\ ~blocked)
  /\ \A o \in Openers : at[o] = "waiting" => Conflicts(o, lease)
  /\ left' = IF pc = "command" THEN left - 1 ELSE left
  /\ IF unlock = 1 THEN NoLease
     ELSE /\ lease' = IF downgrade = 1 THEN "ro" ELSE lease
          /\ downgrade' = Down(downgrade) /\ unlock' = Down(unlock)
          /\ UNCHANGED owner
  /\ since' = IF since \in 0..(BreakTime - 1) THEN since + 1 ELSE since
  /\ UNCHANGED <<callVars, pc, signalVars, openVars, killed>>

Next ==
  \/ Call \/ Tool \/ Tick
  \/ \E o \in Openers : Open(o) \/ Opened(o) \/ GoesAway(o)

Spec == Init /\ [][Next]_vars

\* Processes that can go on do, and time passes.
FairSpec == Spec /\ WF_vars(Tool) /\ WF_vars(Tick)
                 /\ \A o \in Openers : WF_vars(Opened(o))

------------------------------------------------------------------------------
\* The gate of the abstract specification is the lease, its command the one
\* on the command line, which is armed once the lease is set.
Gate == INSTANCE OpenGate WITH
  level   <- lease,
  command <- CASE pc = "pause" -> "armed" [] pc = "command" -> "running"
               [] OTHER -> "none",
  bell    <- since,
  inside  <- {o \in Openers : at[o] = "in"}

\* lease.c:23-24: conflicting opens wait for the command, which runs when the
\* first of them comes and not before, or for the kernel to lose patience.
DelaysOpens == Gate!GateSpec

\* A second SIGIO (a writer after a reader) does not end the command that the
\* first one started, nor does any SIGIO come too early for the handler.
NeverKilled == ~killed

\* A conflicting open of the file named is never lost on a tool that waits for
\* it, whenever it comes after F_SETLEASE (lease.c:113-122): SIGIO is pending,
\* and the handler is there to take it.
KnockHeard == pc = "pause" /\ ~shared /\ since # No => pending /\ ~blocked /\ handler

\* A conflicting open of the file named has the command run to its end.
KnockRunsCommand ==
  (pc = "pause" /\ ~shared /\ since # No) ~> (pc = "gone" /\ ~killed)

\* What ties the signal to the place of the process, and the lease to both.
SignalsRight ==
  /\ has_command_line /\ pc \in {"open", "setlease", "pause"} => handler
  /\ pc = "command" => blocked /\ since # No
  /\ pc = "return" => ~has_command_line
  /\ pc = "pause" => has_command_line
  /\ pending => since # No /\ pc \in {"pause", "command", "return"}
  /\ owner <= run
  /\ pc \in {"sigaction", "open", "setlease"} => owner < run
  /\ ~killed

LeaseRight ==
  /\ \A o \in Openers : at[o] = "in" => ~Conflicts(o, lease)
  /\ ~shared /\ lease # "none" => pc \in {"pause", "command", "return"}
  /\ lease = "none" => owner = 0 /\ downgrade = No /\ unlock = No
  /\ lease = "ro" => downgrade = No
  /\ downgrade # No => since # No /\ since + downgrade >= BreakTime
  /\ unlock # No => since # No /\ since + unlock >= BreakTime

\* The inductive invariant: SIGIO only comes to a process that is ready for it
\* (lease.c:73-121), and the lease is as strong as its openers allow.
LeaseInv == TypeOK /\ SignalsRight /\ LeaseRight
==============================================================================
