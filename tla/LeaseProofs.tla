---------------------------- MODULE LeaseProofs -----------------------------
(***************************************************************************)
(* Theorems about Lease: the invariant, that SIGIO never ends a call that  *)
(* has a command, that no open is lost on a call that waits for one, and   *)
(* that the tool and the kernel implement OpenGate.                        *)
(***************************************************************************)
EXTENDS Lease, TLAPS

\* The first state satisfies the invariant.
LEMMA InitInv == Init => LeaseInv
<1> SUFFICES ASSUME Init PROVE LeaseInv
  OBVIOUS
<1>0. FlagsOK
  BY DEF Init, FlagsOK
<1>1. PlaceOK
  BY LeaseAssumption DEF Init, PlaceOK
<1>2. KernelOK
  BY LeaseAssumption DEF Init, KernelOK, No, Timers
<1>3. SignalsRight
  BY LeaseAssumption DEF Init, SignalsRight
<1>4. LeaseRight
  BY LeaseAssumption DEF Init, LeaseRight, No
<1> QED
  BY <1>0, <1>1, <1>2, <1>3, <1>4 DEF LeaseInv, TypeOK

\* Every step keeps the flags Boolean.
LEMMA FlagsStep == LeaseInv /\ [Next]_vars => FlagsOK'
<1> SUFFICES ASSUME LeaseInv, [Next]_vars PROVE FlagsOK'
  OBVIOUS
<1> USE LeaseAssumption DEF LeaseInv, TypeOK, FlagsOK
<1>1. CASE Call
  BY <1>1 DEF Call, leaseVars, openVars
<1>2. CASE InstallHandler
  BY <1>2 DEF InstallHandler, callVars, leaseVars, openVars
<1>3. CASE OpenFile
  BY <1>3 DEF OpenFile, callVars, signalVars, leaseVars, openVars
<1>4. CASE Returns
  BY <1>4 DEF Returns, Exits, Closes, NoLease, callVars, openVars
<1>5. CASE SetLease
  BY <1>5 DEF SetLease, callVars, signalVars, openVars
<1>6. CASE RemoveLease
  BY <1>6 DEF RemoveLease, Exits, NoLease, callVars, openVars
<1>7. CASE Sigio
  BY <1>7 DEF Sigio, callVars, leaseVars, openVars
<1>8. CASE SigioKills
  BY <1>8 DEF SigioKills, Exits, Closes, NoLease, callVars, openVars
<1>9. CASE CommandEnds
  BY <1>9 DEF CommandEnds, Exits, Closes, NoLease, callVars, openVars
<1>10. CASE Tick
  BY <1>10 DEF Tick, NoLease, Down, callVars, signalVars, openVars
<1>11. ASSUME NEW o \in Openers, Open(o) PROVE FlagsOK'
  BY <1>11 DEF Open, Break, callVars
<1>12. ASSUME NEW o \in Openers, Opened(o) PROVE FlagsOK'
  BY <1>12 DEF Opened, callVars, signalVars, leaseVars
<1>13. ASSUME NEW o \in Openers, GoesAway(o) PROVE FlagsOK'
  BY <1>13 DEF GoesAway, callVars, signalVars, leaseVars
<1>14. CASE UNCHANGED vars
  BY <1>14 DEF vars, callVars, signalVars, leaseVars, openVars
<1> QED
  BY <1>1, <1>2, <1>3, <1>4, <1>5, <1>6, <1>7, <1>8, <1>9, <1>10, <1>11,
     <1>12, <1>13, <1>14 DEF Next, Tool

\* Every step keeps the process in its places.
LEMMA PlaceStep == LeaseInv /\ [Next]_vars => PlaceOK'
<1> SUFFICES ASSUME LeaseInv, [Next]_vars PROVE PlaceOK'
  OBVIOUS
<1> USE LeaseAssumption DEF LeaseInv, TypeOK, PlaceOK
<1>1. CASE Call
  BY <1>1 DEF Call, leaseVars, openVars
<1>2. CASE InstallHandler
  BY <1>2 DEF InstallHandler, callVars, leaseVars, openVars
<1>3. CASE OpenFile
  BY <1>3 DEF OpenFile, callVars, signalVars, leaseVars, openVars
<1>4. CASE Returns
  BY <1>4 DEF Returns, Exits, Closes, NoLease, callVars, openVars
<1>5. CASE SetLease
  BY <1>5 DEF SetLease, callVars, signalVars, openVars
<1>6. CASE RemoveLease
  BY <1>6 DEF RemoveLease, Exits, NoLease, callVars, openVars
<1>7. CASE Sigio
  BY <1>7 DEF Sigio, callVars, leaseVars, openVars
<1>8. CASE SigioKills
  BY <1>8 DEF SigioKills, Exits, Closes, NoLease, callVars, openVars
<1>9. CASE CommandEnds
  BY <1>9 DEF CommandEnds, Exits, Closes, NoLease, callVars, openVars
<1>10. CASE Tick
  BY <1>10 DEF Tick, NoLease, Down, callVars, signalVars, openVars
<1>11. ASSUME NEW o \in Openers, Open(o) PROVE PlaceOK'
  BY <1>11 DEF Open, Break, callVars
<1>12. ASSUME NEW o \in Openers, Opened(o) PROVE PlaceOK'
  BY <1>12 DEF Opened, callVars, signalVars, leaseVars
<1>13. ASSUME NEW o \in Openers, GoesAway(o) PROVE PlaceOK'
  BY <1>13 DEF GoesAway, callVars, signalVars, leaseVars
<1>14. CASE UNCHANGED vars
  BY <1>14 DEF vars, callVars, signalVars, leaseVars, openVars
<1> QED
  BY <1>1, <1>2, <1>3, <1>4, <1>5, <1>6, <1>7, <1>8, <1>9, <1>10, <1>11,
     <1>12, <1>13, <1>14 DEF Next, Tool

\* Every step keeps the types of the kernel's variables.
LEMMA KernelStep == LeaseInv /\ [Next]_vars => KernelOK'
<1> SUFFICES ASSUME LeaseInv, [Next]_vars PROVE KernelOK'
  OBVIOUS
<1> USE LeaseAssumption DEF LeaseInv, TypeOK, FlagsOK, PlaceOK, KernelOK, No, Timers
<1>1. CASE Call
  BY <1>1 DEF Call, leaseVars, openVars
<1>2. CASE InstallHandler
  BY <1>2 DEF InstallHandler, callVars, leaseVars, openVars
<1>3. CASE OpenFile
  BY <1>3 DEF OpenFile, callVars, signalVars, leaseVars, openVars
<1>4. CASE Returns
  BY <1>4 DEF Returns, Exits, Closes, NoLease, callVars, openVars
<1>5. CASE SetLease
  BY <1>5 DEF SetLease, callVars, signalVars, openVars
<1>6. CASE RemoveLease
  BY <1>6 DEF RemoveLease, Exits, NoLease, callVars, openVars
<1>7. CASE Sigio
  BY <1>7 DEF Sigio, callVars, leaseVars, openVars
<1>8. CASE SigioKills
  BY <1>8 DEF SigioKills, Exits, Closes, NoLease, callVars, openVars
<1>9. CASE CommandEnds
  BY <1>9 DEF CommandEnds, Exits, Closes, NoLease, callVars, openVars
<1>10. CASE Tick
  BY <1>10 DEF Tick, NoLease, Down, callVars, signalVars, openVars
<1>11. ASSUME NEW o \in Openers, Open(o) PROVE KernelOK'
  BY <1>11 DEF Open, Break, callVars
<1>12. ASSUME NEW o \in Openers, Opened(o) PROVE KernelOK'
  BY <1>12 DEF Opened, callVars, signalVars, leaseVars
<1>13. ASSUME NEW o \in Openers, GoesAway(o) PROVE KernelOK'
  BY <1>13 DEF GoesAway, callVars, signalVars, leaseVars
<1>14. CASE UNCHANGED vars
  BY <1>14 DEF vars, callVars, signalVars, leaseVars, openVars
<1> QED
  BY <1>1, <1>2, <1>3, <1>4, <1>5, <1>6, <1>7, <1>8, <1>9, <1>10, <1>11,
     <1>12, <1>13, <1>14 DEF Next, Tool

\* Every step keeps the signal and the process in step.
LEMMA SignalsStep == LeaseInv /\ [Next]_vars => SignalsRight'
<1> SUFFICES ASSUME LeaseInv, [Next]_vars PROVE SignalsRight'
  OBVIOUS
<1> USE LeaseAssumption DEF LeaseInv, TypeOK, FlagsOK, PlaceOK, KernelOK, SignalsRight, No
<1>1. CASE Call
  BY <1>1 DEF Call, leaseVars, openVars
<1>2. CASE InstallHandler
  BY <1>2 DEF InstallHandler, callVars, leaseVars, openVars
<1>3. CASE OpenFile
  BY <1>3 DEF OpenFile, callVars, signalVars, leaseVars, openVars
<1>4. CASE Returns
  BY <1>4 DEF Returns, Exits, Closes, NoLease, callVars, openVars
<1>5. CASE SetLease
  BY <1>5 DEF SetLease, callVars, signalVars, openVars
<1>6. CASE RemoveLease
  BY <1>6 DEF RemoveLease, Exits, NoLease, callVars, openVars
<1>7. CASE Sigio
  BY <1>7 DEF Sigio, callVars, leaseVars, openVars
<1>8. CASE SigioKills
  BY <1>8 DEF SigioKills, Exits, Closes, NoLease, callVars, openVars
<1>9. CASE CommandEnds
  BY <1>9 DEF CommandEnds, Exits, Closes, NoLease, callVars, openVars
<1>10. CASE Tick
  BY <1>10 DEF Tick, NoLease, Down, callVars, signalVars, openVars
<1>11. ASSUME NEW o \in Openers, Open(o) PROVE SignalsRight'
  BY <1>11 DEF Open, Break, callVars
<1>12. ASSUME NEW o \in Openers, Opened(o) PROVE SignalsRight'
  BY <1>12 DEF Opened, callVars, signalVars, leaseVars
<1>13. ASSUME NEW o \in Openers, GoesAway(o) PROVE SignalsRight'
  BY <1>13 DEF GoesAway, callVars, signalVars, leaseVars
<1>14. CASE UNCHANGED vars
  BY <1>14 DEF vars, callVars, signalVars, leaseVars, openVars
<1> QED
  BY <1>1, <1>2, <1>3, <1>4, <1>5, <1>6, <1>7, <1>8, <1>9, <1>10, <1>11,
     <1>12, <1>13, <1>14 DEF Next, Tool

\* Every step keeps the lease as strong as its openers allow.
LEMMA LeaseStep == LeaseInv /\ [Next]_vars => LeaseRight'
<1> SUFFICES ASSUME LeaseInv, [Next]_vars PROVE LeaseRight'
  OBVIOUS
<1> USE LeaseAssumption DEF LeaseInv, TypeOK, FlagsOK, PlaceOK, KernelOK, SignalsRight, LeaseRight, No, Timers, Conflicts, Present
<1>1. CASE Call
  BY <1>1 DEF Call, leaseVars, openVars
<1>2. CASE InstallHandler
  BY <1>2 DEF InstallHandler, callVars, leaseVars, openVars
<1>3. CASE OpenFile
  BY <1>3 DEF OpenFile, callVars, signalVars, leaseVars, openVars
<1>4. CASE Returns
  BY <1>4 DEF Returns, Exits, Closes, NoLease, callVars, openVars
<1>5. CASE SetLease
  BY <1>5 DEF SetLease, callVars, signalVars, openVars
<1>6. CASE RemoveLease
  BY <1>6 DEF RemoveLease, Exits, NoLease, callVars, openVars
<1>7. CASE Sigio
  BY <1>7 DEF Sigio, callVars, leaseVars, openVars
<1>8. CASE SigioKills
  BY <1>8 DEF SigioKills, Exits, Closes, NoLease, callVars, openVars
<1>9. CASE CommandEnds
  BY <1>9 DEF CommandEnds, Exits, Closes, NoLease, callVars, openVars
<1>10. CASE Tick
  BY <1>10 DEF Tick, NoLease, Down, callVars, signalVars, openVars
<1>11. ASSUME NEW o \in Openers, Open(o) PROVE LeaseRight'
  BY <1>11 DEF Open, Break, callVars
<1>12. ASSUME NEW o \in Openers, Opened(o) PROVE LeaseRight'
  BY <1>12 DEF Opened, callVars, signalVars, leaseVars
<1>13. ASSUME NEW o \in Openers, GoesAway(o) PROVE LeaseRight'
  BY <1>13 DEF GoesAway, callVars, signalVars, leaseVars
<1>14. CASE UNCHANGED vars
  BY <1>14 DEF vars, callVars, signalVars, leaseVars, openVars
<1> QED
  BY <1>1, <1>2, <1>3, <1>4, <1>5, <1>6, <1>7, <1>8, <1>9, <1>10, <1>11,
     <1>12, <1>13, <1>14 DEF Next, Tool

\* Every reachable state satisfies the invariant.
THEOREM LeaseInvariant == Spec => []LeaseInv
<1>1. LeaseInv /\ [Next]_vars => LeaseInv'
  BY FlagsStep, PlaceStep, KernelStep, SignalsStep, LeaseStep DEF LeaseInv, TypeOK
<1> QED
  BY InitInv, <1>1, PTL DEF Spec

\* No SIGIO, first or second, ends a call that has a command (lease.c:14-17,
\* 73-80): neither before the handler is there nor while the command runs.
THEOREM NeverKilledHolds == Spec => []NeverKilled
<1>1. LeaseInv => NeverKilled
  BY DEF LeaseInv, SignalsRight, NeverKilled
<1> QED
  BY LeaseInvariant, <1>1, PTL

------------------------------------------------------------------------------
(* The knock.  While nobody has knocked at a lease of its own, the tool that  *)
(* waits is the one the kernel will send SIGIO to.                            *)
Waits ==
  /\ pc \notin {"command", "gone"} => ~blocked
  /\ pc = "pause" /\ ~shared /\ since = No => owner = run
  /\ KnockHeard

\* Every step keeps the one that waits ready.
LEMMA WaitsStep == LeaseInv /\ Waits /\ [Next]_vars => Waits'
<1> SUFFICES ASSUME LeaseInv, Waits, [Next]_vars PROVE Waits'
  OBVIOUS
<1> USE LeaseAssumption DEF LeaseInv, TypeOK, FlagsOK, PlaceOK, KernelOK,
        SignalsRight, LeaseRight, Waits, KnockHeard, No, Timers
<1>1. CASE Call
  BY <1>1 DEF Call, leaseVars, openVars
<1>2. CASE InstallHandler
  BY <1>2 DEF InstallHandler, callVars, leaseVars, openVars
<1>3. CASE OpenFile
  BY <1>3 DEF OpenFile, callVars, signalVars, leaseVars, openVars
<1>4. CASE Returns
  BY <1>4 DEF Returns, Exits
<1>5. CASE SetLease
  BY <1>5 DEF SetLease, callVars, signalVars, openVars
<1>6. CASE RemoveLease
  BY <1>6 DEF RemoveLease, Exits
<1>7. CASE Sigio
  BY <1>7 DEF Sigio
<1>8. CASE SigioKills
  BY <1>8 DEF SigioKills, Exits
<1>9. CASE CommandEnds
  BY <1>9 DEF CommandEnds, Exits
<1>10. CASE Tick
  BY <1>10 DEF Tick, NoLease, Down, callVars, signalVars, openVars
<1>11. ASSUME NEW o \in Openers, Open(o) PROVE Waits'
  BY <1>11 DEF Open, Break, callVars
<1>12. ASSUME NEW o \in Openers, Opened(o) PROVE Waits'
  BY <1>12 DEF Opened, callVars, signalVars, leaseVars
<1>13. ASSUME NEW o \in Openers, GoesAway(o) PROVE Waits'
  BY <1>13 DEF GoesAway, callVars, signalVars, leaseVars
<1>14. CASE UNCHANGED vars
  BY <1>14 DEF vars, callVars, signalVars, leaseVars, openVars
<1> QED
  BY <1>1, <1>2, <1>3, <1>4, <1>5, <1>6, <1>7, <1>8, <1>9, <1>10, <1>11,
     <1>12, <1>13, <1>14 DEF Next, Tool

LEMMA WaitsInvariant == Spec => []Waits
<1>1. Init => Waits
  BY DEF Init, Waits, KnockHeard
<1> QED
  BY <1>1, WaitsStep, LeaseInvariant, PTL DEF Spec

\* However the opens fall, no knock is lost on a tool that waits for one at a
\* file it opened itself (lease.c:113-122).
THEOREM KnockHeardHolds == Spec => []KnockHeard
<1>1. Waits => KnockHeard
  BY DEF Waits
<1> QED
  BY WaitsInvariant, <1>1, PTL

\* The tool goes on while SIGIO is there for a handler: what weak fairness of
\* Tool says of the states in which only Sigio is a step of Tool, with the guard
\* of Sigio written for ENABLED.
Sent == pc = "pause" /\ pending /\ ~blocked /\ handler
TakesSigio == <>[]Sent => []<><<Tool>>_vars

\* A knock has the command started (lease.c:14-17, 121).
THEOREM KnockStartsCommand ==
  Spec /\ TakesSigio
    => ((pc = "pause" /\ ~shared /\ since # No) ~> pc = "command")
<1> DEFINE Knocked == pc = "pause" /\ ~shared /\ since # No
           Started == pc = "command"
<1>1. Waits /\ Knocked => Sent
  BY DEF Waits, KnockHeard, Sent
<1>2. Sent /\ Tool => Started'
  BY DEF Sent, Tool, InstallHandler, OpenFile, Returns, SetLease, RemoveLease,
         Sigio, SigioKills, CommandEnds
<1>3. LeaseInv /\ Sent /\ [Next]_vars => (Sent \/ Started)'
  <2> SUFFICES ASSUME LeaseInv, Sent, [Next]_vars PROVE (Sent \/ Started)'
    OBVIOUS
  <2>1. ASSUME NEW o \in Openers, Open(o) PROVE Sent'
    <3>1. pc' = pc /\ blocked' = blocked /\ handler' = handler
      BY <2>1 DEF Open
    <3>2. pending'
      BY <2>1 DEF Open, Break, Sent
    <3> QED
      BY <3>1, <3>2 DEF Sent
  <2>2. ASSUME NEW o \in Openers, Opened(o) \/ GoesAway(o) PROVE Sent'
    <3>1. pc' = pc /\ signalVars' = signalVars
      BY <2>2 DEF Opened, GoesAway
    <3>2. blocked' = blocked /\ handler' = handler /\ pending' = pending
      BY <3>1 DEF signalVars
    <3> QED
      BY <3>1, <3>2 DEF Sent
  <2>3. CASE UNCHANGED vars
    BY <2>3 DEF vars, signalVars, Sent
  <2>4. ~Call
    BY DEF Call, Sent
  <2>5. ~Tick
    BY DEF Tick, Sent
  <2> QED
    BY <1>2, <2>1, <2>2, <2>3, <2>4, <2>5 DEF Next
<1>4. Sent /\ <<Tool>>_vars => Started'
  BY <1>2
<1> HIDE DEF Knocked, Started
<1>5. Spec /\ TakesSigio => (Knocked ~> Started)
  BY <1>1, <1>3, <1>4, LeaseInvariant, WaitsInvariant, PTL DEF Spec, TakesSigio
<1> QED
  BY <1>5 DEF Knocked, Started

------------------------------------------------------------------------------
(* The refinement.  The abstract command and the abstract inside, named.     *)
Command ==
  CASE pc = "pause" -> "armed" [] pc = "command" -> "running" [] OTHER -> "none"
Inside == {o \in Openers : at[o] = "in"}

\* A step that leaves these four alone is a stutter of the gate.
LEMMA GateStutters ==
  ASSUME lease' = lease, Command' = Command, since' = since, Inside' = Inside
  PROVE  UNCHANGED Gate!gateVars
  BY DEF Gate!gateVars, Command, Inside

\* Steps of the tool that do not touch the gate.
LEMMA QuietSteps ==
  ASSUME LeaseInv, Call \/ InstallHandler \/ OpenFile
  PROVE  UNCHANGED Gate!gateVars
<1>1. lease' = lease /\ since' = since /\ at' = at
  BY DEF Call, InstallHandler, OpenFile, leaseVars, openVars
<1>2. Command' = Command
  BY DEF Call, InstallHandler, OpenFile, Command
<1>3. Inside' = Inside
  BY <1>1 DEF Inside
<1> QED
  BY <1>1, <1>2, <1>3, GateStutters

\* Setting and removing the lease places the gate, past nobody inside.
LEMMA PlaceSteps ==
  ASSUME LeaseInv, SetLease \/ RemoveLease \/ Returns \/ SigioKills
  PROVE  [Gate!GateNext]_(Gate!gateVars)
<1> USE DEF LeaseInv, TypeOK, FlagsOK, PlaceOK, KernelOK, No
<1>1. Inside' = Inside
  BY DEF SetLease, RemoveLease, Returns, SigioKills, openVars, Inside
<1>2. CASE lease' = lease /\ Command' = Command /\ since' = since
  BY <1>1, <1>2, GateStutters
<1>3. CASE SetLease
  <2>1. Command = "none" /\ Command' \in {"none", "armed"}
    BY <1>3 DEF SetLease, Command
  <2>2. lease' \in {"none", "ro", "rw"}
        /\ since' = IF lease = "none" THEN -1 ELSE since
    BY <1>3 DEF SetLease
  <2>3. \A o \in Inside : ~Conflicts(o, lease')
    BY <1>3 DEF SetLease, Inside, Present
  <2>4. Inside \cap Gate!KeptOut(lease') = {}
    BY <2>2, <2>3 DEF Gate!KeptOut, Conflicts
  <2>5. Gate!Place
    BY <1>1, <2>1, <2>2, <2>4
       DEF Gate!Place, Gate!Levels, Gate!Silent, Command, Inside
  <2> QED
    BY <2>5 DEF Gate!GateNext
<1>4. CASE (RemoveLease \/ Returns \/ SigioKills) /\ lease' # lease
  <2>1. lease' = "none" /\ since' = since
    BY <1>4 DEF RemoveLease, Returns, SigioKills, NoLease, Closes
  <2>2. Command = "none" /\ Command' = "none"
    BY <1>4 DEF RemoveLease, Returns, SigioKills, Exits, Command, SignalsRight
  <2>3. Gate!Place
    BY <1>1, <1>4, <2>1, <2>2
       DEF Gate!Place, Gate!Levels, Gate!KeptOut, Gate!Silent, Command, Inside
  <2> QED
    BY <2>3 DEF Gate!GateNext
<1>5. CASE (RemoveLease \/ Returns \/ SigioKills) /\ lease' = lease
  <2>1. since' = since
    BY <1>5 DEF RemoveLease, Returns, SigioKills
  <2>2. Command' = Command
    BY <1>5 DEF RemoveLease, Returns, SigioKills, Exits, Command, SignalsRight
  <2> QED
    BY <1>2, <1>5, <2>1, <2>2
<1> QED
  BY <1>3, <1>4, <1>5

\* The handler starts the command, the end of its process ends it.
LEMMA CommandSteps ==
  ASSUME LeaseInv, Sigio \/ CommandEnds
  PROVE  Gate!GateNext
<1> USE DEF LeaseInv, TypeOK, FlagsOK, PlaceOK, KernelOK, No
<1>1. Inside' = Inside
  BY DEF Sigio, CommandEnds, openVars, Inside
<1>2. CASE Sigio
  <2>1. Command = "armed" /\ Command' = "running"
    BY <1>2 DEF Sigio, Command
  <2>2. since # -1 /\ since' = since /\ lease' = lease
    BY <1>2 DEF Sigio, SignalsRight, leaseVars
  <2> QED
    BY <1>1, <2>1, <2>2
       DEF Gate!GateNext, Gate!Run, Gate!Silent, Command, Inside
<1>3. CASE CommandEnds
  <2>1. Command = "running" /\ Command' = "none"
    BY <1>3 DEF CommandEnds, Exits, Command
  <2>2. since' = since /\ lease' \in {lease, "none"}
    BY <1>3 DEF CommandEnds, Closes, NoLease
  <2> QED
    BY <1>1, <2>1, <2>2 DEF Gate!GateNext, Gate!End, Command, Inside
<1> QED
  BY <1>2, <1>3

\* Openers ring, enter and leave.
LEMMA OpenerSteps ==
  ASSUME LeaseInv, NEW o \in Openers, Open(o) \/ Opened(o) \/ GoesAway(o)
  PROVE  [Gate!GateNext]_(Gate!gateVars)
<1> USE DEF LeaseInv, TypeOK, FlagsOK, PlaceOK, KernelOK, No
<1>1. lease' = lease /\ Command' = Command
  BY DEF Open, Opened, GoesAway, Command, leaseVars
<1>2. CASE Open(o) /\ Conflicts(o, lease)
  <2>1. Inside' = Inside
    BY <1>2 DEF Open, Inside
  <2>2. since' = IF since = -1 THEN 0 ELSE since
    BY <1>2 DEF Open, Break
  <2>3. Gate!KeptOut(lease) # {}
    BY <1>2 DEF Conflicts, Gate!KeptOut, Openers
  <2> QED
    BY <1>1, <2>1, <2>2, <2>3
       DEF Gate!GateNext, Gate!Ring, Gate!Silent, Command, Inside
<1>3. CASE (Open(o) \/ Opened(o)) /\ ~Conflicts(o, lease)
  <2>1. Inside' = Inside \cup {o} /\ since' = since
    BY <1>3 DEF Open, Opened, Inside, leaseVars
  <2>2. o \in (Readers \cup Writers) \ Gate!KeptOut(lease)
    BY <1>3 DEF Conflicts, Gate!KeptOut, Openers
  <2>3. Gate!Enter
    BY <1>1, <2>1, <2>2 DEF Gate!Enter, Command, Inside
  <2> QED
    BY <2>3 DEF Gate!GateNext
<1>4. CASE GoesAway(o)
  <2>1. Inside' = Inside \ {o} /\ since' = since
    BY <1>4 DEF GoesAway, Inside, leaseVars
  <2>2. CASE o \in Inside
    <3>1. Gate!Leave
      BY <1>1, <2>1, <2>2 DEF Gate!Leave, Command, Inside
    <3> QED
      BY <3>1 DEF Gate!GateNext
  <2>3. CASE o \notin Inside
    <3>1. Inside' = Inside
      BY <2>1, <2>3
    <3> QED
      BY <1>1, <2>1, <3>1, GateStutters
  <2> QED
    BY <2>2, <2>3
<1> QED
  BY <1>2, <1>3, <1>4 DEF Opened

\* Time passes, and the kernel takes the lease down when it is over.
LEMMA TickStep ==
  ASSUME LeaseInv, Tick
  PROVE  Gate!GateNext
<1> USE LeaseAssumption DEF LeaseInv, TypeOK, FlagsOK, PlaceOK, KernelOK, No, Timers
<1>1. Command' = Command /\ Inside' = Inside
  BY DEF Tick, Command, Inside, openVars
<1>2. since' \in {since, since + 1}
  BY DEF Tick
<1>3. CASE unlock = 1
  <2>1. lease' = "none" /\ lease # "none"
    BY <1>3 DEF Tick, NoLease, LeaseRight
  <2>2. since' >= BreakTime
    BY <1>3 DEF Tick, LeaseRight
  <2> QED
    BY <1>1, <1>2, <2>1, <2>2
       DEF Gate!GateNext, Gate!Pass, Gate!Lower, Command, Inside
<1>4. CASE unlock # 1 /\ downgrade = 1
  <2>1. lease' = "ro" /\ lease = "rw"
    BY <1>4 DEF Tick, LeaseRight
  <2>2. since' >= BreakTime
    BY <1>4 DEF Tick, LeaseRight
  <2> QED
    BY <1>1, <1>2, <2>1, <2>2
       DEF Gate!GateNext, Gate!Pass, Gate!Lower, Command, Inside
<1>5. CASE unlock # 1 /\ downgrade # 1
  <2>1. lease' = lease
    BY <1>5 DEF Tick
  <2> QED
    BY <1>1, <1>2, <2>1 DEF Gate!GateNext, Gate!Pass, Command, Inside
<1> QED
  BY <1>3, <1>4, <1>5

\* lease.c and the kernel implement the gate (lease.c:23-24): openers in the
\* way of the lease wait for the command, which the first of them starts, or
\* until the kernel's patience is over.
THEOREM DelaysOpensHolds == Spec => DelaysOpens
<1>1. Init => Gate!GateInit
  <2> SUFFICES ASSUME Init PROVE Gate!GateInit
    OBVIOUS
  <2>1. lease = "none" /\ since = -1 /\ Command = "none" /\ Inside = {}
    BY DEF Init, No, Command, Inside
  <2> QED
    BY <2>1 DEF Gate!GateInit, Gate!Silent, Command, Inside
<1>2. LeaseInv /\ [Next]_vars => [Gate!GateNext]_(Gate!gateVars)
  <2> SUFFICES ASSUME LeaseInv, [Next]_vars
               PROVE  [Gate!GateNext]_(Gate!gateVars)
    OBVIOUS
  <2>1. CASE UNCHANGED vars
    <3>1. lease' = lease /\ Command' = Command /\ since' = since /\ Inside' = Inside
      BY <2>1 DEF vars, leaseVars, openVars, Command, Inside
    <3> QED
      BY <3>1, GateStutters
  <2> QED
    BY <2>1, QuietSteps, PlaceSteps, CommandSteps, OpenerSteps, TickStep
       DEF Next, Tool
<1> QED
  BY <1>1, <1>2, LeaseInvariant, PTL DEF Spec, DelaysOpens, Gate!GateSpec
==============================================================================
