------------------------------- MODULE FsTest --------------------------------
(***************************************************************************)
(* fstest.c: write random blocks into a file on the file system under test *)
(* and keep XOR sums of what the file should hold; at the end read it all  *)
(* back and expect the sums to vanish.                                     *)
(*                                                                         *)
(* The program is sequential.  What runs beside it is the file system,     *)
(* which answers a pread or pwrite with fewer bytes than asked for, with   *)
(* none or with an error, and which may flip a stored byte at any moment;  *)
(* and the user, whose SIGINT arrives between any two steps.  EINTR and    *)
(* EAGAIN make safe_fileop repeat the same call: they are stuttering       *)
(* steps.  Progress output and fsync change no state the program reads     *)
(* again and are left out.                                                 *)
(***************************************************************************)
EXTENDS XorHash

CONSTANTS
  Size,           \* params.size
  MaxBlock,       \* params.max_blocksize
  MaxChain,       \* params.max_chainlen
  NumIterations,  \* params.num_iterations
  InitialSizes,   \* lengths the file may have before the run
  MaxFlips        \* bound on the bytes the file system corrupts

\* cleanup reads blocks at 0, MaxBlock, ... while the offset is <= lim.
Coverage(lim) == MaxBlock * (lim \div MaxBlock + 1)

\* The positions fstest ever touches; bytes beyond them do not matter.
Pos == 0..(Coverage(Size) - 1)
Idx == 0..(MaxBlock - 1)

ASSUME FsTestAssumption ==
  /\ Size \in Nat \ {0}
  /\ MaxBlock \in Nat \ {0}
  /\ MaxChain \in Nat \ {0}
  /\ NumIterations \in Nat
  /\ InitialSizes \subseteq 0..Coverage(Size)
  /\ MaxFlips \in Nat

VARIABLES
  disk,         \* what the file system holds, {} beyond the end of file
  fsize,        \* length of the file
  pc,           \* where the program is
  mode,         \* "preread" and "clean": cleanup; "chain": main's iterations
  limit,        \* size in cleanup
  pos, len,     \* the block insert_block works on; off or offset outside it
  done,         \* bytes handled by the current loop of insert_block
  buf,          \* buf1: the bytes read
  newdata,      \* buf2: the bytes to write
  reps,         \* repetitions_count in insert_chain
  iter,         \* i in main
  xors,         \* state.xors
  interrupted,  \* number of SIGINTs handled
  flips,        \* history: bytes corrupted by the file system
  failed,       \* history: a call of the program has failed
  reg           \* history: per position, XOR of all bytes given to update_xor

fileVars == <<disk, fsize>>
blockVars == <<pos, len, done, buf, newdata>>
loopVars == <<mode, limit, reps, iter>>
hashVars == <<xors, reg>>
envVars == <<interrupted, flips, failed>>
vars == <<fileVars, pc, blockVars, loopVars, hashVars, envVars>>

Finished == {"ok", "fail", "error", "killed"}
InBlockPc == {"read", "xorout", "write", "xorin"}
ZeroBlock == [i \in Idx |-> {}]

TypeOK ==
  /\ disk \in [Pos -> Byte] /\ fsize \in 0..Coverage(Size)
  /\ pc \in {"start", "cleanup", "iterate", "chain"} \cup InBlockPc \cup Finished
  /\ mode \in {"preread", "chain", "clean"}
  /\ limit \in 0..Size
  /\ pos \in 0..Coverage(Size) /\ len \in 0..MaxBlock /\ done \in 0..len
  /\ buf \in [Idx -> Byte] /\ newdata \in [Idx -> Byte]
  /\ reps \in 0..MaxChain /\ iter \in 0..NumIterations
  /\ xors \in [Sums -> Byte] /\ reg \in [Pos -> Byte]
  /\ interrupted \in 0..2 /\ flips \in 0..MaxFlips /\ failed \in BOOLEAN

Init ==
  /\ fsize \in InitialSizes
  /\ disk \in [Pos -> Byte] /\ \A p \in Pos : p >= fsize => disk[p] = {}
  /\ pc = "start" /\ mode = "preread" /\ limit = 0
  /\ pos = 0 /\ len = 0 /\ done = 0 /\ buf = ZeroBlock /\ newdata = ZeroBlock
  /\ reps = 0 /\ iter = 0
  /\ xors = ZeroSums /\ reg = [p \in Pos |-> {}]
  /\ interrupted = 0 /\ flips = 0 /\ failed = FALSE

------------------------------------------------------------------------------
(* safe_fileop(pread, ...): loop until len bytes are read.                  *)

ReadChunk ==
  /\ pc = "read"
  /\ \E n \in 1..(len - done) :
       /\ pos + done + n <= fsize
       /\ buf' = [i \in Idx |-> IF i \in done..(done + n - 1)
                                THEN disk[pos + i] ELSE buf[i]]
       /\ done' = done + n
  /\ UNCHANGED <<fileVars, pc, pos, len, newdata, loopVars, hashVars, envVars>>

\* Faulty variant: the end of file leaves old bytes in the buffer.
ReadEofKeepsBuffer ==
  /\ pc = "read" /\ done < len /\ pos + done >= fsize
  /\ done' = len
  /\ UNCHANGED <<fileVars, pc, pos, len, buf, newdata, loopVars, hashVars,
                 envVars>>

\* pread returns 0 at the end of file: the rest of the buffer is zeroed.
ReadEof ==
  /\ pc = "read" /\ done < len /\ pos + done >= fsize
  /\ buf' = [i \in Idx |-> IF i \in done..(len - 1) THEN {} ELSE buf[i]]
  /\ done' = len
  /\ UNCHANGED <<fileVars, pc, pos, len, newdata, loopVars, hashVars, envVars>>

ReadDone ==
  /\ pc = "read" /\ done = len
  /\ pc' = "xorout" /\ done' = 0
  /\ UNCHANGED <<fileVars, pos, len, buf, newdata, loopVars, hashVars, envVars>>

\* An error ends the program, except that main ignores the result of the
\* first cleanup and goes on to the iterations.
ReadFails ==
  /\ pc = "read" /\ done < len
  /\ failed' = TRUE
  /\ IF mode = "preread" THEN pc' = "iterate" /\ mode' = "chain"
                         ELSE pc' = "error" /\ UNCHANGED mode
  /\ UNCHANGED <<fileVars, blockVars, limit, reps, iter, hashVars,
                 interrupted, flips>>

(* safe_fileop(pwrite, ...).                                                *)

WriteChunk ==
  /\ pc = "write"
  /\ \E n \in 1..(len - done) :
       /\ disk' = [p \in Pos |-> IF p \in (pos + done)..(pos + done + n - 1)
                                 THEN newdata[p - pos] ELSE disk[p]]
       /\ fsize' = IF pos + done + n > fsize THEN pos + done + n ELSE fsize
       /\ done' = done + n
  /\ UNCHANGED <<pc, pos, len, buf, newdata, loopVars, hashVars, envVars>>

\* pwrite returns 0: safe_fileop treats it like an end of file, zeroes the
\* rest of the data to write and reports success.
WriteNothing ==
  /\ pc = "write" /\ done < len
  /\ newdata' = [i \in Idx |-> IF i \in done..(len - 1) THEN {} ELSE newdata[i]]
  /\ done' = len
  /\ failed' = TRUE
  /\ UNCHANGED <<fileVars, pc, pos, len, buf, loopVars, hashVars,
                 interrupted, flips>>

WriteDone ==
  /\ pc = "write" /\ done = len
  /\ pc' = "xorin" /\ done' = 0
  /\ UNCHANGED <<fileVars, pos, len, buf, newdata, loopVars, hashVars, envVars>>

WriteFails ==
  /\ pc = "write" /\ done < len
  /\ failed' = TRUE /\ pc' = "error"
  /\ UNCHANGED <<fileVars, blockVars, loopVars, hashVars, interrupted, flips>>

------------------------------------------------------------------------------
(* insert_block: the two loops over update_xor.                             *)

\* Faulty variant: update_xor is told the position of the block, not pos+i.
RegisterAtBlock(v) ==
  /\ xors' = UpdateXor(xors, v, pos)
  /\ reg' = [reg EXCEPT ![pos + done] = Xor(@, v)]
  /\ done' = done + 1
  /\ UNCHANGED <<fileVars, pc, pos, len, buf, newdata, loopVars, envVars>>

Register(v) ==
  /\ xors' = UpdateXor(xors, v, pos + done)
  /\ reg' = [reg EXCEPT ![pos + done] = Xor(@, v)]
  /\ done' = done + 1
  /\ UNCHANGED <<fileVars, pc, pos, len, buf, newdata, loopVars, envVars>>

XorOut == pc = "xorout" /\ done < len /\ Register(buf[done])
\* Faulty variant: the second loop of insert_block registers the old bytes.
XorInOldBytes == pc = "xorin" /\ done < len /\ Register(buf[done])

XorIn  == pc = "xorin" /\ done < len /\ Register(newdata[done])

\* Mode 1 ("just read") returns to cleanup here, the others go on to write.
XorOutDone ==
  /\ pc = "xorout" /\ done = len /\ done' = 0
  /\ IF mode = "chain" THEN pc' = "write" /\ UNCHANGED pos
                       ELSE pc' = "cleanup" /\ pos' = pos + len
  /\ UNCHANGED <<fileVars, len, buf, newdata, loopVars, hashVars, envVars>>

\* Faulty variant: the chain does not count its blocks.
XorInDoneUncounted ==
  /\ pc = "xorin" /\ done = len
  /\ pc' = "chain" /\ pos' = pos + len /\ done' = 0
  /\ UNCHANGED <<fileVars, len, buf, newdata, mode, limit, reps, iter,
                 hashVars, envVars>>

\* insert_block returns to insert_chain, which advances offset.
XorInDone ==
  /\ pc = "xorin" /\ done = len
  /\ pc' = "chain" /\ pos' = pos + len /\ reps' = reps - 1 /\ done' = 0
  /\ UNCHANGED <<fileVars, len, buf, newdata, mode, limit, iter, hashVars,
                 envVars>>

------------------------------------------------------------------------------
(* cleanup, called with mode 1 before and mode 0 after the iterations.      *)

EnterCleanup(m, lim) ==
  /\ mode' = m /\ limit' = lim /\ pc' = "cleanup"
  /\ pos' = 0 /\ len' = 0 /\ done' = 0 /\ newdata' = ZeroBlock
  /\ UNCHANGED <<fileVars, buf, reps, iter, hashVars, envVars>>

BeginPreread ==
  /\ pc = "start"
  /\ EnterCleanup("preread",
                  IF Size < fsize + MaxBlock THEN Size ELSE fsize + MaxBlock)

CleanupBlock ==
  /\ pc = "cleanup" /\ pos <= limit
  /\ pc' = "read" /\ len' = MaxBlock /\ done' = 0
  /\ UNCHANGED <<fileVars, pos, buf, newdata, loopVars, hashVars, envVars>>

PrereadDone ==
  /\ pc = "cleanup" /\ mode = "preread" /\ pos > limit
  /\ pc' = "iterate" /\ mode' = "chain"
  /\ UNCHANGED <<fileVars, blockVars, limit, reps, iter, hashVars, envVars>>

\* The end of main: any sum that is not zero is a failure.
Verdict ==
  /\ pc = "cleanup" /\ mode = "clean" /\ pos > limit
  /\ pc' = IF \E k \in Sums : xors[k] # {} THEN "fail" ELSE "ok"
  /\ UNCHANGED <<fileVars, blockVars, loopVars, hashVars, envVars>>

------------------------------------------------------------------------------
(* main's iterations and insert_chain.                                      *)

BeginChain ==
  /\ pc = "iterate" /\ iter < NumIterations /\ interrupted = 0
  /\ \E o \in 0..(Size - 1), l \in 0..(MaxBlock - 1), r \in 1..MaxChain :
       /\ pos' = o /\ len' = l /\ reps' = r
       /\ newdata' \in {d \in [Idx -> Byte] :
                          \A i \in Idx : i >= l => d[i] = newdata[i]}
  /\ pc' = "chain" /\ done' = 0
  /\ UNCHANGED <<fileVars, buf, mode, limit, iter, hashVars, envVars>>

ChainBlock ==
  /\ pc = "chain" /\ reps > 0
  /\ IF pos + len > Size THEN pos' = 0 /\ reps' = 1 ELSE UNCHANGED <<pos, reps>>
  /\ pc' = "read" /\ done' = 0
  /\ UNCHANGED <<fileVars, len, buf, newdata, mode, limit, iter, hashVars,
                 envVars>>

ChainDone ==
  /\ pc = "chain" /\ reps = 0
  /\ pc' = "iterate" /\ iter' = iter + 1
  /\ UNCHANGED <<fileVars, blockVars, mode, limit, reps, hashVars, envVars>>

\* The random source cannot be read, for a chain or for the fsync decision.
RandomFails ==
  /\ \/ pc = "iterate" /\ iter < NumIterations /\ interrupted = 0
     \/ pc = "chain" /\ reps > 0
  /\ pc' = "error" /\ failed' = TRUE
  /\ UNCHANGED <<fileVars, blockVars, loopVars, hashVars, interrupted, flips>>

EndIterations ==
  /\ pc = "iterate" /\ (iter = NumIterations \/ interrupted > 0)
  /\ EnterCleanup("clean", Size)

------------------------------------------------------------------------------
(* The user and the file system.                                            *)

\* int_handler: the first SIGINT ends the iterations, the second the program.
Interrupt ==
  /\ pc \notin Finished
  /\ interrupted' = interrupted + 1
  /\ pc' = IF interrupted' > 1 THEN "killed" ELSE pc
  /\ UNCHANGED <<fileVars, blockVars, loopVars, hashVars, flips, failed>>

\* The file system corrupts a byte it stores.
Flip ==
  /\ pc \notin Finished /\ flips < MaxFlips
  /\ \E p \in Pos, d \in Byte \ {{}} :
       p < fsize /\ disk' = [disk EXCEPT ![p] = Xor(@, d)]
  /\ flips' = flips + 1
  /\ UNCHANGED <<fsize, pc, blockVars, loopVars, hashVars, interrupted, failed>>

Program ==
  \/ ReadChunk \/ ReadEof \/ ReadDone \/ ReadFails
  \/ WriteChunk \/ WriteNothing \/ WriteDone \/ WriteFails
  \/ XorOut \/ XorIn \/ XorOutDone \/ XorInDone
  \/ BeginPreread \/ CleanupBlock \/ PrereadDone \/ Verdict
  \/ BeginChain \/ ChainBlock \/ ChainDone \/ RandomFails \/ EndIterations

Next == Program \/ Interrupt \/ Flip

Spec == Init /\ [][Next]_vars
FairSpec == Spec /\ WF_vars(Program)

------------------------------------------------------------------------------
(***************************************************************************)
(* What the rest of the run will still give to update_xor at position p if *)
(* the file system keeps what it holds.  Sampled is the part of the block  *)
(* the current loop has handled.                                           *)
(***************************************************************************)
InBlock(p) == pc \in InBlockPc /\ p \in pos..(pos + len - 1)
Sampled(p) == p < pos + done

PendingPreread(p) ==
  IF p < pos \/ (InBlock(p) /\ pc = "xorout" /\ Sampled(p)) THEN disk[p]
  ELSE IF InBlock(p) /\ (pc = "xorout" \/ Sampled(p))
       THEN Xor(disk[p], buf[p - pos]) ELSE {}

PendingChain(p) ==
  IF ~InBlock(p) THEN disk[p]
  ELSE CASE pc = "read"   -> IF Sampled(p) THEN buf[p - pos] ELSE disk[p]
         [] pc = "xorout" -> IF Sampled(p) THEN {} ELSE buf[p - pos]
         [] pc = "write"  -> IF Sampled(p) THEN Xor(disk[p], newdata[p - pos])
                             ELSE {}
         [] OTHER         -> IF Sampled(p) THEN disk[p]
                             ELSE Xor(disk[p], newdata[p - pos])

PendingClean(p) ==
  IF p < pos \/ (InBlock(p) /\ pc = "xorout" /\ Sampled(p)) THEN {}
  ELSE IF InBlock(p) /\ (pc = "xorout" \/ Sampled(p))
       THEN buf[p - pos] ELSE disk[p]

Pending(p) ==
  CASE mode = "preread" -> PendingPreread(p)
    [] mode = "chain"   -> PendingChain(p)
    [] OTHER            -> PendingClean(p)

\* What will be left of position p in the sums when the run ends.
Residue(p) == Xor(reg[p], Pending(p))

\* Comment "Stores XOR checksums for the whole file" (fstest.c:53): whenever
\* main is between two chains, the sums are those of the bytes on disk,
\* however the calls before were split by short reads and writes.
SumsMatchFile ==
  pc = "iterate" /\ flips = 0 /\ ~failed => xors = HashOf(disk)

\* Comment "If it will not be zero in the end, something has failed"
\* (fstest.c:255): a correct file system is never reported as failing,
\* whatever was in the file before and wherever a SIGINT struck.
NoFalseAlarm == pc = "fail" => flips > 0 \/ failed

\* A single corrupted byte that was not overwritten before it was read again
\* always gives the verdict "fail": "OK" means nothing of it was left.
SingleFlipDetected ==
  pc = "ok" /\ ~failed /\ flips <= 1 => \A p \in Pos : reg[p] = {}

\* The nine sums never drift from the bytes given to update_xor: every sum is
\* the parity, over its positions, of what was registered there.
SumsMatchRegister == xors = HashOf(reg)

\* Only a fault changes what will be left in the sums: every step of the
\* program, and a signal that does not end it, leaves the residue of each
\* position alone.
ResidueConserved ==
  [][flips' = flips /\ ~failed' /\ pc' # "killed"
       => \A p \in Pos : Residue(p)' = Residue(p)]_vars

\* Every run ends, also after a SIGINT, when reads and writes make progress.
Terminates == <>(pc \in Finished)

(* The calls that are left: of a block, of a chain and of a cleanup at most,  *)
(* of the block and of the cleanup at hand, and of the whole run.             *)
PerBlock == 4 * (MaxBlock + 1) + 1
PerChain == MaxChain * PerBlock + 2
PerCleanup == Coverage(Size) * PerBlock + 2

LeftInBlock ==
  len - done + 1
    + (MaxBlock + 1) * (CASE pc = "read" -> 3 [] pc = "xorout" -> 2
                          [] pc = "write" -> 1 [] OTHER -> 0)

LeftInCleanup ==
  IF pc = "cleanup" THEN (Coverage(Size) - pos) * PerBlock + 1
  ELSE (Coverage(Size) - pos - MaxBlock) * PerBlock + LeftInBlock + 1

LeftInChain ==
  CASE pc = "iterate" -> PerChain
    [] pc = "chain" -> reps * PerBlock + 1
    [] OTHER -> (reps - 1) * PerBlock + LeftInBlock + 1

LeftOfRun ==
  CASE pc = "start" -> 1 + PerCleanup + NumIterations * PerChain + PerCleanup
    [] pc # "start" /\ mode = "preread" ->
         LeftInCleanup + NumIterations * PerChain + PerCleanup
    [] mode = "chain" ->
         LeftInChain + (NumIterations - iter - 1) * PerChain + PerCleanup
    [] mode = "clean" -> LeftInCleanup

Left == IF pc \in Finished THEN 0
        ELSE LeftOfRun + (MaxFlips - flips) + (2 - interrupted)

\* Every call brings the end of the run nearer, however few bytes it handled
\* (the loops of safe_fileop, insert_block, insert_chain, cleanup and main).
EveryCallCounts == [][Left' \in Nat /\ Left' < Left]_vars

------------------------------------------------------------------------------
(***************************************************************************)
(* The inductive invariant behind the safety properties: where the loops   *)
(* are, that nothing lies beyond the end of the file, that the sums are    *)
(* those of the registered bytes, and how much residue there can be.       *)
(***************************************************************************)
PlaceOK ==
  /\ pc \in InBlockPc => pos + len <= Coverage(Size)
  /\ mode # "chain" => pos % MaxBlock = 0
  /\ pc = "start" => mode = "preread" /\ pos = 0
  /\ pc \in {"iterate", "chain", "write", "xorin"} => mode = "chain"
  /\ pc = "cleanup" => mode # "chain"
  /\ pc \in {"read", "xorout"} /\ mode # "chain" => len = MaxBlock
  /\ pc \in {"ok", "fail"} => mode = "clean" /\ pos > limit
  /\ mode = "clean" => limit = Size
  /\ mode = "preread" /\ pc \in {"cleanup", "read", "xorout"} =>
       limit = Size \/ limit = fsize + MaxBlock
  /\ mode = "chain" /\ pc \in InBlockPc => reps > 0 /\ iter < NumIterations
  /\ pc = "chain" => iter < NumIterations
  /\ pc # "killed" => interrupted < 2

NothingBeyondEof == \A p \in Pos : p >= fsize => disk[p] = {}

ResidueBound ==
  ~failed /\ pc # "killed" =>
    /\ flips = 0 => \A p \in Pos : Residue(p) = {}
    /\ flips = 1 => \E q \in Pos : \A p \in Pos \ {q} : Residue(p) = {}

IInv ==
  /\ TypeOK
  /\ PlaceOK
  /\ NothingBeyondEof
  /\ SumsMatchRegister
  /\ ResidueBound
  /\ pc = "error" => failed
  /\ pc = "fail" => xors # ZeroSums
  /\ pc = "ok" => xors = ZeroSums
==============================================================================
