---------------------------- MODULE FsTestProofs -----------------------------
(***************************************************************************)
(* What the sums of fstest.c are worth, and that its loops come to an end, *)
(* for every file size, block size, chain length and number of iterations. *)
(***************************************************************************)
EXTENDS FsTest, FiniteSetTheorems, TLAPS

------------------------------------------------------------------------------
(* The hash.                                                                *)

\* XOR of bytes, as update_xor uses it (fstest.c:66): a byte given twice
\* cancels and the order does not matter.
LEMMA XorLaws ==
  ASSUME NEW a \in Byte, NEW b \in Byte, NEW c \in Byte
  PROVE  /\ Xor(a, b) \in Byte
         /\ Xor(a, {}) = a
         /\ Xor({}, a) = a
         /\ Xor(a, a) = {}
         /\ Xor(a, Xor(b, c)) = Xor(Xor(a, c), b)
         /\ Xor(a, b) = {} => a = b
  BY DEF Byte, Xor

LEMMA EmptyByte == {} \in Byte
  BY DEF Byte

\* Adding or removing one element changes the parity of a finite set.
LEMMA ToggleParity ==
  ASSUME NEW S, NEW x, IsFiniteSet(S)
  PROVE  /\ x \notin S => (Cardinality(S \cup {x}) % 2 = 1
                             <=> ~(Cardinality(S) % 2 = 1))
         /\ x \in S => (Cardinality(S \ {x}) % 2 = 1
                             <=> ~(Cardinality(S) % 2 = 1))
  <1>1. Cardinality(S) \in Nat
    BY FS_CardinalityType
  <1>2. x \notin S => Cardinality(S \cup {x}) = Cardinality(S) + 1
    BY FS_AddElement
  <1>3. x \in S => Cardinality(S \ {x}) = Cardinality(S) - 1
    BY FS_RemoveElement
  <1>4. \A n \in Int : (n + 1) % 2 = 1 <=> ~(n % 2 = 1)
    OBVIOUS
  <1>5. \A n \in Int : (n - 1) % 2 = 1 <=> ~(n % 2 = 1)
    OBVIOUS
  <1>. QED BY <1>1, <1>2, <1>3, <1>4, <1>5

\* update_xor (fstest.c:61) keeps the sums in step with the bytes they sum:
\* XORing v at position p updates every parity the reference definition counts.
LEMMA HashStep ==
  ASSUME NEW D, IsFiniteSet(D), NEW f \in [D -> Byte],
         NEW p \in D, NEW v \in Byte
  PROVE  HashOf([f EXCEPT ![p] = Xor(@, v)]) = UpdateXor(HashOf(f), v, p)
  <1>. DEFINE g == [f EXCEPT ![p] = Xor(@, v)]
  <1>1. g \in [D -> Byte] /\ \A q \in D : g[q] = IF q = p THEN Xor(f[p], v)
                                                         ELSE f[q]
    BY XorLaws
  <1>2. ASSUME NEW k \in Sums, NEW b \in ByteBits
        PROVE  Cardinality(Ones(g, k, b)) % 2 = 1
                 <=> IF Covers(k, p) /\ b \in v
                     THEN ~(Cardinality(Ones(f, k, b)) % 2 = 1)
                     ELSE Cardinality(Ones(f, k, b)) % 2 = 1
    <2>1. Ones(f, k, b) = {q \in D : Covers(k, q) /\ b \in f[q]}
      BY DEF Ones
    <2>2. Ones(g, k, b) = {q \in D : Covers(k, q) /\ b \in g[q]}
      BY <1>1 DEF Ones
    <2>3. IsFiniteSet(Ones(f, k, b))
      BY <2>1, FS_Subset
    <2>4. b \in Xor(f[p], v) <=> ~(b \in f[p] <=> b \in v)
      BY DEF Xor
    <2>5. CASE ~(Covers(k, p) /\ b \in v)
      <3>1. Ones(g, k, b) = Ones(f, k, b)
        BY <1>1, <2>1, <2>2, <2>4, <2>5
      <3>. QED BY <2>5, <3>1
    <2>6. CASE Covers(k, p) /\ b \in v /\ b \in f[p]
      <3>1. Ones(g, k, b) = Ones(f, k, b) \ {p} /\ p \in Ones(f, k, b)
        <4>1. \A q \in D : q # p => (q \in Ones(g, k, b) <=> q \in Ones(f, k, b))
          BY <1>1, <2>1, <2>2
        <4>2. p \notin Ones(g, k, b) /\ p \in Ones(f, k, b)
          BY <1>1, <2>1, <2>2, <2>4, <2>6
        <4>3. Ones(g, k, b) \subseteq D /\ Ones(f, k, b) \subseteq D
          BY <2>1, <2>2
        <4>. QED BY <4>1, <4>2, <4>3
      <3>2. Cardinality(Ones(f, k, b) \ {p}) % 2 = 1
              <=> ~(Cardinality(Ones(f, k, b)) % 2 = 1)
        BY <2>3, <3>1, ToggleParity
      <3>. QED BY <2>6, <3>1, <3>2
    <2>7. CASE Covers(k, p) /\ b \in v /\ b \notin f[p]
      <3>1. Ones(g, k, b) = Ones(f, k, b) \cup {p} /\ p \notin Ones(f, k, b)
        <4>1. \A q \in D : q # p => (q \in Ones(g, k, b) <=> q \in Ones(f, k, b))
          BY <1>1, <2>1, <2>2
        <4>2. p \in Ones(g, k, b) /\ p \notin Ones(f, k, b)
          BY <1>1, <2>1, <2>2, <2>4, <2>7
        <4>3. Ones(g, k, b) \subseteq D /\ Ones(f, k, b) \subseteq D
          BY <2>1, <2>2
        <4>. QED BY <4>1, <4>2, <4>3
      <3>2. Cardinality(Ones(f, k, b) \cup {p}) % 2 = 1
              <=> ~(Cardinality(Ones(f, k, b)) % 2 = 1)
        BY <2>3, <3>1, ToggleParity
      <3>. QED BY <2>7, <3>1, <3>2
    <2>. QED BY <2>5, <2>6, <2>7
  <1>3. ASSUME NEW k \in Sums
        PROVE  HashOf(g)[k] = UpdateXor(HashOf(f), v, p)[k]
    <2>1. HashOf(g)[k] = {b \in ByteBits : Cardinality(Ones(g, k, b)) % 2 = 1}
      BY DEF HashOf
    <2>2. HashOf(f)[k] = {b \in ByteBits : Cardinality(Ones(f, k, b)) % 2 = 1}
      BY DEF HashOf
    <2>3. UpdateXor(HashOf(f), v, p)[k]
             = IF Covers(k, p) THEN Xor(HashOf(f)[k], v) ELSE HashOf(f)[k]
      BY DEF UpdateXor
    <2>4. v \subseteq ByteBits
      BY DEF Byte
    <2>. QED BY <1>2, <2>1, <2>2, <2>3, <2>4 DEF Xor
  <1>4. HashOf(g) = [k \in Sums |-> HashOf(g)[k]]
    BY DEF HashOf
  <1>5. UpdateXor(HashOf(f), v, p)
          = [k \in Sums |-> UpdateXor(HashOf(f), v, p)[k]]
    BY DEF UpdateXor
  <1>6. HashOf(g) = UpdateXor(HashOf(f), v, p)
    BY <1>3, <1>4, <1>5
  <1>. QED BY <1>6

\* The sums main starts with (fstest.c:342) are those of a blank file.
LEMMA HashOfBlank ==
  ASSUME NEW D, NEW f \in [D -> Byte], \A p \in D : f[p] = {}
  PROVE  HashOf(f) = ZeroSums
  <1>1. ASSUME NEW k \in Sums, NEW b \in ByteBits
        PROVE  Cardinality(Ones(f, k, b)) = 0
    <2>1. Ones(f, k, b) = {}
      BY DEF Ones
    <2>. QED BY <2>1, FS_EmptySet
  <1>2. ASSUME NEW k \in Sums
        PROVE  {b \in ByteBits : Cardinality(Ones(f, k, b)) % 2 = 1} = {}
    BY <1>1
  <1>. QED BY <1>2 DEF HashOf, ZeroSums

\* One byte that is left over shows in the sum over all positions.
LEMMA SingleByteShows ==
  ASSUME NEW D, NEW f \in [D -> Byte], NEW q \in D,
         \A p \in D \ {q} : f[p] = {}, HashOf(f) = ZeroSums
  PROVE  f[q] = {}
  <1>. DEFINE k == PosBits
  <1>1. k \in Sums /\ \A p : Covers(k, p)
    BY XorHashAssumption DEF Sums, Covers
  <1>2. ASSUME NEW b \in f[q]
        PROVE  FALSE
    <2>1. b \in ByteBits
      BY DEF Byte
    <2>2. Ones(f, k, b) = {q}
      BY <1>1, <1>2 DEF Ones
    <2>3. Cardinality(Ones(f, k, b)) = 1
      BY <2>2, FS_Singleton
    <2>4. HashOf(f)[k] = {c \in ByteBits : Cardinality(Ones(f, k, c)) % 2 = 1}
      BY <1>1 DEF HashOf
    <2>5. HashOf(f)[k] = {}
      BY <1>1 DEF ZeroSums
    <2>. QED BY <2>1, <2>3, <2>4, <2>5
  <1>. QED BY <1>2

------------------------------------------------------------------------------
(* Where the blocks lie.                                                    *)

\* cleanup's loop (fstest.c:280) reads whole blocks: the block that begins at
\* or before params.size ends inside the coverage, and the offset that ends
\* the loop is behind all of it.
LEMMA CoverageBounds ==
  /\ Coverage(Size) \in Nat /\ Size < Coverage(Size)
  /\ MaxBlock <= Coverage(Size)
  /\ \A q \in Nat : MaxBlock * q <= Size
                    => MaxBlock * q + MaxBlock <= Coverage(Size)
  /\ \A q \in Nat : MaxBlock * q > Size => MaxBlock * q >= Coverage(Size)
  <1>. DEFINE d == Size \div MaxBlock
              r == Size % MaxBlock
  <1>1. d \in Nat /\ r \in 0..(MaxBlock - 1) /\ Size = MaxBlock * d + r
    BY FsTestAssumption
  <1>2. Coverage(Size) = MaxBlock * d + MaxBlock
    BY <1>1, FsTestAssumption DEF Coverage
  <1>3. MaxBlock * d \in Nat
    BY <1>1, FsTestAssumption
  <1>4. ASSUME NEW q \in Nat, q <= d
        PROVE  MaxBlock * q <= MaxBlock * d
    BY <1>1, <1>4, FsTestAssumption
  <1>5. ASSUME NEW q \in Nat, q >= d + 1
        PROVE  MaxBlock * q >= MaxBlock * d + MaxBlock
    BY <1>1, <1>5, FsTestAssumption
  <1>6. \A q \in Nat : MaxBlock * q \in Nat
    BY FsTestAssumption
  <1>. HIDE DEF d, r
  <1>7. ASSUME NEW q \in Nat, MaxBlock * q <= Size
        PROVE  MaxBlock * q + MaxBlock <= Coverage(Size)
    <2>1. CASE q <= d
      BY <1>2, <1>3, <1>4, <1>6, <2>1, FsTestAssumption
    <2>2. CASE q >= d + 1
      BY <1>1, <1>2, <1>3, <1>5, <1>6, <1>7, <2>2, FsTestAssumption
    <2>. QED BY <1>1, <2>1, <2>2
  <1>8. ASSUME NEW q \in Nat, MaxBlock * q > Size
        PROVE  MaxBlock * q >= Coverage(Size)
    <2>1. CASE q <= d
      BY <1>1, <1>3, <1>4, <1>6, <1>8, <2>1, FsTestAssumption
    <2>2. CASE q >= d + 1
      BY <1>2, <1>5, <2>2
    <2>. QED BY <1>1, <2>1, <2>2
  <1>. QED BY <1>1, <1>2, <1>3, <1>7, <1>8, FsTestAssumption

\* Block boundaries: cleanup only ever adds MaxBlock to an offset of 0.
LEMMA AlignedBlock ==
  ASSUME NEW x \in Nat, x % MaxBlock = 0
  PROVE  /\ (x + MaxBlock) % MaxBlock = 0
         /\ x <= Size => x + MaxBlock <= Coverage(Size)
         /\ x > Size => x >= Coverage(Size)
  <1>. DEFINE q == x \div MaxBlock
  <1>1. q \in Nat /\ x = MaxBlock * q
    BY FsTestAssumption
  <1>2. (x + MaxBlock) % MaxBlock = 0
    <2>1. x + MaxBlock = MaxBlock * (q + 1)
      BY <1>1, FsTestAssumption
    <2>2. \A n \in Nat : (MaxBlock * n) % MaxBlock = 0
      BY FsTestAssumption
    <2>. QED BY <1>1, <2>1, <2>2
  <1>. QED BY <1>1, <1>2, CoverageBounds

------------------------------------------------------------------------------
(* Types and places.                                                        *)

Base == TypeOK /\ PlaceOK /\ NothingBeyondEof

LEMMA BlankBlocks ==
  /\ ZeroSums \in [Sums -> Byte]
  /\ ZeroBlock \in [Idx -> Byte]
  /\ [p \in Pos |-> {}] \in [Pos -> Byte]
  BY EmptyByte DEF ZeroSums, ZeroBlock

LEMMA BaseInit == Init => Base
  <1>. SUFFICES ASSUME Init PROVE Base
    OBVIOUS
  <1>1. TypeOK
    <2>1. disk \in [Pos -> Byte] /\ fsize \in 0..Coverage(Size)
      BY FsTestAssumption DEF Init
    <2>2. xors \in [Sums -> Byte] /\ reg \in [Pos -> Byte]
      BY BlankBlocks DEF Init
    <2>3. buf \in [Idx -> Byte] /\ newdata \in [Idx -> Byte]
      BY BlankBlocks DEF Init
    <2>4. /\ pos \in 0..Coverage(Size) /\ len \in 0..MaxBlock /\ done \in 0..len
          /\ limit \in 0..Size /\ reps \in 0..MaxChain
          /\ iter \in 0..NumIterations
      BY FsTestAssumption, CoverageBounds DEF Init
    <2>5. interrupted \in 0..2 /\ flips \in 0..MaxFlips
      BY FsTestAssumption DEF Init
    <2>6. failed \in BOOLEAN
      BY DEF Init
    <2>. QED BY <2>1, <2>2, <2>3, <2>4, <2>5, <2>6 DEF Init, TypeOK
  <1>2. PlaceOK
    <2>1. 0 % MaxBlock = 0
      BY FsTestAssumption
    <2>. QED BY <2>1 DEF Init, PlaceOK, InBlockPc
  <1>3. NothingBeyondEof
    BY DEF Init, NothingBeyondEof
  <1>. QED BY <1>1, <1>2, <1>3 DEF Base

\* What update_xor returns is again a state of the checker.
LEMMA RegisterType ==
  ASSUME NEW s \in [Sums -> Byte], NEW f \in [Pos -> Byte],
         NEW v \in Byte, NEW p \in Pos
  PROVE  /\ UpdateXor(s, v, p) \in [Sums -> Byte]
         /\ [f EXCEPT ![p] = Xor(@, v)] \in [Pos -> Byte]
  BY XorLaws DEF UpdateXor

LEMMA BaseNext == Base /\ [Next]_vars => Base'
  <1>. SUFFICES ASSUME Base, [Next]_vars PROVE Base'
    OBVIOUS
  <1>. USE FsTestAssumption, CoverageBounds
       DEF Base, TypeOK, PlaceOK, NothingBeyondEof, InBlockPc, Finished,
           fileVars, blockVars, loopVars, hashVars, envVars
  <1>1. CASE ReadChunk
    <2>1. PICK n \in 1..(len - done) :
            /\ pos + done + n <= fsize
            /\ buf' = [i \in Idx |-> IF i \in done..(done + n - 1)
                                     THEN disk[pos + i] ELSE buf[i]]
            /\ done' = done + n
      BY <1>1 DEF ReadChunk
    <2>2. buf' \in [Idx -> Byte]
      <3>1. \A i \in Idx : i \in done..(done + n - 1) => pos + i \in Pos
        BY <2>1 DEF Pos, Idx
      <3>. QED BY <2>1, <3>1
    <2>3. done' \in 0..len
      BY <2>1
    <2>. QED BY <1>1, <2>2, <2>3 DEF ReadChunk
  <1>2. CASE ReadEof
    <2>1. buf' \in [Idx -> Byte]
      BY <1>2, EmptyByte DEF ReadEof
    <2>2. done' \in 0..len
      BY <1>2 DEF ReadEof
    <2>. QED BY <1>2, <2>1, <2>2 DEF ReadEof
  <1>3. CASE ReadDone
    BY <1>3 DEF ReadDone
  <1>4. CASE ReadFails
    BY <1>4 DEF ReadFails
  <1>5. CASE WriteChunk
    <2>1. PICK n \in 1..(len - done) :
            /\ disk' = [p \in Pos |-> IF p \in (pos + done)..(pos + done + n - 1)
                                      THEN newdata[p - pos] ELSE disk[p]]
            /\ fsize' = IF pos + done + n > fsize THEN pos + done + n ELSE fsize
            /\ done' = done + n
      BY <1>5 DEF WriteChunk
    <2>2. disk' \in [Pos -> Byte]
      <3>1. \A p \in Pos : p \in (pos + done)..(pos + done + n - 1)
                             => p - pos \in Idx
        BY <2>1 DEF Pos, Idx
      <3>. QED BY <2>1, <3>1
    <2>3. done' \in 0..len
      BY <2>1
    <2>4. fsize' \in 0..Coverage(Size) /\ fsize' >= fsize
          /\ fsize' >= pos + done + n
      BY <1>5, <2>1 DEF WriteChunk
    <2>5. NothingBeyondEof'
      <3>1. \A p \in Pos : p \in Int
        BY DEF Pos
      <3>. QED BY <2>1, <2>4, <3>1
    <2>. QED BY <1>5, <2>2, <2>3, <2>4, <2>5 DEF WriteChunk
  <1>6. CASE WriteNothing
    <2>1. newdata' \in [Idx -> Byte]
      BY <1>6, EmptyByte DEF WriteNothing
    <2>2. done' \in 0..len
      BY <1>6 DEF WriteNothing
    <2>3. failed' \in BOOLEAN
      BY <1>6 DEF WriteNothing
    <2>. QED BY <1>6, <2>1, <2>2, <2>3 DEF WriteNothing
  <1>7. CASE WriteDone
    BY <1>7 DEF WriteDone
  <1>8. CASE WriteFails
    BY <1>8 DEF WriteFails
  <1>9. CASE XorOut
    <2>1. pos + done \in Pos /\ done \in Idx
      BY <1>9 DEF XorOut, Pos, Idx
    <2>2. xors' \in [Sums -> Byte] /\ reg' \in [Pos -> Byte]
      BY <1>9, <2>1, RegisterType DEF XorOut, Register
    <2>3. done' \in 0..len
      BY <1>9 DEF XorOut, Register
    <2>. QED BY <1>9, <2>2, <2>3 DEF XorOut, Register
  <1>10. CASE XorIn
    <2>1. pos + done \in Pos /\ done \in Idx
      BY <1>10 DEF XorIn, Pos, Idx
    <2>2. xors' \in [Sums -> Byte] /\ reg' \in [Pos -> Byte]
      BY <1>10, <2>1, RegisterType DEF XorIn, Register
    <2>3. done' \in 0..len
      BY <1>10 DEF XorIn, Register
    <2>. QED BY <1>10, <2>2, <2>3 DEF XorIn, Register
  <1>11. CASE XorOutDone
    <2>1. mode # "chain" => (pos + len) % MaxBlock = 0
      BY <1>11, AlignedBlock DEF XorOutDone
    <2>. QED BY <1>11, <2>1 DEF XorOutDone
  <1>12. CASE XorInDone
    BY <1>12 DEF XorInDone
  <1>13. CASE BeginPreread
    <2>1. limit' \in 0..Size /\ (limit' = Size \/ limit' = fsize + MaxBlock)
      BY <1>13 DEF BeginPreread, EnterCleanup
    <2>2. 0 % MaxBlock = 0 /\ newdata' \in [Idx -> Byte]
      BY <1>13, BlankBlocks DEF BeginPreread, EnterCleanup
    <2>. QED BY <1>13, <2>1, <2>2 DEF BeginPreread, EnterCleanup
  <1>14. CASE CleanupBlock
    BY <1>14 DEF CleanupBlock
  <1>15. CASE PrereadDone
    BY <1>15 DEF PrereadDone
  <1>16. CASE Verdict
    BY <1>16 DEF Verdict
  <1>17. CASE BeginChain
    BY <1>17 DEF BeginChain
  <1>18. CASE ChainBlock
    BY <1>18 DEF ChainBlock
  <1>19. CASE ChainDone
    BY <1>19 DEF ChainDone
  <1>20. CASE RandomFails
    BY <1>20 DEF RandomFails
  <1>21. CASE EndIterations
    <2>1. 0 % MaxBlock = 0 /\ newdata' \in [Idx -> Byte]
      BY <1>21, BlankBlocks DEF EndIterations, EnterCleanup
    <2>. QED BY <1>21, <2>1 DEF EndIterations, EnterCleanup
  <1>22. CASE Interrupt
    BY <1>22 DEF Interrupt
  <1>23. CASE Flip
    <2>1. PICK p \in Pos, d \in Byte \ {{}} :
            p < fsize /\ disk' = [disk EXCEPT ![p] = Xor(@, d)]
      BY <1>23 DEF Flip
    <2>2. disk' \in [Pos -> Byte]
      BY <2>1, XorLaws
    <2>3. NothingBeyondEof'
      <3>1. \A x \in Pos \ {p} : disk'[x] = disk[x]
        BY <2>1
      <3>2. fsize' = fsize /\ ~(p >= fsize)
        BY <1>23, <2>1 DEF Flip, Pos
      <3>. QED BY <3>1, <3>2
    <2>4. flips' \in 0..MaxFlips
      BY <1>23 DEF Flip
    <2>. QED BY <1>23, <2>2, <2>3, <2>4 DEF Flip
  <1>24. CASE UNCHANGED vars
    BY <1>24 DEF vars
  <1>. QED BY <1>1, <1>2, <1>3, <1>4, <1>5, <1>6, <1>7, <1>8, <1>9, <1>10, <1>11, <1>12, <1>13, <1>14, <1>15, <1>16, <1>17, <1>18, <1>19, <1>20, <1>21, <1>22, <1>23, <1>24 DEF Next, Program

\* Type correctness: every variable of fstest keeps its type and the blocks
\* of insert_block stay inside the buffers and the positions cleanup covers.
THEOREM TypeCorrect == Spec => []TypeOK
  <1>1. Base => TypeOK
    BY DEF Base
  <1>. QED BY BaseInit, BaseNext, <1>1, PTL DEF Spec

------------------------------------------------------------------------------
(* The sums and the bytes registered.                                       *)

LEMMA PosFinite == IsFiniteSet(Pos)
  <1>1. Coverage(Size) \in Nat
    BY CoverageBounds
  <1>. QED BY <1>1, FS_Interval DEF Pos

LEMMA HashInit == Init => SumsMatchRegister
  <1>. SUFFICES ASSUME Init PROVE SumsMatchRegister
    OBVIOUS
  <1>1. reg \in [Pos -> Byte] /\ \A p \in Pos : reg[p] = {}
    BY BlankBlocks DEF Init
  <1>2. HashOf(reg) = ZeroSums
    BY <1>1, HashOfBlank
  <1>. QED BY <1>2 DEF Init, SumsMatchRegister

LEMMA HashNext ==
  Base /\ SumsMatchRegister /\ [Next]_vars => SumsMatchRegister'
  <1>. SUFFICES ASSUME Base, SumsMatchRegister, [Next]_vars
                PROVE  SumsMatchRegister'
    OBVIOUS
  <1>1. CASE UNCHANGED hashVars
    BY <1>1 DEF hashVars, SumsMatchRegister
  <1>2. ASSUME NEW v \in Byte, Register(v), pos + done \in Pos
        PROVE  SumsMatchRegister'
    <2>1. reg \in [Pos -> Byte]
      BY DEF Base, TypeOK
    <2>2. HashOf([reg EXCEPT ![pos + done] = Xor(@, v)])
            = UpdateXor(HashOf(reg), v, pos + done)
      BY <1>2, <2>1, PosFinite, HashStep
    <2>. QED BY <1>2, <2>2 DEF Register, SumsMatchRegister
  <1>3. CASE XorOut \/ XorIn
    <2>1. pos + done \in Pos /\ done \in Idx
      BY <1>3, FsTestAssumption, CoverageBounds
      DEF XorOut, XorIn, Pos, Idx, Base, TypeOK, PlaceOK, InBlockPc
    <2>2. buf[done] \in Byte /\ newdata[done] \in Byte
      BY <2>1 DEF Base, TypeOK
    <2>. QED BY <1>2, <1>3, <2>1, <2>2 DEF XorOut, XorIn
  <1>4. \/ UNCHANGED hashVars
        \/ XorOut \/ XorIn
    BY DEF Next, Program, vars, hashVars, ReadChunk, ReadEof, ReadDone,
           ReadFails, WriteChunk, WriteNothing, WriteDone, WriteFails,
           XorOutDone, XorInDone, BeginPreread, EnterCleanup, CleanupBlock,
           PrereadDone, Verdict, BeginChain, ChainBlock, ChainDone,
           RandomFails, EndIterations, Interrupt, Flip
  <1>. QED BY <1>1, <1>3, <1>4

------------------------------------------------------------------------------
(* What is left in the sums.                                                *)

\* The heart of the argument: no step of the program, and no signal that lets
\* it go on, changes what will be left of a position in the sums.
LEMMA ResidueStep ==
  ASSUME Base, Base', Program \/ Interrupt, ~failed', pc' # "killed",
         NEW p \in Pos
  PROVE  Residue(p)' = Residue(p)
  <1>. DEFINE Same == reg'[p] = reg[p] /\ Pending(p)' = Pending(p)
  <1>a. /\ p \in Nat /\ pos \in Nat /\ len \in Nat /\ done \in Nat
        /\ done <= len /\ len <= MaxBlock /\ MaxBlock \in Nat
        /\ fsize \in Nat /\ limit \in Nat /\ p < Coverage(Size)
        /\ Coverage(Size) \in Nat
    <2>1. p \in 0..(Coverage(Size) - 1)
      BY DEF Pos
    <2>2. /\ pos \in 0..Coverage(Size) /\ len \in 0..MaxBlock
          /\ done \in 0..len /\ fsize \in 0..Coverage(Size)
          /\ limit \in 0..Size
      BY DEF Base, TypeOK
    <2>3. Coverage(Size) \in Nat
      BY CoverageBounds
    <2>. QED BY <2>1, <2>2, <2>3, FsTestAssumption
  <1>b. mode \in {"preread", "chain", "clean"}
    BY DEF Base, TypeOK
  <1>c. /\ mode = "preread" => Pending(p) = PendingPreread(p)
        /\ mode = "chain" => Pending(p) = PendingChain(p)
        /\ mode = "clean" => Pending(p) = PendingClean(p)
    BY DEF Pending
  <1>d. /\ mode' = "preread" => Pending(p)' = PendingPreread(p)'
        /\ mode' = "chain" => Pending(p)' = PendingChain(p)'
        /\ mode' = "clean" => Pending(p)' = PendingClean(p)'
    BY DEF Pending
  <1>e. /\ Residue(p) = Xor(reg[p], Pending(p))
        /\ Residue(p)' = Xor(reg'[p], Pending(p)')
    BY DEF Residue
  <1>. USE DEF PendingPreread, PendingChain, PendingClean, InBlock,
           Sampled, InBlockPc,
           fileVars, blockVars, loopVars, hashVars, envVars
  <1>1. CASE ReadChunk
    <2>1. PICK n \in 1..(len - done) :
            /\ pos + done + n <= fsize
            /\ buf' = [i \in Idx |-> IF i \in done..(done + n - 1)
                                     THEN disk[pos + i] ELSE buf[i]]
            /\ done' = done + n
      BY <1>1 DEF ReadChunk
    <2>2. ASSUME p \in pos..(pos + len - 1)
          PROVE  buf'[p - pos] = IF p \in (pos + done)..(pos + done + n - 1)
                                 THEN disk[p] ELSE buf[p - pos]
      <3>1. p - pos \in Idx /\ pos + (p - pos) = p
        BY <1>a, <1>c, <1>d, <1>e, <2>2 DEF Idx
      <3>2. p - pos \in done..(done + n - 1)
              <=> p \in (pos + done)..(pos + done + n - 1)
        BY <1>a, <1>c, <1>d, <1>e, <2>1
      <3>. QED BY <2>1, <3>1, <3>2
    <2>5. \A v : Xor(v, v) = {}
      BY DEF Xor
    <2>3. Pending(p)' = Pending(p)
      <3>1. CASE mode = "preread"
        BY <1>1, <1>a, <1>c, <1>d, <1>e, <2>1, <2>2, <2>5, <3>1 DEF ReadChunk
      <3>2. CASE mode = "chain"
        BY <1>1, <1>a, <1>c, <1>d, <1>e, <2>1, <2>2, <3>2 DEF ReadChunk
      <3>3. CASE mode = "clean"
        BY <1>1, <1>a, <1>c, <1>d, <1>e, <2>1, <2>2, <3>3 DEF ReadChunk
      <3>. QED BY <1>b, <3>1, <3>2, <3>3
    <2>4. reg' = reg
      BY <1>1 DEF ReadChunk
    <2>. QED BY <2>3, <2>4, <1>e
  <1>2. CASE ReadEof
    <2>2. ASSUME p \in pos..(pos + len - 1)
          PROVE  buf'[p - pos] = IF p >= pos + done THEN {} ELSE buf[p - pos]
      <3>1. p - pos \in Idx /\ (p - pos \in done..(len - 1) <=> p >= pos + done)
        BY <1>a, <1>c, <1>d, <1>e, <2>2 DEF Idx
      <3>. QED BY <1>2, <3>1 DEF ReadEof
    <2>3. p >= pos + done => disk[p] = {}
      BY <1>2, <1>a, <1>c, <1>d DEF ReadEof, Base, NothingBeyondEof
    <2>4. Xor({}, {}) = {}
      BY DEF Xor
    <2>5. /\ pc = "read" /\ done' = len /\ done < len
          /\ pc' = pc /\ pos' = pos /\ len' = len /\ mode' = mode
          /\ disk' = disk /\ reg' = reg
      BY <1>2 DEF ReadEof
    <2>. DEFINE In == p >= pos /\ p < pos + len
    <2>6. /\ InBlock(p) <=> In
          /\ InBlock(p)' <=> In
          /\ Sampled(p) <=> p < pos + done
          /\ Sampled(p)' <=> p < pos + len
      BY <1>a, <2>5
    <2>7. In /\ ~(p < pos + done) => buf'[p - pos] = {} /\ disk[p] = {}
      BY <1>a, <2>2, <2>3
    <2>8. In /\ p < pos + done => buf'[p - pos] = buf[p - pos]
      BY <1>a, <2>2
    <2>. HIDE DEF InBlock, Sampled
    <2>9. CASE mode = "preread"
      <3>1. PendingPreread(p) =
              IF p < pos THEN disk[p] ELSE
              IF In /\ p < pos + done THEN Xor(disk[p], buf[p - pos]) ELSE {}
        BY <1>a, <2>5, <2>6
      <3>2. PendingPreread(p)' =
              IF p < pos THEN disk[p] ELSE
              IF In THEN Xor(disk[p], buf'[p - pos]) ELSE {}
        BY <1>a, <2>5, <2>6
      <3>3. PendingPreread(p)' = PendingPreread(p)
        BY <2>4, <2>7, <2>8, <3>1, <3>2
      <3>. QED BY <1>c, <1>d, <1>e, <2>5, <2>9, <3>3
    <2>10. CASE mode = "chain"
      <3>1. PendingChain(p)' = PendingChain(p)
        BY <1>a, <2>5, <2>6, <2>7, <2>8
      <3>. QED BY <1>c, <1>d, <1>e, <2>5, <2>10, <3>1
    <2>11. CASE mode = "clean"
      <3>1. PendingClean(p) =
              IF p < pos THEN {} ELSE
              IF In /\ p < pos + done THEN buf[p - pos] ELSE disk[p]
        BY <1>a, <2>5, <2>6
      <3>2. PendingClean(p)' =
              IF p < pos THEN {} ELSE IF In THEN buf'[p - pos] ELSE disk[p]
        BY <1>a, <2>5, <2>6
      <3>3. PendingClean(p)' = PendingClean(p)
        BY <2>7, <2>8, <3>1, <3>2
      <3>. QED BY <1>c, <1>d, <1>e, <2>5, <2>11, <3>3
    <2>. QED BY <1>b, <2>9, <2>10, <2>11
  <1>3. CASE ReadDone
    <2>. DEFINE In == p >= pos /\ p < pos + len
    <2>1. /\ pc = "read" /\ done' = 0 /\ done = len /\ pc' = "xorout"
          /\ pos' = pos /\ len' = len /\ mode' = mode /\ buf' = buf
          /\ disk' = disk /\ reg' = reg
      BY <1>3 DEF ReadDone
    <2>2. /\ InBlock(p) <=> In
          /\ InBlock(p)' <=> In
          /\ Sampled(p) <=> p < pos + len
          /\ Sampled(p)' <=> p < pos
      BY <1>a, <2>1
    <2>. HIDE DEF InBlock, Sampled
    <2>3. CASE mode = "preread"
      <3>1. PendingPreread(p) = IF p < pos THEN disk[p] ELSE
                                IF In THEN Xor(disk[p], buf[p - pos]) ELSE {}
        BY <1>a, <2>1, <2>2
      <3>2. PendingPreread(p)' = IF p < pos THEN disk[p] ELSE
                                IF In THEN Xor(disk[p], buf[p - pos]) ELSE {}
        BY <1>a, <2>1, <2>2
      <3>. QED BY <1>c, <1>d, <1>e, <2>1, <2>3, <3>1, <3>2
    <2>4. CASE mode = "chain"
      BY <1>a, <1>c, <1>d, <1>e, <2>1, <2>2, <2>4
    <2>5. CASE mode = "clean"
      <3>1. PendingClean(p) = IF p < pos THEN {} ELSE
                              IF In THEN buf[p - pos] ELSE disk[p]
        BY <1>a, <2>1, <2>2
      <3>2. PendingClean(p)' = IF p < pos THEN {} ELSE
                               IF In THEN buf[p - pos] ELSE disk[p]
        BY <1>a, <2>1, <2>2
      <3>. QED BY <1>c, <1>d, <1>e, <2>1, <2>5, <3>1, <3>2
    <2>. QED BY <1>b, <2>3, <2>4, <2>5
  <1>4. CASE ReadFails
    BY <1>4, <1>a, <1>b, <1>c, <1>d, <1>e DEF ReadFails, Base, PlaceOK
  <1>5. CASE WriteChunk
    <2>1. PICK n \in 1..(len - done) :
            /\ disk' = [x \in Pos |-> IF x \in (pos + done)..(pos + done + n - 1)
                                      THEN newdata[x - pos] ELSE disk[x]]
            /\ done' = done + n
      BY <1>5 DEF WriteChunk
    <2>2. disk'[p] = IF p \in (pos + done)..(pos + done + n - 1)
                     THEN newdata[p - pos] ELSE disk[p]
      BY <2>1
    <2>3. mode = "chain" /\ pc = "write" /\ reg' = reg /\ pc' = pc /\ mode' = mode
          /\ pos' = pos /\ len' = len /\ newdata' = newdata
      BY <1>5 DEF WriteChunk, Base, PlaceOK
    <2>4. ASSUME p \in pos..(pos + len - 1), disk[p] \in Byte
          PROVE  newdata[p - pos] \in Byte
      <3>1. p - pos \in Idx
        BY <1>a, <1>c, <1>d, <1>e, <2>4 DEF Idx
      <3>. QED BY <3>1 DEF Base, TypeOK
    <2>5. \A v : Xor(v, v) = {}
      BY DEF Xor
    <2>6. CASE ~(p \in pos..(pos + len - 1))
      BY <1>a, <1>c, <1>d, <1>e, <2>1, <2>2, <2>3, <2>6
    <2>7. CASE p \in (pos + done)..(pos + done + n - 1)
      BY <1>a, <1>c, <1>d, <1>e, <2>1, <2>2, <2>3, <2>5, <2>7
    <2>8. CASE p \in pos..(pos + len - 1) /\ ~(p \in (pos + done)..(pos + done + n - 1))
      BY <1>a, <1>c, <1>d, <1>e, <2>1, <2>2, <2>3, <2>8
    <2>. QED BY <2>6, <2>7, <2>8
  <1>6. CASE WriteNothing
    BY <1>6, <1>a, <1>b, <1>c, <1>d, <1>e DEF WriteNothing, Base, PlaceOK
  <1>7. CASE WriteDone
    BY <1>7, <1>a, <1>b, <1>c, <1>d, <1>e DEF WriteDone, Base, PlaceOK
  <1>8. CASE WriteFails
    BY <1>8, <1>a, <1>b, <1>c, <1>d, <1>e DEF WriteFails, Base, PlaceOK
  <1>9. CASE XorOut
    <2>1. CASE p # pos + done
      <3>1. reg'[p] = reg[p]
        BY <1>9, <2>1 DEF XorOut, Register
      <3>2. Pending(p)' = Pending(p)
        BY <1>9, <1>a, <1>c, <1>d, <1>b, <2>1 DEF XorOut, Register
      <3>. QED BY <3>1, <3>2, <1>e
    <2>2. CASE p = pos + done
      <3>1. reg \in [Pos -> Byte] /\ disk[p] \in Byte /\ buf[done] \in Byte
        <4>1. done \in Idx
          BY <1>9, <1>a, <1>c, <1>d DEF XorOut, Idx
        <4>. QED BY <4>1 DEF Base, TypeOK
      <3>2. reg'[p] = Xor(reg[p], buf[done])
        BY <1>9, <2>2, <3>1 DEF XorOut, Register
      <3>3. p - pos = done /\ InBlock(p) /\ ~Sampled(p) /\ Sampled(p)'
        BY <1>9, <1>a, <1>c, <1>d, <1>e, <2>2 DEF XorOut, Register
      <3>4. \/ Pending(p) = Xor(disk[p], buf[done]) /\ Pending(p)' = disk[p]
            \/ Pending(p) = buf[done] /\ Pending(p)' = {}
        <4>1. /\ pc = "xorout" /\ pc' = pc /\ mode' = mode /\ pos' = pos
              /\ disk' = disk /\ buf' = buf /\ ~(p < pos) /\ p - pos = done
              /\ InBlock(p)'
          BY <1>9, <1>a, <2>2, <3>3 DEF XorOut, Register
        <4>. HIDE DEF InBlock, Sampled
        <4>2. CASE mode = "preread"
          BY <1>c, <1>d, <3>3, <4>1, <4>2
        <4>3. CASE mode = "chain"
          BY <1>c, <1>d, <3>3, <4>1, <4>3
        <4>4. CASE mode = "clean"
          BY <1>c, <1>d, <3>3, <4>1, <4>4
        <4>. QED BY <1>b, <4>2, <4>3, <4>4
      <3>5. reg[p] \in Byte /\ disk[p] \in Byte /\ buf[done] \in Byte
        BY <3>1
      <3>6. Xor(reg[p], Xor(disk[p], buf[done]))
               = Xor(Xor(reg[p], buf[done]), disk[p])
        BY <3>5, XorLaws
      <3>7. Xor(Xor(reg[p], buf[done]), {}) = Xor(reg[p], buf[done])
        BY <3>5, XorLaws
      <3>. QED BY <3>2, <3>4, <3>6, <3>7, <1>e
    <2>. QED BY <2>1, <2>2
  <1>10. CASE XorIn
    <2>1. CASE p # pos + done
      <3>1. reg'[p] = reg[p]
        BY <1>10, <2>1 DEF XorIn, Register
      <3>2. Pending(p)' = Pending(p)
        BY <1>10, <1>a, <1>c, <1>d, <1>b, <2>1 DEF XorIn, Register, Base, PlaceOK
      <3>. QED BY <3>1, <3>2, <1>e
    <2>2. CASE p = pos + done
      <3>1. reg \in [Pos -> Byte] /\ disk[p] \in Byte /\ newdata[done] \in Byte
        <4>1. done \in Idx
          BY <1>10, <1>a, <1>c, <1>d DEF XorIn, Idx
        <4>. QED BY <4>1 DEF Base, TypeOK
      <3>2. reg'[p] = Xor(reg[p], newdata[done])
        BY <1>10, <2>2, <3>1 DEF XorIn, Register
      <3>3. p - pos = done /\ InBlock(p) /\ ~Sampled(p) /\ Sampled(p)'
        BY <1>10, <1>a, <1>c, <1>d, <1>e, <2>2 DEF XorIn, Register
      <3>4. \/ Pending(p) = Xor(disk[p], newdata[done]) /\ Pending(p)' = disk[p]
            \/ Pending(p) = newdata[done] /\ Pending(p)' = {}
        <4>1. /\ pc = "xorin" /\ pc' = pc /\ mode = "chain" /\ mode' = mode
              /\ pos' = pos /\ disk' = disk /\ newdata' = newdata /\ p - pos = done
          BY <1>10, <1>a, <2>2, <3>3 DEF XorIn, Register, Base, PlaceOK
        <4>. HIDE DEF InBlock, Sampled
        <4>. QED BY <1>c, <1>d, <3>3, <4>1
      <3>5. reg[p] \in Byte /\ disk[p] \in Byte /\ newdata[done] \in Byte
        BY <3>1
      <3>6. Xor(reg[p], Xor(disk[p], newdata[done]))
               = Xor(Xor(reg[p], newdata[done]), disk[p])
        BY <3>5, XorLaws
      <3>7. Xor(Xor(reg[p], newdata[done]), {}) = Xor(reg[p], newdata[done])
        BY <3>5, XorLaws
      <3>. QED BY <3>2, <3>4, <3>6, <3>7, <1>e
    <2>. QED BY <2>1, <2>2
  <1>11. CASE XorOutDone
    <2>1. CASE mode = "chain"
      <3>1. /\ pc = "xorout" /\ pc' = "write" /\ done = len /\ done' = 0
            /\ pos' = pos /\ len' = len /\ mode' = mode
            /\ disk' = disk /\ reg' = reg
        BY <1>11, <2>1 DEF XorOutDone
      <3>2. InBlock(p)' = InBlock(p) /\ (InBlock(p) => Sampled(p) /\ ~Sampled(p)')
        BY <1>a, <3>1
      <3>. QED BY <1>c, <1>d, <1>e, <2>1, <3>1, <3>2
    <2>2. CASE mode # "chain"
      BY <1>11, <1>a, <1>c, <1>d, <1>e, <1>b, <2>2 DEF XorOutDone
    <2>3. reg' = reg
      BY <1>11 DEF XorOutDone
    <2>. QED BY <2>1, <2>2, <2>3, <1>e
  <1>12. CASE XorInDone
    BY <1>12, <1>a, <1>b, <1>c, <1>d, <1>e DEF XorInDone, Base, PlaceOK
  <1>13. CASE BeginPreread
    BY <1>13, <1>a, <1>b, <1>c, <1>d, <1>e DEF BeginPreread, EnterCleanup, Base, PlaceOK
  <1>14. CASE CleanupBlock
    <2>1. /\ pc = "cleanup" /\ pc' = "read" /\ done' = 0 /\ pos' = pos
          /\ mode' = mode /\ disk' = disk /\ reg' = reg
      BY <1>14 DEF CleanupBlock
    <2>2. CASE mode = "preread"
      BY <1>a, <1>c, <1>d, <1>e, <2>1, <2>2
    <2>3. CASE mode = "clean"
      BY <1>a, <1>c, <1>d, <1>e, <2>1, <2>3
    <2>. QED BY <1>b, <2>1, <2>2, <2>3 DEF Base, PlaceOK
  <1>15. CASE PrereadDone
    <2>1. reg' = reg /\ disk' = disk
      BY <1>15 DEF PrereadDone
    <2>2. p >= pos => disk[p] = {}
      <3>1. CASE limit = Size
        <4>1. pos >= Coverage(Size)
          BY <1>15, <1>a, <1>c, <1>d, <3>1, AlignedBlock, FsTestAssumption
          DEF PrereadDone, Base, PlaceOK
        <4>. QED BY <1>a, <1>c, <1>d, <4>1
      <3>2. CASE limit = fsize + MaxBlock
        <4>1. p >= pos => p >= fsize
          BY <1>15, <1>a, <1>c, <1>d, <3>2 DEF PrereadDone
        <4>. QED BY <4>1 DEF Base, NothingBeyondEof
      <3>. QED BY <1>15, <3>1, <3>2 DEF PrereadDone, Base, PlaceOK
    <2>3. Pending(p)' = disk[p]
      BY <1>15, <1>d, <2>1 DEF PrereadDone
    <2>4. Pending(p) = IF p < pos THEN disk[p] ELSE {}
      BY <1>15, <1>a, <1>c DEF PrereadDone
    <2>. QED BY <1>a, <1>c, <1>d, <1>e, <2>1, <2>2, <2>3, <2>4, <1>e
  <1>16. CASE Verdict
    BY <1>16, <1>a, <1>b, <1>c, <1>d, <1>e DEF Verdict, Base, PlaceOK
  <1>17. CASE BeginChain
    BY <1>17, <1>a, <1>b, <1>c, <1>d, <1>e DEF BeginChain, Base, PlaceOK
  <1>18. CASE ChainBlock
    BY <1>18, <1>a, <1>b, <1>c, <1>d, <1>e DEF ChainBlock, Base, PlaceOK
  <1>19. CASE ChainDone
    BY <1>19, <1>a, <1>b, <1>c, <1>d, <1>e DEF ChainDone, Base, PlaceOK
  <1>20. CASE RandomFails
    BY <1>20, <1>a, <1>b, <1>c, <1>d, <1>e DEF RandomFails, Base, PlaceOK
  <1>21. CASE EndIterations
    BY <1>21, <1>a, <1>b, <1>c, <1>d, <1>e DEF EndIterations, EnterCleanup, Base, PlaceOK
  <1>22. CASE Interrupt
    BY <1>22, <1>a, <1>b, <1>c, <1>d, <1>e DEF Interrupt, Base, PlaceOK
  <1>. QED BY <1>1, <1>2, <1>3, <1>4, <1>5, <1>6, <1>7, <1>8, <1>9, <1>10, <1>11, <1>12, <1>13, <1>14, <1>15, <1>16, <1>17, <1>18, <1>19, <1>20, <1>21, <1>22 DEF Program

LEMMA ResidueInit == Init => ResidueBound
  <1>. SUFFICES ASSUME Init PROVE ResidueBound
    OBVIOUS
  <1>1. ASSUME NEW p \in Pos PROVE Residue(p) = {}
    <2>1. p >= 0 /\ p \in Int
      BY DEF Pos
    <2>2. Pending(p) = {}
      BY <2>1 DEF Init, Pending, PendingPreread, InBlock, InBlockPc
    <2>3. reg[p] = {}
      BY DEF Init
    <2>. QED BY <2>2, <2>3 DEF Residue, Xor
  <1>2. flips # 1
    BY DEF Init
  <1>. QED BY <1>1, <1>2 DEF ResidueBound

\* A corrupted byte leaves a residue at its own position only.
LEMMA FlipStep ==
  ASSUME Base, NEW q \in Pos, NEW d \in Byte, Flip,
         disk' = [disk EXCEPT ![q] = Xor(@, d)],
         NEW p \in Pos, p # q
  PROVE  Residue(p)' = Residue(p)
  <1>1. disk'[p] = disk[p]
    BY DEF Base, TypeOK
  <1>2. UNCHANGED <<fsize, pc, blockVars, loopVars, hashVars>>
    BY DEF Flip
  <1>. QED BY <1>1, <1>2
       DEF Residue, Pending, PendingPreread, PendingChain, PendingClean,
           InBlock, Sampled, blockVars, loopVars, hashVars

LEMMA BoundNext ==
  Base /\ Base' /\ ResidueBound /\ [Next]_vars => ResidueBound'
  <1>. SUFFICES ASSUME Base, Base', ResidueBound, [Next]_vars,
                       ~failed', pc' # "killed"
                PROVE  /\ flips' = 0 => \A p \in Pos : Residue(p)' = {}
                       /\ flips' = 1 => \E q \in Pos : \A p \in Pos \ {q} :
                                          Residue(p)' = {}
    BY DEF ResidueBound
  <1>1. ~failed /\ pc # "killed"
    BY DEF Next, Program, vars, envVars, ReadChunk, ReadEof, ReadDone,
           ReadFails, WriteChunk, WriteNothing, WriteDone, WriteFails, XorOut,
           XorIn, Register, XorOutDone, XorInDone, BeginPreread, EnterCleanup,
           CleanupBlock, PrereadDone, Verdict, BeginChain, ChainBlock,
           ChainDone, RandomFails, EndIterations, Interrupt, Flip, Finished
  <1>2. CASE UNCHANGED vars
    <2>1. \A p \in Pos : Residue(p)' = Residue(p)
      BY <1>2 DEF vars, fileVars, blockVars, loopVars, hashVars, envVars,
           Residue, Pending, PendingPreread, PendingChain, PendingClean,
           InBlock, Sampled
    <2>. QED BY <1>1, <1>2, <2>1 DEF vars, envVars, ResidueBound
  <1>3. CASE Program \/ Interrupt
    <2>1. \A p \in Pos : Residue(p)' = Residue(p)
      BY <1>3, ResidueStep
    <2>2. flips' = flips
      BY <1>3
      DEF Program, envVars, ReadChunk, ReadEof, ReadDone, ReadFails,
          WriteChunk, WriteNothing, WriteDone, WriteFails, XorOut, XorIn,
          Register, XorOutDone, XorInDone, BeginPreread, EnterCleanup,
          CleanupBlock, PrereadDone, Verdict, BeginChain, ChainBlock,
          ChainDone, RandomFails, EndIterations, Interrupt
    <2>. QED BY <1>1, <2>1, <2>2 DEF ResidueBound
  <1>4. CASE Flip
    <2>1. PICK q \in Pos, d \in Byte : disk' = [disk EXCEPT ![q] = Xor(@, d)]
      BY <1>4 DEF Flip
    <2>2. \A p \in Pos \ {q} : Residue(p)' = Residue(p)
      BY <1>4, <2>1, FlipStep
    <2>3. flips' = flips + 1 /\ flips \in Nat
      BY <1>4 DEF Flip, Base, TypeOK
    <2>4. flips = 0 => \A p \in Pos : Residue(p) = {}
      BY <1>1 DEF ResidueBound
    <2>. QED BY <2>2, <2>3, <2>4
  <1>. QED BY <1>2, <1>3, <1>4 DEF Next

------------------------------------------------------------------------------
(* The invariant.                                                           *)

\* How a run ended, as a part of IInv.
EndOK ==
  /\ pc = "error" => failed
  /\ pc = "fail" => xors # ZeroSums
  /\ pc = "ok" => xors = ZeroSums

LEMMA EndNext == Base /\ EndOK /\ [Next]_vars => EndOK'
  <1>. SUFFICES ASSUME Base, EndOK, [Next]_vars PROVE EndOK'
    OBVIOUS
  <1>1. CASE Verdict
    <2>1. xors = [k \in Sums |-> xors[k]] /\ xors' = xors
      BY <1>1 DEF Base, TypeOK, Verdict, hashVars
    <2>2. (\E k \in Sums : xors[k] # {}) <=> xors # ZeroSums
      BY <2>1 DEF ZeroSums
    <2>. QED BY <1>1, <2>1, <2>2 DEF Verdict, EndOK
  <1>2. CASE UNCHANGED <<pc, xors, failed>>
    BY <1>2 DEF EndOK
  <1>3. CASE pc' \notin {"error", "fail", "ok"}
    BY <1>3 DEF EndOK
  <1>4. CASE pc' = "error" /\ failed'
    BY <1>4 DEF EndOK
  <1>5. \/ Verdict
        \/ UNCHANGED <<pc, xors, failed>>
        \/ pc' \notin {"error", "fail", "ok"}
        \/ pc' = "error" /\ failed'
    BY DEF Next, Program, vars, envVars, hashVars, ReadChunk, ReadEof,
           ReadDone, ReadFails, WriteChunk, WriteNothing, WriteDone,
           WriteFails, XorOut, XorIn, Register, XorOutDone, XorInDone,
           BeginPreread, EnterCleanup, CleanupBlock, PrereadDone, BeginChain,
           ChainBlock, ChainDone, RandomFails, EndIterations, Interrupt, Flip,
           Finished
  <1>. QED BY <1>1, <1>2, <1>3, <1>4, <1>5

LEMMA IInvParts == IInv <=> Base /\ SumsMatchRegister /\ ResidueBound /\ EndOK
  BY DEF IInv, Base, EndOK

\* The inductive invariant of fstest, that the other theorems use.
THEOREM InductiveInvariant == Spec => []IInv
  <1>1. Init => IInv
    <2>1. Init => EndOK
      BY DEF Init, EndOK
    <2>. QED BY <2>1, BaseInit, HashInit, ResidueInit, IInvParts
  <1>2. IInv /\ [Next]_vars => IInv'
    <2>. SUFFICES ASSUME IInv, [Next]_vars PROVE IInv'
      OBVIOUS
    <2>1. Base' /\ SumsMatchRegister' /\ EndOK'
      BY BaseNext, HashNext, EndNext, IInvParts
    <2>2. ResidueBound'
      BY <2>1, BoundNext, IInvParts
    <2>. QED BY <2>1, <2>2 DEF IInv, Base, EndOK
  <1>. QED BY <1>1, <1>2, PTL DEF Spec

------------------------------------------------------------------------------
(* What a run promises.                                                     *)

\* Behind the last cleanup nothing is pending: the residue is what was
\* registered.
LEMMA AllRegistered ==
  ASSUME IInv, pc \in {"ok", "fail"}, NEW p \in Pos
  PROVE  Residue(p) = reg[p]
  <1>1. mode = "clean" /\ pos > limit /\ limit = Size /\ pos % MaxBlock = 0
    BY DEF IInv, PlaceOK
  <1>2. pos \in Nat /\ p \in Nat /\ p < Coverage(Size) /\ reg[p] \in Byte
    BY CoverageBounds DEF IInv, TypeOK, Pos
  <1>3. p < pos
    <2>1. pos >= Coverage(Size)
      BY <1>1, <1>2, AlignedBlock
    <2>. QED BY <1>2, <2>1, CoverageBounds
  <1>4. Pending(p) = {}
    BY <1>1, <1>3 DEF Pending, PendingClean
  <1>. QED BY <1>2, <1>4, XorLaws DEF Residue

\* A file system that keeps its bytes and completes its calls is never
\* reported as failing, for any parameters of the command line.
THEOREM NoFalseAlarmHolds == Spec => []NoFalseAlarm
  <1>1. IInv => NoFalseAlarm
    <2>. SUFFICES ASSUME IInv, pc = "fail", ~(flips > 0), ~failed
                  PROVE  FALSE
      BY DEF NoFalseAlarm
    <2>0. flips = 0
      BY FsTestAssumption DEF IInv, TypeOK
    <2>1. \A p \in Pos : reg[p] = {}
      BY <2>0, AllRegistered DEF IInv, ResidueBound
    <2>2. reg \in [Pos -> Byte]
      BY DEF IInv, TypeOK
    <2>3. HashOf(reg) = ZeroSums
      BY <2>1, <2>2, HashOfBlank
    <2>. QED BY <2>3 DEF IInv, SumsMatchRegister
  <1>. QED BY <1>1, InductiveInvariant, PTL

\* A single corruption that reached cleanup is always reported.
THEOREM SingleFlipIsDetected == Spec => []SingleFlipDetected
  <1>1. IInv => SingleFlipDetected
    <2>. SUFFICES ASSUME IInv, pc = "ok", ~failed, flips <= 1
                  PROVE  \A p \in Pos : reg[p] = {}
      BY DEF SingleFlipDetected
    <2>1. flips \in Nat /\ reg \in [Pos -> Byte]
      BY FsTestAssumption DEF IInv, TypeOK
    <2>2. \A p \in Pos : Residue(p) = reg[p]
      BY AllRegistered
    <2>3. CASE flips = 0
      BY <2>2, <2>3 DEF IInv, ResidueBound
    <2>4. CASE flips = 1
      <3>1. PICK q \in Pos : \A p \in Pos \ {q} : reg[p] = {}
        BY <2>2, <2>4 DEF IInv, ResidueBound
      <3>2. HashOf(reg) = ZeroSums
        BY DEF IInv, SumsMatchRegister
      <3>3. reg[q] = {}
        BY <2>1, <3>1, <3>2, SingleByteShows
      <3>. QED BY <3>1, <3>3
    <2>. QED BY <2>1, <2>3, <2>4
  <1>. QED BY <1>1, InductiveInvariant, PTL

\* Between two chains the sums are those of the file on disk.
THEOREM SumsMatchFileHolds == Spec => []SumsMatchFile
  <1>1. IInv => SumsMatchFile
    <2>. SUFFICES ASSUME IInv, pc = "iterate", flips = 0, ~failed
                  PROVE  xors = HashOf(disk)
      BY DEF SumsMatchFile
    <2>1. disk \in [Pos -> Byte] /\ reg \in [Pos -> Byte]
      BY DEF IInv, TypeOK
    <2>2. mode = "chain"
      BY DEF IInv, PlaceOK
    <2>3. \A p \in Pos : Residue(p) = Xor(reg[p], disk[p])
      BY <2>2 DEF Residue, Pending, PendingChain, InBlock, InBlockPc
    <2>4. \A p \in Pos : Residue(p) = {}
      BY DEF IInv, ResidueBound
    <2>5. \A p \in Pos : reg[p] = disk[p]
      BY <2>1, <2>3, <2>4, XorLaws
    <2>6. reg = disk
      BY <2>1, <2>5
    <2>. QED BY <2>6 DEF IInv, SumsMatchRegister
  <1>. QED BY <1>1, InductiveInvariant, PTL

\* Only a fault of the file system changes what will be left in the sums.
THEOREM ResidueIsConserved == Spec => ResidueConserved
  <1>1. IInv /\ IInv' /\ [Next]_vars =>
          [flips' = flips /\ ~failed' /\ pc' # "killed"
             => \A p \in Pos : Residue(p)' = Residue(p)]_vars
    <2>. SUFFICES ASSUME IInv, IInv', Next, flips' = flips, ~failed',
                         pc' # "killed", NEW p \in Pos
                  PROVE  Residue(p)' = Residue(p)
      OBVIOUS
    <2>1. ~Flip
      BY DEF Flip, IInv, TypeOK
    <2>2. Base /\ Base'
      BY DEF IInv, Base
    <2>. QED BY <2>1, <2>2, ResidueStep DEF Next
  <1>. QED BY <1>1, InductiveInvariant, PTL DEF Spec, ResidueConserved
------------------------------------------------------------------------------
(* The calls that are left.                                                  *)

LEMMA Products ==
  ASSUME NEW a \in Nat, NEW b \in Nat
  PROVE  /\ a * b \in Nat
         /\ (a + 1) * b = a * b + b
         /\ \A c \in 0..a : (a - c) * b = a * b - c * b /\ c * b \in 0..(a * b)
         /\ a > 0 => a * b >= b
  <1>1. a * b \in Nat /\ (a + 1) * b = a * b + b
    OBVIOUS
  <1>2. ASSUME NEW c \in 0..a
        PROVE  (a - c) * b = a * b - c * b /\ c * b \in 0..(a * b)
    <2>1. (a - c) * b = a * b - c * b
      OBVIOUS
    <2>2. (a - c) * b \in Nat /\ c * b \in Nat
      OBVIOUS
    <2>. QED BY <1>1, <2>1, <2>2
  <1>3. ASSUME a > 0 PROVE a * b >= b
    <2>1. a * b = (a - 1) * b + b /\ (a - 1) * b \in Nat
      BY <1>3
    <2>. QED BY <1>1, <2>1
  <1>. QED BY <1>1, <1>2, <1>3

\* What blocks, chains and cleanups cost.
LEMMA Costs ==
  /\ PerBlock \in Nat /\ PerBlock = 4 * MaxBlock + 5
  /\ PerChain \in Nat /\ PerCleanup \in Nat
  /\ \A r \in 0..MaxChain :
       /\ r * PerBlock \in Nat /\ r * PerBlock + 2 <= PerChain
       /\ r > 0 => /\ (r - 1) * PerBlock \in Nat
                   /\ r * PerBlock = (r - 1) * PerBlock + PerBlock
  /\ \A x \in 0..Coverage(Size) :
       /\ x * PerBlock \in Nat /\ x * PerBlock + 2 <= PerCleanup
       /\ x >= MaxBlock => /\ (x - MaxBlock) * PerBlock \in Nat
                           /\ (x - MaxBlock) * PerBlock + PerBlock <= x * PerBlock
  /\ NumIterations * PerChain \in Nat
  /\ \A k \in 0..NumIterations :
       /\ (NumIterations - k) * PerChain \in 0..(NumIterations * PerChain)
       /\ (NumIterations - k - 1) * PerChain = (NumIterations - k) * PerChain - PerChain
  /\ \A k \in 0..NumIterations :
       k < NumIterations => (NumIterations - k - 1) * PerChain \in Nat
  <1>. USE FsTestAssumption, CoverageBounds
  <1>1. PerBlock \in Nat /\ PerBlock = 4 * MaxBlock + 5
    BY DEF PerBlock
  <1>2. MaxChain * PerBlock \in Nat /\ Coverage(Size) * PerBlock \in Nat
    BY <1>1, Products
  <1>3. PerChain = MaxChain * PerBlock + 2 /\ PerChain \in Nat
    BY <1>2 DEF PerChain
  <1>4. PerCleanup = Coverage(Size) * PerBlock + 2 /\ PerCleanup \in Nat
    BY <1>2 DEF PerCleanup
  <1>5. ASSUME NEW r \in 0..MaxChain
        PROVE  /\ r * PerBlock \in Nat /\ r * PerBlock + 2 <= PerChain
               /\ r > 0 => /\ (r - 1) * PerBlock \in Nat
                           /\ r * PerBlock = (r - 1) * PerBlock + PerBlock
    <2>1. r * PerBlock \in 0..(MaxChain * PerBlock)
      BY <1>1, Products
    <2>2. ASSUME r > 0
          PROVE  /\ (r - 1) * PerBlock \in Nat
                 /\ r * PerBlock = (r - 1) * PerBlock + PerBlock
      <3>1. r - 1 \in Nat /\ (r - 1) + 1 = r
        BY <2>2
      <3>. QED BY <1>1, <3>1, Products
    <2>3. r * PerBlock \in Nat /\ r * PerBlock + 2 <= PerChain
      BY <1>2, <1>3, <2>1
    <2>. QED BY <2>2, <2>3
  <1>6. ASSUME NEW x \in 0..Coverage(Size)
        PROVE  /\ x * PerBlock \in Nat /\ x * PerBlock + 2 <= PerCleanup
               /\ x >= MaxBlock => /\ (x - MaxBlock) * PerBlock \in Nat
                                   /\ (x - MaxBlock) * PerBlock + PerBlock <= x * PerBlock
    <2>1. x * PerBlock \in 0..(Coverage(Size) * PerBlock)
      BY <1>1, Products
    <2>2. ASSUME x >= MaxBlock
          PROVE  /\ (x - MaxBlock) * PerBlock \in Nat
                 /\ (x - MaxBlock) * PerBlock + PerBlock <= x * PerBlock
      <3>1. MaxBlock \in 0..x /\ x \in Nat /\ x - MaxBlock \in Nat
        BY <2>2
      <3>2. (x - MaxBlock) * PerBlock = x * PerBlock - MaxBlock * PerBlock
        BY <1>1, <3>1, Products
      <3>3. MaxBlock * PerBlock \in Nat /\ MaxBlock * PerBlock >= PerBlock
        BY <1>1, Products
      <3>4. (x - MaxBlock) * PerBlock \in Nat
        BY <1>1, <3>1, Products
      <3>. QED BY <1>1, <2>1, <3>2, <3>3, <3>4
    <2>3. x * PerBlock \in Nat /\ x * PerBlock + 2 <= PerCleanup
      BY <1>2, <1>4, <2>1
    <2>. QED BY <2>2, <2>3
  <1>7. NumIterations * PerChain \in Nat
    BY <1>3, Products
  <1>8. ASSUME NEW k \in 0..NumIterations
        PROVE  /\ (NumIterations - k) * PerChain \in 0..(NumIterations * PerChain)
               /\ (NumIterations - k - 1) * PerChain
                    = (NumIterations - k) * PerChain - PerChain
    <2>1. NumIterations - k \in 0..NumIterations
      OBVIOUS
    <2>2. (NumIterations - k) * PerChain \in 0..(NumIterations * PerChain)
      BY <1>3, <2>1, Products
    <2>3. (NumIterations - k - 1) * PerChain = (NumIterations - k) * PerChain - PerChain
      BY <1>3
    <2>. QED BY <2>2, <2>3
  <1>9. ASSUME NEW k \in 0..NumIterations, k < NumIterations
        PROVE  (NumIterations - k - 1) * PerChain \in Nat
    <2>1. NumIterations - k - 1 \in Nat
      BY <1>9
    <2>. QED BY <1>3, <2>1, Products
  <1>. QED BY <1>1, <1>3, <1>4, <1>5, <1>6, <1>7, <1>8, <1>9

\* A block on its way takes less than a block may.
LEMMA BlockCost ==
  ASSUME Base, pc \in InBlockPc
  PROVE  /\ LeftInBlock \in 1..(PerBlock - 1)
         /\ LeftInBlock = len - done + 1
              + (IF pc = "read" THEN 3 * MaxBlock + 3
                 ELSE IF pc = "xorout" THEN 2 * MaxBlock + 2
                 ELSE IF pc = "write" THEN MaxBlock + 1 ELSE 0)
  <1>1. len \in 0..MaxBlock /\ done \in 0..len /\ MaxBlock \in Nat
    BY FsTestAssumption DEF Base, TypeOK
  <1>2. LeftInBlock = len - done + 1
              + (IF pc = "read" THEN 3 * MaxBlock + 3
                 ELSE IF pc = "xorout" THEN 2 * MaxBlock + 2
                 ELSE IF pc = "write" THEN MaxBlock + 1 ELSE 0)
    BY <1>1 DEF LeftInBlock, InBlockPc
  <1>. QED BY <1>1, <1>2, Costs

\* A cleanup under way, preread or last.
LEMMA CleanupCost ==
  ASSUME Base, mode # "chain", pc \in {"cleanup", "read", "xorout"}
  PROVE  /\ LeftInCleanup \in Nat \ {0}
         /\ LeftOfRun = IF mode = "clean" THEN LeftInCleanup
                        ELSE LeftInCleanup + NumIterations * PerChain + PerCleanup
         /\ Coverage(Size) - pos \in 0..Coverage(Size)
         /\ pc = "cleanup" =>
              LeftInCleanup = (Coverage(Size) - pos) * PerBlock + 1
         /\ pc # "cleanup" =>
              /\ Coverage(Size) - pos >= MaxBlock
              /\ LeftInCleanup
                   = (Coverage(Size) - pos - MaxBlock) * PerBlock + LeftInBlock + 1
  <1>1. Coverage(Size) - pos \in 0..Coverage(Size)
    BY CoverageBounds DEF Base, TypeOK
  <1>2. pc # "cleanup" => Coverage(Size) - pos >= MaxBlock
    BY <1>1, CoverageBounds, FsTestAssumption DEF Base, TypeOK, PlaceOK, InBlockPc
  <1>3. LeftInCleanup \in Nat \ {0}
    <2>1. CASE pc = "cleanup"
      BY <1>1, <2>1, Costs DEF LeftInCleanup
    <2>2. CASE pc # "cleanup"
      <3>1. (Coverage(Size) - pos - MaxBlock) * PerBlock \in Nat
        BY <1>1, <1>2, <2>2, Costs
      <3>2. LeftInBlock \in Nat
        BY <2>2, BlockCost, Costs DEF InBlockPc
      <3>. QED BY <2>2, <3>1, <3>2 DEF LeftInCleanup
    <2>. QED BY <2>1, <2>2
  <1>4. LeftOfRun = IF mode = "clean" THEN LeftInCleanup
                    ELSE LeftInCleanup + NumIterations * PerChain + PerCleanup
    BY DEF LeftOfRun, Base, TypeOK
  <1>. QED BY <1>1, <1>2, <1>3, <1>4 DEF LeftInCleanup

\* A chain under way, or about to begin.
LEMMA ChainCost ==
  ASSUME Base, mode = "chain", pc \in {"iterate", "chain"} \cup InBlockPc
  PROVE  /\ LeftOfRun
              = LeftInChain + (NumIterations - iter - 1) * PerChain + PerCleanup
         /\ LeftInChain + (NumIterations - iter - 1) * PerChain \in Nat
         /\ (NumIterations - iter - 1) * PerChain \in Int
         /\ LeftInChain \in Nat
         /\ pc = "iterate" => LeftInChain = PerChain
         /\ pc = "chain" => LeftInChain = reps * PerBlock + 1
         /\ pc \in InBlockPc => LeftInChain = (reps - 1) * PerBlock + LeftInBlock + 1
  <1>1. LeftOfRun = LeftInChain + (NumIterations - iter - 1) * PerChain + PerCleanup
    BY DEF LeftOfRun, InBlockPc
  <1>2. reps \in 0..MaxChain /\ iter \in 0..NumIterations
    BY DEF Base, TypeOK
  <1>3. CASE pc = "iterate"
    <2>1. LeftInChain = PerChain
      BY <1>3 DEF LeftInChain
    <2>2. (NumIterations - iter) * PerChain \in Nat
          /\ (NumIterations - iter - 1) * PerChain = (NumIterations - iter) * PerChain - PerChain
      BY <1>2, Costs, FsTestAssumption
    <2>3. LeftInChain + (NumIterations - iter - 1) * PerChain \in Nat
          /\ (NumIterations - iter - 1) * PerChain \in Int /\ LeftInChain \in Nat
      BY <2>1, <2>2, Costs
    <2>. QED BY <1>1, <1>3, <2>1, <2>3 DEF InBlockPc
  <1>4. CASE pc # "iterate"
    <2>1. iter < NumIterations
      BY <1>4 DEF Base, PlaceOK, InBlockPc
    <2>2. (NumIterations - iter - 1) * PerChain \in Nat
      BY <1>2, <2>1, Costs
    <2>3. CASE pc = "chain"
      <3>1. LeftInChain = reps * PerBlock + 1
        BY <2>3 DEF LeftInChain
      <3>2. reps * PerBlock \in Nat
        BY <1>2, Costs
      <3>3. LeftInChain + (NumIterations - iter - 1) * PerChain \in Nat
            /\ (NumIterations - iter - 1) * PerChain \in Int /\ LeftInChain \in Nat
        BY <2>2, <3>1, <3>2
      <3>. QED BY <1>1, <2>3, <3>1, <3>3 DEF InBlockPc
    <2>4. CASE pc \in InBlockPc
      <3>1. LeftInChain = (reps - 1) * PerBlock + LeftInBlock + 1
        BY <2>4 DEF LeftInChain, InBlockPc
      <3>2. reps > 0
        BY <2>4 DEF Base, PlaceOK
      <3>3. (reps - 1) * PerBlock \in Nat
        BY <1>2, <3>2, Costs
      <3>4. LeftInBlock \in Nat
        BY <2>4, BlockCost, Costs
      <3>5. LeftInChain + (NumIterations - iter - 1) * PerChain \in Nat
            /\ (NumIterations - iter - 1) * PerChain \in Int /\ LeftInChain \in Nat
        BY <2>2, <3>1, <3>3, <3>4
      <3>. QED BY <1>1, <2>4, <3>1, <3>5 DEF InBlockPc
    <2>. QED BY <1>4, <2>3, <2>4
  <1>. QED BY <1>3, <1>4

\* Before the end there is always a call left.
LEMMA RunCost ==
  ASSUME Base, pc \notin Finished
  PROVE  LeftOfRun \in Nat \ {0}
  <1>1. CASE pc = "start"
    <2>1. LeftOfRun = 1 + PerCleanup + NumIterations * PerChain + PerCleanup
      BY <1>1 DEF LeftOfRun, Base, PlaceOK
    <2>. QED BY <2>1, Costs
  <1>2. CASE pc # "start" /\ mode # "chain"
    <2>1. pc \in {"cleanup", "read", "xorout"}
      BY <1>2 DEF Base, TypeOK, PlaceOK, InBlockPc, Finished
    <2>. QED BY <1>2, <2>1, CleanupCost, Costs
  <1>3. CASE pc # "start" /\ mode = "chain"
    <2>1. pc \in {"iterate", "chain"} \cup InBlockPc
      BY <1>3 DEF Base, TypeOK, PlaceOK, InBlockPc, Finished
    <2>2. PerCleanup \in Nat \ {0}
      <3>1. 0 \in 0..Coverage(Size)
        BY CoverageBounds
      <3>2. 0 * PerBlock \in Nat /\ 0 * PerBlock + 2 <= PerCleanup
        BY <3>1, Costs
      <3>. QED BY <3>2, Costs
    <2>. QED BY <1>3, <2>1, <2>2, ChainCost
  <1>. QED BY <1>1, <1>2, <1>3

LEMMA RunCostNext == (Base /\ pc \notin Finished => LeftOfRun \in Nat \ {0})'
  <1>1. Base /\ pc \notin Finished => LeftOfRun \in Nat \ {0}
    BY RunCost
  <1>. QED BY <1>1, PTL

\* The loops of a block bring its end nearer, and with it that of the run.
LEMMA BlockMoves ==
  ASSUME Base, Base', pc \in InBlockPc, pc' \in InBlockPc,
         UNCHANGED <<mode, pos, reps, iter>>, LeftInBlock' < LeftInBlock
  PROVE  LeftOfRun' < LeftOfRun
  <1>1. LeftInBlock \in Nat /\ LeftInBlock' \in Nat
    <2>1. len' \in 0..MaxBlock /\ done' \in 0..len' /\ MaxBlock \in Nat
      BY FsTestAssumption DEF Base, TypeOK
    <2>2. LeftInBlock' \in Nat
      BY <2>1 DEF LeftInBlock
    <2>. QED BY <2>2, BlockCost, Costs
  <1>2. CASE mode = "chain"
    <2>1. reps > 0 /\ reps \in 0..MaxChain
      BY <1>2 DEF Base, TypeOK, PlaceOK
    <2>2. (reps - 1) * PerBlock \in Nat
      BY <2>1, Costs
    <2>3. LeftInChain = (reps - 1) * PerBlock + LeftInBlock + 1
          /\ LeftInChain' = (reps - 1) * PerBlock + LeftInBlock' + 1
      BY DEF LeftInChain, InBlockPc
    <2>4. LeftInChain' < LeftInChain /\ LeftInChain \in Nat /\ LeftInChain' \in Nat
      BY <1>1, <2>2, <2>3
    <2>5. LeftOfRun = LeftInChain + (NumIterations - iter - 1) * PerChain + PerCleanup
          /\ LeftOfRun' = LeftInChain' + (NumIterations - iter - 1) * PerChain + PerCleanup
      BY <1>2 DEF LeftOfRun, InBlockPc
    <2>6. (NumIterations - iter - 1) * PerChain \in Int
      BY <1>2, ChainCost
    <2>. QED BY <2>4, <2>5, <2>6, Costs
  <1>3. CASE mode # "chain"
    <2>1. pc \in {"read", "xorout"} /\ pc' \in {"read", "xorout"} /\ mode' = mode
      BY <1>3 DEF Base, PlaceOK, InBlockPc
    <2>2. (Coverage(Size) - pos - MaxBlock) * PerBlock \in Nat
      BY <1>3, <2>1, CleanupCost, Costs
    <2>3. LeftInCleanup
            = (Coverage(Size) - pos - MaxBlock) * PerBlock + LeftInBlock + 1
          /\ LeftInCleanup'
            = (Coverage(Size) - pos - MaxBlock) * PerBlock + LeftInBlock' + 1
      BY <2>1 DEF LeftInCleanup
    <2>4. LeftInCleanup' < LeftInCleanup /\ LeftInCleanup \in Nat /\ LeftInCleanup' \in Nat
      BY <1>1, <2>2, <2>3
    <2>5. LeftOfRun = (IF mode = "clean" THEN LeftInCleanup
                       ELSE LeftInCleanup + NumIterations * PerChain + PerCleanup)
      BY <1>3, <2>1, CleanupCost
    <2>6. LeftOfRun' = (IF mode = "clean" THEN LeftInCleanup'
                        ELSE LeftInCleanup' + NumIterations * PerChain + PerCleanup)
      BY <1>3, <2>1 DEF LeftOfRun, Base, TypeOK
    <2>. QED BY <2>4, <2>5, <2>6, Costs
  <1>. QED BY <1>2, <1>3
LEMMA BlockLoops ==
  ASSUME Base, Base',
         \/ ReadChunk \/ ReadEof \/ ReadDone \/ WriteChunk \/ WriteNothing
         \/ WriteDone \/ XorOut \/ XorIn \/ (XorOutDone /\ mode = "chain")
  PROVE  LeftOfRun' < LeftOfRun
  <1>1. len \in 0..MaxBlock /\ done \in 0..len /\ MaxBlock \in Nat \ {0}
    BY FsTestAssumption DEF Base, TypeOK
  <1>2. done' \in 0..len' /\ len' = len
    BY DEF Base, TypeOK, ReadChunk, ReadEof, ReadDone, WriteChunk, WriteNothing,
           WriteDone, XorOut, XorIn, Register, XorOutDone
  <1>3. pc \in InBlockPc /\ pc' \in InBlockPc
    BY DEF InBlockPc, ReadChunk, ReadEof, ReadDone, WriteChunk, WriteNothing,
           WriteDone, XorOut, XorIn, Register, XorOutDone
  <1>4. UNCHANGED <<mode, pos, reps, iter>>
    BY DEF ReadChunk, ReadEof, ReadDone, WriteChunk, WriteNothing,
           WriteDone, XorOut, XorIn, Register, XorOutDone, loopVars
  <1>5. CASE ReadChunk \/ ReadEof \/ WriteChunk \/ WriteNothing \/ XorOut \/ XorIn
    <2>1. pc' = pc
      BY <1>5 DEF ReadChunk, ReadEof, WriteChunk, WriteNothing, XorOut, XorIn, Register
    <2>2. done' > done
      BY <1>1, <1>5 DEF ReadChunk, ReadEof, WriteChunk, WriteNothing, XorOut, XorIn, Register
    <2>3. LeftInBlock' < LeftInBlock
      BY <1>1, <1>2, <2>1, <2>2 DEF LeftInBlock
    <2>. QED BY <1>3, <1>4, <2>3, BlockMoves
  <1>6. CASE ReadDone \/ WriteDone \/ XorOutDone
    <2>1. /\ done = len /\ done' = 0
          /\ \/ pc = "read" /\ pc' = "xorout"
             \/ pc = "write" /\ pc' = "xorin"
             \/ pc = "xorout" /\ pc' = "write"
      BY <1>3, <1>6 DEF ReadDone, WriteDone, XorOutDone, InBlockPc
    <2>2. LeftInBlock' < LeftInBlock
      BY <1>1, <1>2, <2>1 DEF LeftInBlock
    <2>. QED BY <1>3, <1>4, <2>2, BlockMoves
  <1>. QED BY <1>5, <1>6

\* cleanup's loop goes one block further.
LEMMA CleanupLoop ==
  ASSUME Base, Base',
         BeginPreread \/ CleanupBlock \/ (XorOutDone /\ mode # "chain")
  PROVE  LeftOfRun' < LeftOfRun
  <1>. DEFINE x == Coverage(Size) - pos
              run(c) == IF mode' = "clean" THEN c
                        ELSE c + NumIterations * PerChain + PerCleanup
  <1>1. pc' \in {"cleanup", "read"} /\ mode' \in {"preread", "clean"}
    BY DEF BeginPreread, EnterCleanup, CleanupBlock, XorOutDone, loopVars, Base,
           TypeOK, PlaceOK
  <1>2. LeftOfRun' = run(LeftInCleanup')
    BY <1>1 DEF LeftOfRun
  <1>3. CASE BeginPreread
    <2>1. LeftInCleanup' = (Coverage(Size) - 0) * PerBlock + 1 /\ mode' = "preread"
      BY <1>3 DEF BeginPreread, EnterCleanup, LeftInCleanup, PerBlock
    <2>2. LeftOfRun = 1 + PerCleanup + NumIterations * PerChain + PerCleanup
      BY <1>3 DEF BeginPreread, LeftOfRun, Base, PlaceOK
    <2>3. Coverage(Size) \in 0..Coverage(Size) /\ Coverage(Size) - 0 = Coverage(Size)
      BY CoverageBounds
    <2>4. Coverage(Size) * PerBlock \in Nat /\ Coverage(Size) * PerBlock + 2 <= PerCleanup
      BY <2>3, Costs
    <2>. QED BY <1>2, <2>1, <2>2, <2>3, <2>4, Costs
  <1>4. CASE CleanupBlock
    <2>1. pc = "cleanup" /\ mode # "chain" /\ mode' = mode /\ pos' = pos
      BY <1>4 DEF CleanupBlock, loopVars, Base, PlaceOK
    <2>2. x \in 0..Coverage(Size) /\ LeftInCleanup = x * PerBlock + 1
          /\ LeftOfRun = run(LeftInCleanup) /\ LeftInCleanup \in Nat
      BY <2>1, CleanupCost
    <2>3. x >= MaxBlock
      <3>1. pos' + len' <= Coverage(Size) /\ len' = MaxBlock
        BY <1>4 DEF CleanupBlock, Base, PlaceOK, InBlockPc
      <3>. QED BY <2>1, <3>1, CoverageBounds, FsTestAssumption DEF Base, TypeOK
    <2>4. LeftInCleanup' = (x - MaxBlock) * PerBlock + LeftInBlock' + 1
      BY <1>4 DEF CleanupBlock, LeftInCleanup, PerBlock
    <2>5. LeftInBlock' = 4 * MaxBlock + 4
      <3>1. LeftInBlock' = MaxBlock - 0 + 1 + (MaxBlock + 1) * 3
        BY <1>4 DEF CleanupBlock, LeftInBlock
      <3>. QED BY <3>1, FsTestAssumption
    <2>6. /\ (x - MaxBlock) * PerBlock \in Nat
          /\ (x - MaxBlock) * PerBlock + PerBlock <= x * PerBlock
          /\ x * PerBlock \in Nat
      BY <2>2, <2>3, Costs
    <2>7. LeftInCleanup' < LeftInCleanup
      <3>. HIDE DEF x
      <3>. QED BY <2>2, <2>4, <2>5, <2>6, Costs, FsTestAssumption
    <2>8. LeftInCleanup' \in Nat
      <3>. HIDE DEF x
      <3>. QED BY <2>4, <2>5, <2>6, FsTestAssumption
    <2>. QED BY <1>2, <2>2, <2>7, <2>8, Costs
  <1>5. CASE XorOutDone /\ mode # "chain"
    <2>1. pc = "xorout" /\ pc' = "cleanup" /\ mode' = mode /\ pos' = pos + MaxBlock
      BY <1>5 DEF XorOutDone, loopVars, Base, PlaceOK
    <2>2. x \in 0..Coverage(Size) /\ x >= MaxBlock
          /\ LeftInCleanup = (x - MaxBlock) * PerBlock + LeftInBlock + 1
          /\ LeftOfRun = run(LeftInCleanup) /\ LeftInCleanup \in Nat
      BY <1>5, <2>1, CleanupCost
    <2>3. LeftInCleanup' = (x - MaxBlock) * PerBlock + 1
      <3>1. LeftInCleanup' = (Coverage(Size) - pos') * PerBlock + 1
        BY <2>1 DEF LeftInCleanup, PerBlock
      <3>2. Coverage(Size) - pos' = x - MaxBlock
        BY <2>1, CoverageBounds, FsTestAssumption DEF Base, TypeOK
      <3>. QED BY <3>1, <3>2
    <2>4. LeftInBlock \in Nat \ {0}
      BY <2>1, BlockCost, Costs DEF InBlockPc
    <2>5. (x - MaxBlock) * PerBlock \in Nat
      BY <2>2, Costs
    <2>6. LeftInCleanup' < LeftInCleanup /\ LeftInCleanup' \in Nat
      <3>. HIDE DEF x
      <3>. QED BY <2>2, <2>3, <2>4, <2>5
    <2>. QED BY <1>2, <2>2, <2>6, Costs
  <1>. QED BY <1>3, <1>4, <1>5

\* The preread ends, or gives up.
LEMMA PrereadEnds ==
  ASSUME Base, Base', PrereadDone \/ (ReadFails /\ mode = "preread")
  PROVE  LeftOfRun' < LeftOfRun
  <1>1. pc \in {"cleanup", "read"} /\ mode = "preread"
        /\ pc' = "iterate" /\ mode' = "chain" /\ iter' = iter
    BY DEF PrereadDone, ReadFails
  <1>2. LeftOfRun = LeftInCleanup + NumIterations * PerChain + PerCleanup
        /\ LeftInCleanup \in Nat \ {0}
    BY <1>1, CleanupCost
  <1>3. LeftOfRun' = PerChain + (NumIterations - iter - 1) * PerChain + PerCleanup
    BY <1>1 DEF LeftOfRun, LeftInChain, PerChain, PerCleanup, PerBlock
  <1>4. iter \in 0..NumIterations
    BY DEF Base, TypeOK
  <1>5. (NumIterations - iter) * PerChain \in 0..(NumIterations * PerChain)
        /\ (NumIterations - iter - 1) * PerChain = (NumIterations - iter) * PerChain - PerChain
    BY <1>4, Costs
  <1>. QED BY <1>2, <1>3, <1>5, Costs

LEMMA LessInSum ==
  ASSUME NEW a \in Nat, NEW b \in Nat, NEW c \in Int, NEW d \in Nat, a < b
  PROVE  a + c + d < b + c + d
  OBVIOUS

\* insert_chain's loop goes one block further.
LEMMA ChainLoop ==
  ASSUME Base, Base', ChainBlock \/ XorInDone
  PROVE  LeftOfRun' < LeftOfRun
  <1>. DEFINE rest == (NumIterations - iter - 1) * PerChain
  <1>1. mode = "chain" /\ mode' = "chain" /\ iter' = iter
        /\ pc \in {"chain", "xorin"} /\ pc' \in {"chain", "read"}
    BY DEF ChainBlock, XorInDone, Base, PlaceOK
  <1>2. LeftOfRun = LeftInChain + rest + PerCleanup /\ rest \in Int
        /\ LeftInChain \in Nat
    BY <1>1, ChainCost DEF InBlockPc
  <1>3. LeftOfRun' = LeftInChain' + rest + PerCleanup
    BY <1>1 DEF LeftOfRun, PerChain, PerCleanup, PerBlock
  <1>4. CASE ChainBlock
    <2>1. LeftInChain = reps * PerBlock + 1
      BY <1>4 DEF ChainBlock, LeftInChain
    <2>2. reps \in 1..MaxChain /\ reps' \in 1..reps
      BY <1>4 DEF ChainBlock, Base, TypeOK
    <2>3. LeftInChain' = (reps' - 1) * PerBlock + LeftInBlock' + 1
      BY <1>4 DEF ChainBlock, LeftInChain, PerBlock
    <2>4. len \in 0..MaxBlock /\ len' = len /\ done' = 0 /\ pc' = "read"
      BY <1>4 DEF ChainBlock, Base, TypeOK
    <2>5. LeftInBlock' \in 0..(PerBlock - 1)
      <3>1. LeftInBlock' = len - 0 + 1 + (MaxBlock + 1) * 3
        BY <2>4 DEF LeftInBlock
      <3>. QED BY <2>4, <3>1, Costs, FsTestAssumption
    <2>6. /\ reps * PerBlock \in Nat /\ reps' * PerBlock \in 0..(reps * PerBlock)
          /\ (reps' - 1) * PerBlock = reps' * PerBlock - PerBlock
          /\ (reps' - 1) * PerBlock \in Nat
      <3>1. reps' \in 1..MaxChain /\ reps' \in 0..reps /\ reps \in Nat
        BY <2>2, FsTestAssumption
      <3>2. reps' * PerBlock \in 0..(reps * PerBlock) /\ reps * PerBlock \in Nat
        BY <3>1, Products, Costs
      <3>3. (reps' - 1) * PerBlock \in Nat
            /\ reps' * PerBlock = (reps' - 1) * PerBlock + PerBlock
        BY <3>1, Costs
      <3>. QED BY <3>2, <3>3, Costs
    <2>7. LeftInChain' < LeftInChain /\ LeftInChain' \in Nat
      BY <2>1, <2>3, <2>5, <2>6, Costs
    <2>8. PerCleanup \in Nat
      BY Costs
    <2>9. LeftInChain' + rest + PerCleanup < LeftInChain + rest + PerCleanup
      <3>1. rest \in Int /\ LeftInChain \in Nat
        BY <1>2
      <3>. HIDE DEF rest
      <3>. QED BY <2>7, <2>8, <3>1, LessInSum
    <2>. QED BY <1>2, <1>3, <2>9
  <1>5. CASE XorInDone
    <2>1. pc = "xorin" /\ pc' = "chain" /\ reps' = reps - 1
      BY <1>5 DEF XorInDone
    <2>2. LeftInChain = (reps - 1) * PerBlock + LeftInBlock + 1
          /\ LeftInBlock \in Nat \ {0}
      BY <1>1, <2>1, ChainCost, BlockCost, Costs DEF InBlockPc
    <2>3. LeftInChain' = (reps - 1) * PerBlock + 1
      BY <2>1 DEF LeftInChain, PerBlock
    <2>4. (reps - 1) * PerBlock \in Nat
      <3>1. reps > 0 /\ reps \in 0..MaxChain
        BY <1>1, <2>1 DEF Base, TypeOK, PlaceOK, InBlockPc
      <3>. QED BY <3>1, Costs
    <2>5. LeftInChain' < LeftInChain /\ LeftInChain' \in Nat
      BY <2>2, <2>3, <2>4
    <2>6. PerCleanup \in Nat
      BY Costs
    <2>7. LeftInChain' + rest + PerCleanup < LeftInChain + rest + PerCleanup
      <3>1. rest \in Int /\ LeftInChain \in Nat
        BY <1>2
      <3>. HIDE DEF rest
      <3>. QED BY <2>5, <2>6, <3>1, LessInSum
    <2>. QED BY <1>2, <1>3, <2>7
  <1>. QED BY <1>4, <1>5

\* main's loop goes one chain further, or ends.
LEMMA MainLoop ==
  ASSUME Base, Base', BeginChain \/ ChainDone \/ EndIterations
  PROVE  LeftOfRun' < LeftOfRun
  <1>. DEFINE rest == (NumIterations - iter - 1) * PerChain
  <1>1. mode = "chain" /\ pc \in {"iterate", "chain"}
    BY DEF BeginChain, ChainDone, EndIterations, Base, PlaceOK
  <1>2. LeftOfRun = LeftInChain + rest + PerCleanup /\ rest \in Int
        /\ LeftInChain + rest \in Nat /\ LeftInChain \in Nat
    BY <1>1, ChainCost DEF InBlockPc
  <1>3. CASE BeginChain
    <2>1. pc = "iterate" /\ pc' = "chain" /\ mode' = "chain" /\ iter' = iter
          /\ reps' \in 1..MaxChain
      BY <1>1, <1>3 DEF BeginChain
    <2>2. LeftInChain = PerChain /\ LeftInChain' = reps' * PerBlock + 1
      BY <2>1 DEF LeftInChain, PerChain, PerBlock
    <2>3. LeftOfRun' = LeftInChain' + rest + PerCleanup
      BY <2>1 DEF LeftOfRun, PerChain, PerCleanup, PerBlock
    <2>4. reps' * PerBlock \in Nat /\ reps' * PerBlock + 2 <= PerChain
      <3>1. reps' \in 0..MaxChain
        BY <2>1, FsTestAssumption
      <3>. QED BY <3>1, Costs
    <2>. HIDE DEF rest
    <2>. QED BY <1>2, <2>2, <2>3, <2>4, Costs
  <1>4. CASE ChainDone
    <2>1. pc = "chain" /\ reps = 0 /\ pc' = "iterate" /\ mode' = "chain" /\ iter' = iter + 1
      BY <1>1, <1>4 DEF ChainDone
    <2>2. LeftInChain = 0 * PerBlock + 1 /\ LeftInChain' = PerChain
      BY <2>1 DEF LeftInChain, PerChain, PerBlock
    <2>3. LeftOfRun' = LeftInChain' + (NumIterations - (iter + 1) - 1) * PerChain + PerCleanup
      BY <2>1 DEF LeftOfRun, PerChain, PerCleanup, PerBlock
    <2>4. (NumIterations - (iter + 1) - 1) * PerChain = rest - PerChain
      <3>1. iter + 1 \in 0..NumIterations
            /\ NumIterations - (iter + 1) = NumIterations - iter - 1
        BY <2>1, FsTestAssumption DEF Base, TypeOK, PlaceOK
      <3>. QED BY <3>1, Costs
    <2>5. 0 * PerBlock = 0
      BY Costs
    <2>. HIDE DEF rest
    <2>. QED BY <1>2, <2>2, <2>3, <2>4, <2>5, Costs
  <1>5. CASE EndIterations
    <2>1. pc' = "cleanup" /\ mode' = "clean" /\ pos' = 0
      BY <1>5 DEF EndIterations, EnterCleanup
    <2>2. LeftOfRun' = (Coverage(Size) - 0) * PerBlock + 1
      BY <2>1 DEF LeftOfRun, LeftInCleanup, PerBlock
    <2>3. Coverage(Size) \in 0..Coverage(Size) /\ Coverage(Size) - 0 = Coverage(Size)
      BY CoverageBounds
    <2>4. Coverage(Size) * PerBlock \in Nat /\ Coverage(Size) * PerBlock + 2 <= PerCleanup
      BY <2>3, Costs
    <2>. HIDE DEF rest
    <2>. QED BY <1>2, <2>2, <2>3, <2>4, Costs
  <1>. QED BY <1>3, <1>4, <1>5

\* A signal or a flipped byte leaves the program where it is.
LEMMA Elsewhere ==
  ASSUME Base, pc' = pc, UNCHANGED <<mode, pos, len, done, reps, iter>>
  PROVE  LeftOfRun' = LeftOfRun
  BY DEF LeftOfRun, LeftInCleanup, LeftInChain, LeftInBlock, PerBlock, PerChain,
         PerCleanup

\* Whatever the file system, the random source and the user do, the calls that
\* are left are a natural number that every call makes smaller: no run is longer
\* than this number in its first state (fstest.c:77-103, 118-138, 280, 337-353).
THEOREM EveryCallCountsHolds == Spec => EveryCallCounts
  <1>1. ASSUME Base, Base', Next
        PROVE  Left' \in Nat /\ Left' < Left
    <2>. USE FsTestAssumption
    <2>1. /\ flips \in 0..MaxFlips /\ interrupted \in 0..2
          /\ flips' \in 0..MaxFlips /\ interrupted' \in 0..2
      BY <1>1 DEF Base, TypeOK
    <2>2. pc \notin Finished
      BY <1>1 DEF Next, Program, Interrupt, Flip, Finished, ReadChunk, ReadEof,
         ReadDone, ReadFails, WriteChunk, WriteNothing, WriteDone, WriteFails,
         XorOut, XorIn, XorOutDone, XorInDone, BeginPreread, CleanupBlock,
         PrereadDone, Verdict, BeginChain, ChainBlock, ChainDone, RandomFails,
         EndIterations
    <2>3. LeftOfRun \in Nat \ {0}
      BY <1>1, <2>2, RunCost
    <2>4. Left = LeftOfRun + (MaxFlips - flips) + (2 - interrupted)
      BY <2>2 DEF Left
    <2>5. CASE pc' \in Finished
      <3>1. Left' = 0
        BY <2>5 DEF Left, Finished
      <3>. QED BY <2>1, <2>3, <2>4, <3>1
    <2>6. CASE pc' \notin Finished
      <3>1. Left' = LeftOfRun' + (MaxFlips - flips') + (2 - interrupted')
        BY <2>6 DEF Left, Finished
      <3>2. LeftOfRun' \in Nat
        BY <1>1, <2>6, RunCostNext DEF Finished
      <3>3. CASE Program
        <4>1. flips' = flips /\ interrupted' = interrupted
          BY <3>3 DEF Program, ReadChunk, ReadEof, ReadDone, ReadFails, WriteChunk,
             WriteNothing, WriteDone, WriteFails, XorOut, XorIn, Register,
             XorOutDone, XorInDone, BeginPreread, EnterCleanup, CleanupBlock,
             PrereadDone, Verdict, BeginChain, ChainBlock, ChainDone, RandomFails,
             EndIterations, envVars
        <4>2. ~WriteFails /\ ~Verdict /\ ~RandomFails
              /\ (ReadFails => mode = "preread")
          BY <2>6 DEF WriteFails, Verdict, RandomFails, ReadFails, Finished
        <4>3. LeftOfRun' < LeftOfRun
          <5>1. CASE \/ ReadChunk \/ ReadEof \/ ReadDone \/ WriteChunk
                     \/ WriteNothing \/ WriteDone \/ XorOut \/ XorIn
                     \/ (XorOutDone /\ mode = "chain")
            BY <1>1, <5>1, BlockLoops
          <5>2. CASE BeginPreread \/ CleanupBlock \/ (XorOutDone /\ mode # "chain")
            BY <1>1, <5>2, CleanupLoop
          <5>3. CASE PrereadDone \/ (ReadFails /\ mode = "preread")
            BY <1>1, <5>3, PrereadEnds
          <5>4. CASE ChainBlock \/ XorInDone
            BY <1>1, <5>4, ChainLoop
          <5>5. CASE BeginChain \/ ChainDone \/ EndIterations
            BY <1>1, <5>5, MainLoop
          <5>. QED BY <3>3, <4>2, <5>1, <5>2, <5>3, <5>4, <5>5 DEF Program
        <4>4. Left' = LeftOfRun' + (MaxFlips - flips) + (2 - interrupted)
          BY <3>1, <4>1
        <4>5. MaxFlips - flips \in Nat /\ 2 - interrupted \in Nat
          BY <2>1
        <4>6. Left' < Left
          BY <2>3, <2>4, <3>2, <4>3, <4>4, <4>5, LessInSum
        <4>7. Left' \in Nat
          BY <3>2, <4>4, <4>5
        <4>. QED BY <4>6, <4>7
      <3>4. CASE Interrupt
        <4>1. /\ interrupted' = interrupted + 1 /\ flips' = flips /\ pc' = pc
              /\ UNCHANGED <<mode, pos, len, done, reps, iter>>
          BY <2>6, <3>4 DEF Interrupt, Finished, blockVars, loopVars
        <4>2. LeftOfRun' = LeftOfRun
          BY <1>1, <4>1, Elsewhere
        <4>. QED BY <2>1, <2>3, <2>4, <3>1, <4>1, <4>2
      <3>5. CASE Flip
        <4>1. /\ interrupted' = interrupted /\ flips' = flips + 1 /\ pc' = pc
              /\ UNCHANGED <<mode, pos, len, done, reps, iter>>
          BY <3>5 DEF Flip, blockVars, loopVars
        <4>2. LeftOfRun' = LeftOfRun
          BY <1>1, <4>1, Elsewhere
        <4>. QED BY <2>1, <2>3, <2>4, <3>1, <4>1, <4>2
      <3>. QED BY <1>1, <3>3, <3>4, <3>5 DEF Next
    <2>. QED BY <2>5, <2>6
  <1>2. IInv => Base
    BY DEF IInv, Base
  <1>3. Base /\ Base' /\ [Next]_vars => [Left' \in Nat /\ Left' < Left]_vars
    BY <1>1
  <1>. QED BY <1>2, <1>3, InductiveInvariant, PTL DEF Spec, EveryCallCounts
==============================================================================
