------------------------------- MODULE XorHash -------------------------------
(***************************************************************************)
(* The checker state of fstest.c: nine XOR sums of the bytes of a file.    *)
(* Sum k < 8 collects the bytes whose position has bit k set and sum 8     *)
(* collects every byte.  A byte is the set of its 1 bits, so that XOR is   *)
(* the symmetric difference; the bits of a byte never mix.                 *)
(***************************************************************************)
EXTENDS Integers, FiniteSets

CONSTANTS
  ByteBits,   \* the bits of a byte (8 in the code; one already shows parity)
  PosBits     \* how many low bits of a position have a sum of their own (8)

ASSUME XorHashAssumption == PosBits \in Nat

Byte == SUBSET ByteBits
Sums == 0..PosBits

Xor(a, b) == (a \ b) \cup (b \ a)

\* Faulty variant: update_xor without line 68, the sum over all bytes.
CoversNoGlobalSum(k, p) == (p \div 2^k) % 2 = 1

\* Does sum k include the byte at position p?  The last sum includes all.
Covers(k, p) == k = PosBits \/ (p \div 2^k) % 2 = 1

ZeroSums == [k \in Sums |-> {}]

UpdateXor(s, v, p) ==
  [k \in Sums |-> IF Covers(k, p) THEN Xor(s[k], v) ELSE s[k]]

\* Reference definition: bit b of sum k is the parity of the number of
\* positions of f that sum k includes and whose byte has bit b.
Ones(f, k, b) == {p \in DOMAIN f : Covers(k, p) /\ b \in f[p]}
HashOf(f) ==
  [k \in Sums |-> {b \in ByteBits : Cardinality(Ones(f, k, b)) % 2 = 1}]
==============================================================================
