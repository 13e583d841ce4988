------------------------------ MODULE Bpg2hevc ------------------------------
(***************************************************************************)
(* bpg2hevc.c: the header of a BPG file is read (numbers in groups of bits *)
(* behind continuation bits), written as the payload of a NAL unit with    *)
(* emulation prevention bytes, and followed by the rest of the file.       *)
(*                                                                         *)
(* The sizes of bytes, groups and numbers are constants.  A file begins    *)
(* after the signature and the two bytes of flags; one that ends in the    *)
(* middle leaves what was to be read as it was, that is, anything.         *)
(***************************************************************************)
EXTENDS Integers, Sequences, FiniteSets

CONSTANTS
  ByteSize,  \* values of a byte (256)
  Group,     \* values of a group of ue7_32 (128)
  MaxGroups, \* groups ue7_32 reads at most (5)
  Word,      \* values of an unsigned int (2^32)
  Shifts,    \* what the shifts that split an int divide by (2^24, 2^16, 2^8, 1)
  Files,     \* what stdin may hold, and what was meant if it is whole
  Flags      \* what the flags may say: [magic, alpha, pixfmt, bit_depth]

Byte == 0..(ByteSize - 1)
Prevent == 3             \* emulation_prevention_three_byte
Stop == ByteSize \div 2  \* 0x80
HeaderSize == 2 * Len(Shifts) + 2

\* What a group is worth that has k groups behind it.
Power[k \in Nat] == IF k = 0 THEN 1 ELSE Group * Power[k - 1]

\* The bytes of s behind p and up to e say the number n: a group each, the
\* highest first, and a continuation bit in all of them but the last.
Says(s, p, e, n) ==
  /\ p < e /\ e <= p + MaxGroups /\ n < Power[e - p]
  /\ \A k \in (p + 1)..e : /\ s[k] % Group = (n \div Power[e - k]) % Group
                           /\ s[k] < Group <=> k = e

\* Where the j-th number of a file begins.
Start(f, j) == IF j = 1 THEN 0 ELSE f.ends[j - 1]

\* A whole file holds four numbers behind one another (width, height, datalen
\* and the length of the data of the header) and then this data.
HoldsAll(f) ==
  /\ f.numbers \in [1..4 -> 0..(Word - 1)] /\ f.ends \in [1..4 -> 1..Len(f.bytes)]
  /\ \A j \in 1..4 : Says(f.bytes, Start(f, j), f.ends[j], f.numbers[j])
  /\ f.data \in Seq(Byte) /\ Len(f.data) = f.numbers[4]
  /\ f.ends[4] + Len(f.data) <= Len(f.bytes)
  /\ \A k \in 1..Len(f.data) : f.bytes[f.ends[4] + k] = f.data[k]

ASSUME EscapeAssumption ==
  /\ ByteSize \in Nat /\ Stop \in Byte /\ Prevent < Stop
  /\ Group \in Nat \ {0} /\ Group < ByteSize /\ MaxGroups \in Nat
  /\ Word \in Nat \ {0} /\ Shifts \in Seq(Nat \ {0}) /\ Shifts # <<>>
  /\ \A f \in Files : f.bytes \in Seq(Byte) /\ (f.whole => HoldsAll(f))
  /\ \A f \in Flags : f.pixfmt \in Byte /\ f.bit_depth \in Byte

VARIABLES
  pc,      \* the field to read next, "build", "escape", "write" or "exit"
  file,    \* [bytes, whole, numbers, ends, data]: stdin from the beginning
  pos,     \* how much of it was read
  flags,
  fields,  \* the numbers read so far
  buffer, groups, \* the number ue7_32 is reading, and the bytes of it
  msps,    \* msps_buf
  i,       \* the first byte of msps not yet escaped
  buf,     \* buf behind the NAL header
  stdout

ueVars == <<buffer, groups>>
vars == <<pc, file, pos, flags, fields, ueVars, msps, i, buf, stdout>>

Init ==
  /\ pc = "magic" /\ file \in Files /\ pos = 0 /\ flags \in Flags
  /\ fields = <<>> /\ buffer = 0 /\ groups = 0
  /\ msps = <<>> /\ i = 1 /\ buf = <<>> /\ stdout = <<>>

------------------------------------------------------------------------------
(* Reading.                                                                 *)

AtEnd == pos = Len(file.bytes)
Byte1 == file.bytes[pos + 1]

\* Faulty variant: the number is kept in a byte.
ShiftedNarrow(c) == ((buffer * Group) + (c % Group)) % ByteSize

\* Another group comes in from the right, in the width of an unsigned int.
Shifted(c) == ((buffer * Group) + (c % Group)) % Word

\* The signature is checked.
CheckMagic ==
  /\ pc = "magic" /\ pc' = IF flags.magic THEN "fields" ELSE "exit"
  /\ UNCHANGED <<file, pos, flags, fields, ueVars, msps, i, buf, stdout>>

\* ue7_32: a byte with a continuation bit.
ReadGroup ==
  /\ pc = "fields" /\ ~AtEnd /\ Byte1 >= Group /\ groups + 1 < MaxGroups
  /\ buffer' = Shifted(Byte1) /\ groups' = groups + 1 /\ pos' = pos + 1
  /\ UNCHANGED <<pc, file, flags, fields, msps, i, buf, stdout>>

\* ue7_32 returns width, height or datalen, and then, unless there is alpha, len.
ReadField ==
  /\ pc = "fields"
  /\ \/ AtEnd /\ fields' = Append(fields, buffer) /\ UNCHANGED pos
     \/ /\ ~AtEnd /\ (Byte1 < Group \/ groups + 1 = MaxGroups)
        /\ fields' = Append(fields, Shifted(Byte1)) /\ pos' = pos + 1
  /\ buffer' = 0 /\ groups' = 0
  /\ pc' = CASE Len(fields) = 2 /\ flags.alpha -> "exit"
              [] Len(fields) = 3 -> "build"
              [] OTHER -> "fields"
  /\ UNCHANGED <<file, flags, msps, i, buf, stdout>>

\* The bytes of an int, the highest first.
Bytes(n) == [k \in 1..Len(Shifts) |-> (n \div Shifts[k]) % ByteSize]

Header ==
  <<flags.pixfmt>> \o Bytes(fields[1]) \o Bytes(fields[2]) \o <<flags.bit_depth>>

\* What fread leaves in the rest of msps_buf: anything where the file is over.
Filled(len) ==
  {data \in [1..len -> Byte] :
     \A k \in 1..len : pos + k <= Len(file.bytes) => data[k] = file.bytes[pos + k]}

BuildMsps ==
  /\ pc = "build" /\ pc' = "escape"
  /\ \E data \in Filled(fields[4]) : msps' = Header \o data
  /\ pos' = IF pos + fields[4] < Len(file.bytes) THEN pos + fields[4]
            ELSE Len(file.bytes)
  /\ UNCHANGED <<file, flags, fields, ueVars, i, buf, stdout>>

------------------------------------------------------------------------------
(* Writing.                                                                 *)

\* Faulty variant: two zeros are escaped before a third one only.
PairBeforeZero ==
  i + 2 <= Len(msps) /\ msps[i] = 0 /\ msps[i + 1] = 0 /\ msps[i + 2] = 0

\* Two zeros follow.
Pair == i < Len(msps) /\ msps[i] = 0 /\ msps[i + 1] = 0

\* Faulty variant: the second zero is copied again.
EscapePairOnce ==
  /\ pc = "escape" /\ Pair
  /\ buf' = buf \o <<0, 0, Prevent>> /\ i' = i + 1
  /\ UNCHANGED <<pc, file, pos, flags, fields, ueVars, msps, stdout>>

EscapePair ==
  /\ pc = "escape" /\ Pair
  /\ buf' = buf \o <<0, 0, Prevent>> /\ i' = i + 2
  /\ UNCHANGED <<pc, file, pos, flags, fields, ueVars, msps, stdout>>

CopyByte ==
  /\ pc = "escape" /\ ~Pair /\ i <= Len(msps)
  /\ buf' = Append(buf, msps[i]) /\ i' = i + 1
  /\ UNCHANGED <<pc, file, pos, flags, fields, ueVars, msps, stdout>>

EndsInZero(s) == s = <<>> \/ s[Len(s)] = 0

\* The last byte cannot be 0.
Finish ==
  /\ pc = "escape" /\ i > Len(msps) /\ pc' = "write"
  /\ buf' = IF EndsInZero(buf) THEN Append(buf, Stop) ELSE buf
  /\ UNCHANGED <<file, pos, flags, fields, ueVars, msps, i, stdout>>

StartCode == <<0, 0, 0, 1>>
NalHeader == <<96 % ByteSize, 1>>

\* The NAL unit, a start code, and the rest of the file as it is.
WriteAll ==
  /\ pc = "write" /\ pc' = "exit"
  /\ stdout' = StartCode \o NalHeader \o buf \o StartCode
               \o SubSeq(file.bytes, pos + 1, Len(file.bytes))
  /\ pos' = Len(file.bytes)
  /\ UNCHANGED <<file, flags, fields, ueVars, msps, i, buf>>

Next ==
  \/ CheckMagic \/ ReadGroup \/ ReadField \/ BuildMsps
  \/ EscapePair \/ CopyByte \/ Finish \/ WriteAll

Spec == Init /\ [][Next]_vars

------------------------------------------------------------------------------
\* Where a start code, or what must not stand in a payload either, begins.
Emulates(s, k) == s[k] = 0 /\ s[k + 1] = 0 /\ s[k + 2] < Prevent

\* Every field is read from where the one before it ended: msps holds the
\* width, the height and the data that were meant (bpg2hevc.c:9-21, 117-119,
\* 35-51), however their numbers were padded.
HeaderRight ==
  pc \in {"escape", "write"} /\ file.whole =>
    msps = <<flags.pixfmt>> \o Bytes(file.numbers[1]) \o Bytes(file.numbers[2])
             \o <<flags.bit_depth>> \o file.data

\* bpg2hevc.c:66, "the correct escape codes", and 78, "the last byte cannot be
\* 0": no payload contains a start code or the beginning of one.
NoStartCode ==
  pc = "write" => /\ \A k \in 1..(Len(buf) - 2) : ~Emulates(buf, k)
                  /\ ~EndsInZero(buf)

\* The bytes of a payload a decoder keeps: all but the prevention bytes.
Kept(s) ==
  {k \in 1..Len(s) : ~(k > 2 /\ s[k] = Prevent /\ s[k - 1] = 0 /\ s[k - 2] = 0)}

\* How many of them come up to position k.
Rank(s, k) == Cardinality(Kept(s) \cap (1..k))

\* What it makes of the payload: the kept bytes, in their order.
Unescape(s) ==
  [m \in 1..Cardinality(Kept(s)) |-> s[CHOOSE k \in Kept(s) : Rank(s, k) = m]]

\* Escaping loses nothing and invents nothing but the last byte: a decoder
\* gets back the bytes of the header (bpg2hevc.c:68-80).
RoundTrip ==
  pc = "write" => Unescape(buf) \in {msps, Append(msps, Stop)}

\* The buffer is long enough (bpg2hevc.c:54): the NAL header, its two bytes and
\* twice the bytes of msps.
InBuffer == pc \in {"escape", "write"} => Len(buf) <= 2 * Len(msps)

ReadingOK ==
  /\ pc \in {"magic", "fields", "build", "escape", "write", "exit"}
  /\ file.bytes \in Seq(Byte) /\ pos \in 0..Len(file.bytes)
  /\ flags.pixfmt \in Byte /\ flags.bit_depth \in Byte
  /\ fields \in Seq(0..(Word - 1)) /\ buffer \in 0..(Word - 1)
  /\ groups \in 0..MaxGroups
  /\ pc \in {"magic", "fields"} => Len(fields) < 4
  /\ pc = "build" => Len(fields) = 4

\* A zero at the end of what is written so far stands alone, and no zero follows.
LoopOK ==
  /\ msps \in Seq(Byte) /\ buf \in Seq(Byte) /\ i \in 1..(Len(msps) + 1)
  /\ pc \in {"magic", "fields", "build"} => buf = <<>> /\ i = 1
  /\ pc \in {"escape", "write"} => Len(msps) >= HeaderSize
  /\ pc = "escape" =>
       /\ 2 * Len(buf) <= 3 * (i - 1)
       /\ \A k \in 1..(Len(buf) - 2) : ~Emulates(buf, k)
       /\ (Len(buf) > 0 /\ buf[Len(buf)] = 0) =>
            /\ Len(buf) > 1 => buf[Len(buf) - 1] # 0
            /\ i <= Len(msps) => msps[i] # 0

\* The inductive invariant.
EscapeInv == ReadingOK /\ LoopOK /\ NoStartCode /\ InBuffer
==============================================================================
