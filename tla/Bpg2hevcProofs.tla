--------------------------- MODULE Bpg2hevcProofs ----------------------------
(***************************************************************************)
(* What Bpg2hevc keeps for every file, every size of bytes, groups and     *)
(* numbers: the numbers of a file are read as they are meant, padded or    *)
(* not, no payload contains the beginning of a start code, none is longer  *)
(* than the buffer it is written to, and a decoder gets the header back    *)
(* from it.                                                                *)
(***************************************************************************)
EXTENDS Bpg2hevc, SequenceTheorems, FiniteSetTheorems, WellFoundedInduction,
        TLAPS

LEMMA ByteFacts ==
  /\ ByteSize \in Nat /\ Byte \subseteq Nat /\ 0 \in Byte
  /\ Prevent \in Byte /\ Stop \in Byte /\ Stop > Prevent
PROOF BY EscapeAssumption DEF Byte, Stop, Prevent

LEMMA SizeFacts ==
  /\ Len(Shifts) \in Nat /\ Len(Shifts) >= 1
  /\ HeaderSize \in Nat /\ HeaderSize >= 4
PROOF
<1>1. Len(Shifts) \in Nat /\ Len(Shifts) >= 1
  BY EscapeAssumption
<1> QED BY <1>1 DEF HeaderSize

\* What one byte, and what an escaped pair, puts behind a sequence.
LEMMA OneMore ==
  ASSUME NEW s \in Seq(Byte), NEW b \in Byte
  PROVE  /\ Append(s, b) \in Seq(Byte) /\ Len(Append(s, b)) = Len(s) + 1
         /\ \A k \in 1..Len(s) : Append(s, b)[k] = s[k]
         /\ Append(s, b)[Len(s) + 1] = b
PROOF OBVIOUS

\* Two sequences behind one another.
LEMMA Behind ==
  ASSUME NEW s \in Seq(Byte), NEW t \in Seq(Byte)
  PROVE  s \o t \in Seq(Byte) /\ Len(s \o t) = Len(s) + Len(t)
PROOF BY ConcatProperties

LEMMA ThreeMore ==
  ASSUME NEW s \in Seq(Byte), NEW a \in Byte, NEW b \in Byte, NEW c \in Byte
  PROVE  LET t == s \o <<a, b, c>>
         IN  /\ t \in Seq(Byte) /\ Len(t) = Len(s) + 3
             /\ \A k \in 1..Len(s) : t[k] = s[k]
             /\ t[Len(s) + 1] = a /\ t[Len(s) + 2] = b /\ t[Len(s) + 3] = c
PROOF
<1> DEFINE abc == <<a, b, c>>
<1>1. /\ abc \in Seq(Byte) /\ Len(abc) = 3
      /\ abc[1] = a /\ abc[2] = b /\ abc[3] = c
  OBVIOUS
<1> HIDE DEF abc
<1>2. s \o abc \in Seq(Byte)
  BY <1>1
<1>4. Len(s) \in Nat
  OBVIOUS
<1>3. /\ Len(s \o abc) = Len(s) + 3
      /\ \A k \in 1..(Len(s) + 3) :
           (s \o abc)[k] = IF k <= Len(s) THEN s[k] ELSE abc[k - Len(s)]
  <2>1. /\ Len(s \o abc) = Len(s) + Len(abc)
        /\ \A k \in 1..(Len(s) + Len(abc)) :
             (s \o abc)[k] = IF k <= Len(s) THEN s[k] ELSE abc[k - Len(s)]
    BY <1>1, ConcatProperties
  <2> QED BY <2>1, <1>1
<1>5. \A k \in 1..Len(s) : (s \o abc)[k] = s[k]
  BY <1>3, <1>4
<1>6. (s \o abc)[Len(s) + 1] = a
  BY <1>1, <1>3, <1>4
<1>7. (s \o abc)[Len(s) + 2] = b
  BY <1>1, <1>3, <1>4
<1>8. (s \o abc)[Len(s) + 3] = c
  BY <1>1, <1>3, <1>4
<1> QED BY <1>2, <1>3, <1>5, <1>6, <1>7, <1>8 DEF abc

LEMMA ThreeAppended ==
  ASSUME NEW s \in Seq(Byte), NEW a \in Byte, NEW b \in Byte, NEW c \in Byte
  PROVE  s \o <<a, b, c>> = Append(Append(Append(s, a), b), c)
PROOF
<1> DEFINE t == s \o <<a, b, c>>
           one == Append(s, a)  two == Append(one, b)  three == Append(two, c)
           n == Len(s)
<1>1. /\ t \in Seq(Byte) /\ Len(t) = n + 3 /\ n \in Nat
      /\ \A k \in 1..n : t[k] = s[k]
      /\ t[n + 1] = a /\ t[n + 2] = b /\ t[n + 3] = c
  BY ThreeMore
<1>2. /\ one \in Seq(Byte) /\ Len(one) = n + 1
      /\ \A k \in 1..n : one[k] = s[k]
      /\ one[n + 1] = a
  BY OneMore
<1>3. /\ two \in Seq(Byte) /\ Len(two) = Len(one) + 1
      /\ \A k \in 1..Len(one) : two[k] = one[k]
      /\ two[Len(one) + 1] = b
  BY <1>2, OneMore
<1>4. /\ three \in Seq(Byte) /\ Len(three) = Len(two) + 1
      /\ \A k \in 1..Len(two) : three[k] = two[k]
      /\ three[Len(two) + 1] = c
  BY <1>3, OneMore
<1> HIDE DEF t, one, two, three, n
<1>5. Len(two) = n + 2 /\ Len(three) = n + 3
  BY <1>1, <1>2, <1>3, <1>4
<1>6. ASSUME NEW k \in 1..(n + 3) PROVE t[k] = three[k]
  <2>1. CASE k \in 1..n
    <3>1. k \in 1..Len(one) /\ k \in 1..Len(two)
      BY <1>1, <1>2, <1>5, <2>1
    <3> QED BY <1>1, <1>2, <1>3, <1>4, <2>1, <3>1
  <2>2. CASE k = n + 1
    <3>1. k \in 1..Len(one) /\ k \in 1..Len(two)
      BY <1>1, <1>2, <1>5, <2>2
    <3> QED BY <1>1, <1>2, <1>3, <1>4, <2>2, <3>1
  <2>3. CASE k = n + 2
    <3>1. k \in 1..Len(two) /\ k = Len(one) + 1
      BY <1>1, <1>2, <1>5, <2>3
    <3> QED BY <1>1, <1>3, <1>4, <2>3, <3>1
  <2>4. CASE k = n + 3
    <3>1. k = Len(two) + 1
      BY <1>1, <1>5, <2>4
    <3> QED BY <1>1, <1>4, <2>4, <3>1
  <2> QED BY <1>1, <2>1, <2>2, <2>3, <2>4
<1>7. t = three
  BY <1>1, <1>4, <1>5, <1>6, SeqEqual
<1> QED BY <1>7 DEF t, one, two, three

\* The bytes of a number, and the header they are part of.
LEMMA BytesType ==
  ASSUME NEW n \in Nat
  PROVE  Bytes(n) \in Seq(Byte) /\ Len(Bytes(n)) = Len(Shifts)
PROOF
<1>1. ASSUME NEW k \in 1..Len(Shifts) PROVE (n \div Shifts[k]) % ByteSize \in Byte
  <2>1. Shifts[k] \in Nat \ {0}
    BY EscapeAssumption
  <2>2. n \div Shifts[k] \in Nat
    BY <2>1
  <2>3. ByteSize \in Nat /\ ByteSize > 0
    BY ByteFacts DEF Byte
  <2> QED BY <2>2, <2>3 DEF Byte
<1>2. Bytes(n) \in [1..Len(Shifts) -> Byte]
  BY <1>1 DEF Bytes
<1> DEFINE b == Bytes(n)
<1>3. b \in [1..Len(Shifts) -> Byte] /\ Len(Shifts) \in Nat
  BY <1>2, SizeFacts
<1> HIDE DEF b
<1>4. b \in Seq(Byte) /\ Len(b) = Len(Shifts)
  BY <1>3, SeqDef
<1> QED BY <1>4 DEF b

LEMMA HeaderType ==
  ASSUME fields[1] \in Nat, fields[2] \in Nat,
         flags.pixfmt \in Byte, flags.bit_depth \in Byte
  PROVE  Header \in Seq(Byte) /\ Len(Header) = HeaderSize
PROOF
<1> DEFINE w == Bytes(fields[1])  h == Bytes(fields[2])
           p == <<flags.pixfmt>>  b == <<flags.bit_depth>>
<1>1. w \in Seq(Byte) /\ h \in Seq(Byte)
      /\ Len(w) = Len(Shifts) /\ Len(h) = Len(Shifts)
  BY BytesType
<1>2. p \in Seq(Byte) /\ b \in Seq(Byte) /\ Len(p) = 1 /\ Len(b) = 1
  OBVIOUS
<1> HIDE DEF w, h, p, b
<1> DEFINE pw == p \o w  pwh == pw \o h  pwhb == pwh \o b
<1>3. pw \in Seq(Byte) /\ Len(pw) = 1 + Len(Shifts)
  <2>1. pw \in Seq(Byte) /\ Len(pw) = Len(p) + Len(w)
    BY <1>1, <1>2, Behind
  <2> HIDE DEF pw
  <2> QED BY <2>1, <1>1, <1>2
<1> HIDE DEF pw
<1>4. pwh \in Seq(Byte) /\ Len(pwh) = (1 + Len(Shifts)) + Len(Shifts)
  <2>1. pwh \in Seq(Byte) /\ Len(pwh) = Len(pw) + Len(h)
    BY <1>1, <1>3, Behind
  <2> HIDE DEF pwh
  <2> QED BY <2>1, <1>1, <1>3
<1> HIDE DEF pwh
<1>5. pwhb \in Seq(Byte) /\ Len(pwhb) = ((1 + Len(Shifts)) + Len(Shifts)) + 1
  <2>1. pwhb \in Seq(Byte) /\ Len(pwhb) = Len(pwh) + Len(b)
    BY <1>2, <1>4, Behind
  <2> HIDE DEF pwhb
  <2> QED BY <2>1, <1>2, <1>4
<1> HIDE DEF pwhb
<1>6. Header = pwhb
  BY DEF Header, w, h, p, b, pw, pwh, pwhb
<1> QED BY <1>5, <1>6, SizeFacts DEF HeaderSize

------------------------------------------------------------------------------
(* One lemma for each action.                                               *)

LEMMA InitHolds == Init => EscapeInv
PROOF
<1> SUFFICES ASSUME Init PROVE EscapeInv
  OBVIOUS
<1>1. /\ file.bytes \in Seq(Byte) /\ Len(file.bytes) \in Nat
      /\ flags.pixfmt \in Byte /\ flags.bit_depth \in Byte
  BY EscapeAssumption DEF Init
<1>2. ReadingOK
  BY <1>1, EscapeAssumption DEF Init, ReadingOK
<1>3. LoopOK /\ NoStartCode /\ InBuffer
  BY DEF Init, LoopOK, NoStartCode, InBuffer
<1> QED BY <1>2, <1>3 DEF EscapeInv

\* What is shifted in stays in the width of a number.
LEMMA ShiftedType ==
  ASSUME ReadingOK, ~AtEnd
  PROVE  Shifted(Byte1) \in 0..(Word - 1) /\ pos + 1 \in 0..Len(file.bytes)
PROOF
<1> DEFINE b == file.bytes
<1>0. b \in Seq(Byte) /\ Len(b) \in Nat /\ pos + 1 \in 1..Len(b)
  BY DEF ReadingOK, AtEnd
<1> HIDE DEF b
<1>1. b[pos + 1] \in Byte /\ pos + 1 \in 0..Len(b)
  BY <1>0, ElementOfSeq
<1> USE DEF b
<1>1a. Byte1 \in Nat
  BY <1>1, ByteFacts DEF Byte1
<1>2. Group \in Nat \ {0} /\ Word \in Nat \ {0} /\ buffer \in Nat
  BY EscapeAssumption DEF ReadingOK
<1>3. Byte1 % Group \in Nat
  BY <1>1a, <1>2
<1>4. buffer * Group \in Nat
  BY <1>2
<1>5. (buffer * Group) + (Byte1 % Group) \in Nat
  BY <1>3, <1>4
<1> QED BY <1>1, <1>2, <1>5 DEF Shifted

LEMMA ReadingHolds ==
  ASSUME EscapeInv, CheckMagic \/ ReadGroup \/ ReadField
  PROVE  EscapeInv'
PROOF
<1> USE DEF EscapeInv
<1>1. /\ pc \in {"magic", "fields"} /\ pc' \in {"exit", "fields", "build"}
      /\ UNCHANGED <<file, flags, msps, i, buf>>
  BY DEF CheckMagic, ReadGroup, ReadField
<1>2. (LoopOK /\ NoStartCode /\ InBuffer)'
  BY <1>1 DEF LoopOK, NoStartCode, InBuffer
<1>3. CASE CheckMagic
  <2>1. ReadingOK'
    BY <1>3 DEF CheckMagic, ReadingOK, ueVars
  <2> QED BY <1>2, <2>1
<1>4. CASE ReadGroup
  <2>1. Shifted(Byte1) \in 0..(Word - 1) /\ pos + 1 \in 0..Len(file.bytes)
    BY <1>4, ShiftedType DEF ReadGroup
  <2>2. groups + 1 \in 0..MaxGroups
    BY <1>4, EscapeAssumption DEF ReadGroup, ReadingOK
  <2>3. ReadingOK'
    BY <1>4, <2>1, <2>2 DEF ReadGroup, ReadingOK
  <2> QED BY <1>2, <2>3
<1>5. CASE ReadField
  <2>1. /\ pc = "fields" /\ buffer' = 0 /\ groups' = 0
        /\ UNCHANGED <<file, flags>>
    BY <1>5 DEF ReadField
  <2>2. PICK n \in 0..(Word - 1) : fields' = Append(fields, n)
    BY <1>5, ShiftedType DEF ReadField, ReadingOK
  <2>3. pos' \in 0..Len(file.bytes)
    BY <1>5, ShiftedType DEF ReadField, ReadingOK
  <2>4. /\ fields' \in Seq(0..(Word - 1)) /\ Len(fields') = Len(fields) + 1
        /\ Len(fields) \in Nat /\ Len(fields) < 4
    BY <2>1, <2>2 DEF ReadingOK
  <2>5. /\ pc' \in {"fields", "build", "exit"}
        /\ pc' = "build" => Len(fields) = 3
        /\ pc' = "fields" => Len(fields) # 3
    BY <1>5, <2>4 DEF ReadField
  <2>6. 0 \in 0..(Word - 1) /\ 0 \in 0..MaxGroups
    BY EscapeAssumption
  <2>7. /\ pc' = "fields" => Len(fields') < 4
        /\ pc' = "build" => Len(fields') = 4
    <3> DEFINE n0 == Len(fields)  n1 == Len(fields')
    <3>1. n0 \in Nat /\ n0 < 4 /\ n1 = n0 + 1
      BY <2>4
    <3> HIDE DEF n0, n1
    <3>2. (n0 # 3 => n1 < 4) /\ (n0 = 3 => n1 = 4)
      BY <3>1
    <3> QED BY <3>2, <2>5 DEF n0, n1
  <2>8. ReadingOK'
    BY <2>1, <2>3, <2>4, <2>5, <2>6, <2>7 DEF ReadingOK
  <2> QED BY <1>2, <2>8
<1> QED BY <1>3, <1>4, <1>5

\* The buffer of the header is filled, with anything where the file is over.
LEMMA BuildMspsHolds ==
  ASSUME EscapeInv, BuildMsps
  PROVE  EscapeInv'
PROOF
<1> USE DEF EscapeInv
<1>1. /\ pc = "build" /\ pc' = "escape"
      /\ UNCHANGED <<file, flags, fields, ueVars, i, buf>>
  BY DEF BuildMsps
<1>2. /\ fields \in Seq(0..(Word - 1)) /\ Len(fields) = 4
      /\ pos \in 0..Len(file.bytes) /\ Len(file.bytes) \in Nat
      /\ flags.pixfmt \in Byte /\ flags.bit_depth \in Byte
  BY <1>1 DEF ReadingOK
<1>3. fields[1] \in Nat /\ fields[2] \in Nat /\ fields[4] \in Nat
  <2>1. Word \in Nat
    BY EscapeAssumption
  <2>2. 0..(Word - 1) \subseteq Nat
    BY <2>1
  <2>3. 1 \in 1..Len(fields) /\ 2 \in 1..Len(fields) /\ 4 \in 1..Len(fields)
    BY <1>2
  <2>4. \A k \in 1..Len(fields) : fields[k] \in 0..(Word - 1)
    BY <1>2, ElementOfSeq
  <2> QED BY <2>2, <2>3, <2>4
<1>4. pos' \in 0..Len(file.bytes)
  BY <1>2, <1>3 DEF BuildMsps
<1>5. ReadingOK'
  BY <1>1, <1>4 DEF ReadingOK, ueVars
<1>6. PICK data \in Filled(fields[4]) : msps' = Header \o data
  BY DEF BuildMsps
<1>7. data \in [1..fields[4] -> Byte]
  BY <1>6 DEF Filled
<1>8. data \in Seq(Byte) /\ Len(data) = fields[4]
  BY <1>3, <1>7, SeqDef
<1>9. Header \in Seq(Byte) /\ Len(Header) = HeaderSize
  BY <1>2, <1>3, HeaderType
<1>10. msps' \in Seq(Byte) /\ Len(msps') = HeaderSize + fields[4]
  BY <1>6, <1>8, <1>9, Behind
<1>11. Len(msps') \in Nat /\ Len(msps') >= HeaderSize /\ HeaderSize >= 4
  BY <1>3, <1>10, SizeFacts
<1>12. buf = <<>> /\ i = 1 /\ Len(buf) = 0 /\ buf \in Seq(Byte)
  BY <1>1 DEF LoopOK
<1>13. LoopOK'
  BY <1>1, <1>10, <1>11, <1>12 DEF LoopOK
<1>14. NoStartCode' /\ InBuffer'
  BY <1>1, <1>11, <1>12 DEF NoStartCode, InBuffer
<1> QED BY <1>5, <1>13, <1>14

\* What the loop of the escape codes starts a step with.
LEMMA LoopFacts ==
  ASSUME EscapeInv, pc = "escape"
  PROVE  /\ msps \in Seq(Byte) /\ Len(msps) \in Nat /\ Len(msps) >= 4
         /\ buf \in Seq(Byte) /\ Len(buf) \in Nat /\ i \in 1..(Len(msps) + 1)
         /\ 2 * Len(buf) <= 3 * (i - 1)
         /\ \A k \in 1..(Len(buf) - 2) : ~Emulates(buf, k)
         /\ Len(buf) > 0 /\ buf[Len(buf)] = 0 =>
              /\ Len(buf) > 1 => buf[Len(buf) - 1] # 0
              /\ i <= Len(msps) => msps[i] # 0
         /\ \A k \in 1..Len(msps) : msps[k] \in Byte
         /\ \A k \in 1..Len(buf) : buf[k] \in Byte
PROOF
<1>1. LoopOK
  BY DEF EscapeInv
<1>2. msps \in Seq(Byte) /\ buf \in Seq(Byte) /\ i \in 1..(Len(msps) + 1)
  BY <1>1 DEF LoopOK
<1>3. Len(msps) >= HeaderSize
  BY <1>1 DEF LoopOK
<1>4. Len(msps) \in Nat /\ Len(buf) \in Nat
  BY <1>2
<1>5. Len(msps) >= 4
  BY <1>3, <1>4, SizeFacts
<1>6. /\ \A k \in 1..Len(msps) : msps[k] \in Byte
      /\ \A k \in 1..Len(buf) : buf[k] \in Byte
  BY <1>2, ElementOfSeq
<1> QED BY <1>1, <1>2, <1>4, <1>5, <1>6 DEF LoopOK

\* A pair of zeros follows and is written with a 3 behind it.
LEMMA EscapePairHolds ==
  ASSUME EscapeInv, EscapePair
  PROVE  EscapeInv'
PROOF
<1> DEFINE n == Len(buf)
<1>1. /\ pc = "escape" /\ pc' = "escape" /\ i' = i + 2
      /\ buf' = buf \o <<0, 0, Prevent>>
      /\ i < Len(msps) /\ msps[i] = 0
      /\ UNCHANGED <<file, pos, flags, fields, ueVars, msps>>
  BY DEF EscapePair, Pair
<1>2. /\ msps \in Seq(Byte) /\ Len(msps) \in Nat /\ buf \in Seq(Byte) /\ n \in Nat
      /\ i \in 1..(Len(msps) + 1) /\ 2 * n <= 3 * (i - 1)
      /\ \A k \in 1..(n - 2) : ~Emulates(buf, k)
  BY <1>1, LoopFacts
<1>3. n > 0 => buf[n] # 0
  BY <1>1, <1>2, LoopFacts
<1>4. /\ buf' \in Seq(Byte) /\ Len(buf') = n + 3
      /\ \A k \in 1..n : buf'[k] = buf[k]
      /\ buf'[n + 1] = 0 /\ buf'[n + 2] = 0 /\ buf'[n + 3] = Prevent
  BY <1>1, <1>2, ByteFacts, ThreeMore
<1> HIDE DEF n
<1>5. ASSUME NEW k \in 1..(n + 1), Emulates(buf', k) PROVE FALSE
  <2>1. CASE k <= n - 2
    <3>1. k \in 1..n /\ k + 1 \in 1..n /\ k + 2 \in 1..n /\ k \in 1..(n - 2)
      BY <1>2, <2>1
    <3> QED BY <1>2, <1>4, <1>5, <3>1 DEF Emulates
  <2>2. CASE k = n - 1
    <3>1. k + 1 = n /\ n \in 1..n /\ n > 0
      BY <1>2, <2>2
    <3>2. buf'[k + 1] # 0
      BY <1>3, <1>4, <3>1
    <3> QED BY <1>5, <3>2 DEF Emulates
  <2>3. CASE k = n
    <3>1. n \in 1..n /\ n > 0
      BY <1>2, <2>3
    <3>2. buf'[k] # 0
      BY <1>3, <1>4, <2>3, <3>1
    <3> QED BY <1>5, <3>2 DEF Emulates
  <2>4. CASE k = n + 1
    <3>1. k + 2 = n + 3
      BY <1>2, <2>4
    <3>2. buf'[k + 2] = Prevent
      BY <1>4, <3>1
    <3>3. ~(Prevent < Prevent)
      BY DEF Prevent
    <3> QED BY <1>5, <3>2, <3>3 DEF Emulates
  <2> QED BY <1>2, <2>1, <2>2, <2>3, <2>4
<1>6. buf'[Len(buf')] # 0
  BY <1>2, <1>4 DEF Prevent
<1>7. i' \in 1..(Len(msps') + 1) /\ 2 * Len(buf') <= 3 * (i' - 1)
  BY <1>1, <1>2, <1>4
<1>8. \A k \in 1..(Len(buf') - 2) : ~Emulates(buf', k)
  BY <1>2, <1>4, <1>5
<1>9. LoopOK'
  BY <1>1, <1>2, <1>4, <1>6, <1>7, <1>8 DEF LoopOK, EscapeInv
<1>10. ReadingOK'
  BY <1>1 DEF ReadingOK, EscapeInv, ueVars
<1>11. Len(buf') <= 2 * Len(msps')
  BY <1>1, <1>2, <1>4
<1>12. InBuffer' /\ NoStartCode'
  BY <1>1, <1>11 DEF InBuffer, NoStartCode
<1> QED BY <1>9, <1>10, <1>12 DEF EscapeInv

\* Any other byte is copied.
LEMMA CopyByteHolds ==
  ASSUME EscapeInv, CopyByte
  PROVE  EscapeInv'
PROOF
<1> DEFINE n == Len(buf)
<1>1. /\ pc = "escape" /\ pc' = "escape" /\ i' = i + 1
      /\ buf' = Append(buf, msps[i])
      /\ i <= Len(msps)
      /\ i + 1 <= Len(msps) /\ msps[i] = 0 => msps[i + 1] # 0
      /\ UNCHANGED <<file, pos, flags, fields, ueVars, msps>>
  <2>1. i \in Nat /\ Len(msps) \in Nat
    BY LoopFacts DEF CopyByte
  <2> QED BY <2>1 DEF CopyByte, Pair
<1>2. /\ msps \in Seq(Byte) /\ Len(msps) \in Nat /\ buf \in Seq(Byte) /\ n \in Nat
      /\ i \in 1..(Len(msps) + 1) /\ 2 * n <= 3 * (i - 1)
      /\ \A k \in 1..(n - 2) : ~Emulates(buf, k)
      /\ n > 1 /\ buf[n] = 0 => buf[n - 1] # 0
      /\ n > 0 /\ buf[n] = 0 => msps[i] # 0
      /\ msps[i] \in Byte
  BY <1>1, LoopFacts
<1>3. /\ buf' \in Seq(Byte) /\ Len(buf') = n + 1
      /\ \A k \in 1..n : buf'[k] = buf[k]
      /\ buf'[n + 1] = msps[i]
  BY <1>1, <1>2, OneMore
<1> HIDE DEF n
<1>4. ASSUME NEW k \in 1..(n - 1), Emulates(buf', k) PROVE FALSE
  <2>1. CASE k <= n - 2
    <3>1. k \in 1..n /\ k + 1 \in 1..n /\ k + 2 \in 1..n /\ k \in 1..(n - 2)
      BY <1>2, <2>1
    <3> QED BY <1>2, <1>3, <1>4, <3>1 DEF Emulates
  <2>2. CASE k = n - 1
    <3>1. k + 1 = n /\ n \in 1..n /\ n - 1 \in 1..n /\ n > 1
      BY <1>2, <2>2
    <3>2. buf'[n] = 0 /\ buf'[n - 1] = 0
      BY <1>4, <2>2, <3>1 DEF Emulates
    <3> QED BY <1>2, <1>3, <3>1, <3>2
  <2> QED BY <1>2, <2>1, <2>2
<1>5. ASSUME buf'[Len(buf')] = 0
      PROVE  /\ Len(buf') > 1 => buf'[Len(buf') - 1] # 0
             /\ i' <= Len(msps') => msps'[i'] # 0
  <2>1. msps[i] = 0
    BY <1>3, <1>5
  <2>2. n > 0 => buf'[n] # 0
    <3>1. n > 0 => n \in 1..n
      BY <1>2
    <3> QED BY <1>2, <1>3, <2>1, <3>1
  <2>3. Len(buf') - 1 = n /\ (Len(buf') > 1 => n > 0)
    BY <1>2, <1>3
  <2> QED BY <1>1, <2>1, <2>2, <2>3
<1>6. i' \in 1..(Len(msps') + 1) /\ 2 * Len(buf') <= 3 * (i' - 1)
  BY <1>1, <1>2, <1>3
<1>7. \A k \in 1..(Len(buf') - 2) : ~Emulates(buf', k)
  BY <1>2, <1>3, <1>4
<1>8. LoopOK'
  BY <1>1, <1>2, <1>3, <1>5, <1>6, <1>7 DEF LoopOK, EscapeInv
<1>9. ReadingOK'
  BY <1>1 DEF ReadingOK, EscapeInv, ueVars
<1>10. Len(buf') <= 2 * Len(msps')
  BY <1>1, <1>2, <1>3
<1>11. InBuffer' /\ NoStartCode'
  BY <1>1, <1>10 DEF InBuffer, NoStartCode
<1> QED BY <1>8, <1>9, <1>11 DEF EscapeInv

\* The last byte of a payload is not 0.
LEMMA FinishHolds ==
  ASSUME EscapeInv, Finish
  PROVE  EscapeInv'
PROOF
<1> DEFINE n == Len(buf)
<1>1. /\ pc = "escape" /\ pc' = "write" /\ i > Len(msps)
      /\ UNCHANGED <<file, pos, flags, fields, ueVars, msps, i>>
      /\ buf' = IF EndsInZero(buf) THEN Append(buf, Stop) ELSE buf
  BY DEF Finish
<1>2. /\ msps \in Seq(Byte) /\ Len(msps) \in Nat /\ Len(msps) >= 4
      /\ buf \in Seq(Byte) /\ n \in Nat
      /\ i \in 1..(Len(msps) + 1) /\ 2 * n <= 3 * (i - 1)
      /\ \A k \in 1..(n - 2) : ~Emulates(buf, k)
      /\ Stop \in Byte /\ Stop # 0 /\ ~(Stop < Prevent)
  BY <1>1, LoopFacts, ByteFacts DEF Prevent
<1>3. /\ buf' \in Seq(Byte) /\ Len(buf') <= 2 * Len(msps)
      /\ \A k \in 1..(Len(buf') - 2) : ~Emulates(buf', k)
      /\ ~EndsInZero(buf')
  <2>1. CASE EndsInZero(buf)
    <3>1. /\ buf' \in Seq(Byte) /\ Len(buf') = n + 1
          /\ \A k \in 1..n : buf'[k] = buf[k]
          /\ buf'[n + 1] = Stop
      BY <1>1, <1>2, <2>1, OneMore
    <3> HIDE DEF n
    <3>2. ASSUME NEW k \in 1..(n - 1), Emulates(buf', k) PROVE FALSE
      <4>1. CASE k <= n - 2
        <5>1. k \in 1..n /\ k + 1 \in 1..n /\ k + 2 \in 1..n /\ k \in 1..(n - 2)
          BY <1>2, <4>1
        <5> QED BY <1>2, <3>1, <3>2, <5>1 DEF Emulates
      <4>2. CASE k = n - 1
        <5>1. k + 2 = n + 1
          BY <1>2, <4>2
        <5> QED BY <1>2, <3>1, <3>2, <5>1 DEF Emulates
      <4> QED BY <1>2, <4>1, <4>2
    <3>3. \A k \in 1..(Len(buf') - 2) : ~Emulates(buf', k)
      BY <1>2, <3>1, <3>2
    <3>4. ~EndsInZero(buf')
      <4>1. Len(buf') > 0 /\ buf'[Len(buf')] # 0
        BY <1>2, <3>1
      <4> QED BY <4>1, <3>1 DEF EndsInZero
    <3>5. Len(buf') <= 2 * Len(msps)
      BY <1>1, <1>2, <3>1
    <3> QED BY <3>1, <3>3, <3>4, <3>5
  <2>2. CASE ~EndsInZero(buf)
    BY <1>1, <1>2, <2>2
  <2> QED BY <2>1, <2>2
<1>4. LoopOK'
  BY <1>1, <1>2, <1>3 DEF LoopOK, EscapeInv
<1>5. ReadingOK'
  BY <1>1 DEF ReadingOK, EscapeInv, ueVars
<1>6. InBuffer' /\ NoStartCode'
  BY <1>1, <1>3 DEF InBuffer, NoStartCode
<1> QED BY <1>4, <1>5, <1>6 DEF EscapeInv

LEMMA WriteAllHolds ==
  ASSUME EscapeInv, WriteAll
  PROVE  EscapeInv'
PROOF
<1>1. /\ pc = "write" /\ pc' = "exit" /\ pos' = Len(file.bytes)
      /\ UNCHANGED <<file, flags, fields, ueVars, msps, i, buf>>
  BY DEF WriteAll
<1>2. Len(file.bytes) \in Nat
  BY DEF EscapeInv, ReadingOK
<1>3. ReadingOK'
  BY <1>1, <1>2 DEF ReadingOK, EscapeInv, ueVars
<1>4. (LoopOK /\ InBuffer /\ NoStartCode)'
  BY <1>1 DEF LoopOK, EscapeInv, InBuffer, NoStartCode
<1> QED BY <1>3, <1>4 DEF EscapeInv

LEMMA StutterHolds ==
  ASSUME EscapeInv, UNCHANGED vars
  PROVE  EscapeInv'
PROOF
<1>1. UNCHANGED <<pc, file, pos, flags, fields, buffer, groups, msps, i, buf, stdout>>
  BY DEF vars, ueVars
<1> QED BY <1>1 DEF EscapeInv, ReadingOK, LoopOK, NoStartCode, InBuffer

------------------------------------------------------------------------------
(* What a decoder makes of the payload, byte by byte.                       *)

\* A decoder takes s for the first n elements of t.
Decodes(s, t, n) ==
  /\ Cardinality(Kept(s)) = n
  /\ \A k \in Kept(s) : Rank(s, k) \in 1..n /\ t[Rank(s, k)] = s[k]
  /\ \A m \in 1..n : \E k \in Kept(s) : Rank(s, k) = m

\* A decoder drops b behind s.
Dropped(s, b) ==
  Len(s) > 1 /\ b = Prevent /\ s[Len(s)] = 0 /\ s[Len(s) - 1] = 0

\* The payload is what was escaped so far, at last with or without the 0x80.
DecodeInv ==
  /\ pc \in {"magic", "fields", "build", "escape"} => Decodes(buf, msps, i - 1)
  /\ pc = "write" =>
       \E t \in {msps, Append(msps, Stop)} : Decodes(buf, t, Len(t))

LEMMA KeptType ==
  ASSUME NEW s \in Seq(Byte)
  PROVE  /\ Kept(s) \subseteq 1..Len(s) /\ IsFiniteSet(Kept(s))
         /\ Cardinality(Kept(s)) \in Nat
PROOF
<1>1. Kept(s) \subseteq 1..Len(s) /\ Len(s) \in Nat
  BY DEF Kept
<1>2. IsFiniteSet(1..Len(s))
  BY <1>1, FS_Interval
<1>3. IsFiniteSet(Kept(s))
  BY <1>1, <1>2, FS_Subset
<1> QED BY <1>1, <1>3, FS_CardinalityType

\* Which positions are kept does not depend on what comes behind them.
LEMMA KeptAppend ==
  ASSUME NEW s \in Seq(Byte), NEW b \in Byte
  PROVE  /\ Dropped(s, b) => Kept(Append(s, b)) = Kept(s)
         /\ ~Dropped(s, b) => Kept(Append(s, b)) = Kept(s) \cup {Len(s) + 1}
         /\ \A k \in 1..Len(s) : Rank(Append(s, b), k) = Rank(s, k)
PROOF
<1> DEFINE u == Append(s, b)  n == Len(s)
<1>1. /\ u \in Seq(Byte) /\ Len(u) = n + 1 /\ n \in Nat
      /\ \A k \in 1..n : u[k] = s[k]
      /\ u[n + 1] = b
  BY OneMore
<1> HIDE DEF u
<1>2. ASSUME NEW k \in 1..n PROVE k \in Kept(u) <=> k \in Kept(s)
  <2>1. k \in 1..Len(u) /\ k \in 1..Len(s) /\ u[k] = s[k]
    BY <1>1
  <2>2. k > 2 => u[k - 1] = s[k - 1] /\ u[k - 2] = s[k - 2]
    <3>1. k > 2 => k - 1 \in 1..n /\ k - 2 \in 1..n
      BY <1>1
    <3> QED BY <1>1, <3>1
  <2> QED BY <2>1, <2>2 DEF Kept
<1>3. n + 1 \in Kept(u) <=> ~Dropped(s, b)
  <2>1. n + 1 \in 1..Len(u) /\ (n + 1) - 1 = n /\ (n + 1) - 2 = n - 1
    BY <1>1
  <2>2. n + 1 > 2 <=> n > 1
    BY <1>1
  <2>3. n > 1 => u[n] = s[n] /\ u[n - 1] = s[n - 1]
    <3>1. n > 1 => n \in 1..n /\ n - 1 \in 1..n
      BY <1>1
    <3> QED BY <1>1, <3>1
  <2> QED BY <1>1, <2>1, <2>2, <2>3 DEF Kept, Dropped
<1>4. Kept(u) \subseteq 1..(n + 1) /\ Kept(s) \subseteq 1..n
  BY <1>1, KeptType
<1>5. 1..(n + 1) = 1..n \cup {n + 1} /\ n + 1 \notin 1..n
  BY <1>1
<1>6. /\ Dropped(s, b) => Kept(u) = Kept(s)
      /\ ~Dropped(s, b) => Kept(u) = Kept(s) \cup {n + 1}
  BY <1>2, <1>3, <1>4, <1>5
<1>7. ASSUME NEW k \in 1..n PROVE Rank(u, k) = Rank(s, k)
  <2>1. 1..k \subseteq 1..n
    BY <1>1
  <2>2. Kept(u) \cap (1..k) = Kept(s) \cap (1..k)
    BY <1>2, <2>1
  <2> QED BY <2>2 DEF Rank
<1> QED BY <1>6, <1>7 DEF u

\* A byte that is kept comes next.
LEMMA DecodesKept ==
  ASSUME NEW s \in Seq(Byte), NEW b \in Byte, NEW t, NEW n \in Nat,
         Decodes(s, t, n), ~Dropped(s, b), t[n + 1] = b
  PROVE  Decodes(Append(s, b), t, n + 1)
PROOF
<1> DEFINE u == Append(s, b)  p == Len(s) + 1
<1>1. /\ u \in Seq(Byte) /\ Len(u) = p /\ p \in Nat
      /\ \A k \in 1..Len(s) : u[k] = s[k]
      /\ u[p] = b
  BY OneMore
<1>2. /\ Kept(u) = Kept(s) \cup {p}
      /\ \A k \in 1..Len(s) : Rank(u, k) = Rank(s, k)
  BY KeptAppend
<1>3. Kept(s) \subseteq 1..Len(s) /\ IsFiniteSet(Kept(s)) /\ p \notin 1..Len(s)
  <2>1. p \notin 1..Len(s)
    OBVIOUS
  <2> QED BY <2>1, KeptType
<1> HIDE DEF u, p
<1>4. Cardinality(Kept(u)) = n + 1
  <2>1. Cardinality(Kept(s) \cup {p}) = Cardinality(Kept(s)) + 1
    BY <1>3, FS_AddElement
  <2> QED BY <1>2, <2>1 DEF Decodes
<1>5. Rank(u, p) = n + 1
  <2>1. Kept(u) \cap (1..p) = Kept(u)
    BY <1>1, KeptType
  <2> QED BY <1>4, <2>1 DEF Rank
<1>6. n + 1 \in 1..(n + 1) /\ 1..n \subseteq 1..(n + 1)
      /\ \A m \in 1..(n + 1) : m \in 1..n \/ m = n + 1
  OBVIOUS
<1>7. ASSUME NEW k \in Kept(u)
      PROVE  Rank(u, k) \in 1..(n + 1) /\ t[Rank(u, k)] = u[k]
  <2>1. CASE k = p
    BY <1>1, <1>5, <1>6, <2>1
  <2>2. CASE k \in Kept(s)
    <3>1. Rank(u, k) = Rank(s, k) /\ u[k] = s[k]
      BY <1>1, <1>2, <1>3, <2>2
    <3>2. Rank(s, k) \in 1..n /\ t[Rank(s, k)] = s[k]
      BY <2>2 DEF Decodes
    <3> QED BY <1>6, <3>1, <3>2
  <2> QED BY <1>2, <2>1, <2>2
<1>8. ASSUME NEW m \in 1..(n + 1) PROVE \E k \in Kept(u) : Rank(u, k) = m
  <2>1. CASE m = n + 1
    BY <1>2, <1>5, <2>1
  <2>2. CASE m \in 1..n
    <3>1. PICK k \in Kept(s) : Rank(s, k) = m
      BY <2>2 DEF Decodes
    <3> QED BY <1>2, <1>3, <3>1
  <2> QED BY <1>6, <2>1, <2>2
<1>9. Decodes(u, t, n + 1)
  BY <1>4, <1>7, <1>8 DEF Decodes
<1> QED BY <1>9 DEF u

\* A prevention byte changes nothing.
LEMMA DecodesDropped ==
  ASSUME NEW s \in Seq(Byte), NEW b \in Byte, NEW t, NEW n,
         Decodes(s, t, n), Dropped(s, b)
  PROVE  Decodes(Append(s, b), t, n)
PROOF
<1> DEFINE u == Append(s, b)
<1>1. \A k \in 1..Len(s) : u[k] = s[k]
  BY OneMore
<1>2. Kept(u) = Kept(s) /\ \A k \in 1..Len(s) : Rank(u, k) = Rank(s, k)
  BY KeptAppend
<1>3. Kept(s) \subseteq 1..Len(s)
  BY KeptType
<1> HIDE DEF u
<1>4. \A k \in Kept(u) : u[k] = s[k] /\ Rank(u, k) = Rank(s, k)
  BY <1>1, <1>2, <1>3
<1>5. Decodes(u, t, n)
  BY <1>2, <1>4 DEF Decodes
<1> QED BY <1>5 DEF u

\* The elements of t behind the n-th play no part.
LEMMA DecodesPrefix ==
  ASSUME NEW s, NEW t, NEW v, NEW n, Decodes(s, t, n),
         \A m \in 1..n : v[m] = t[m]
  PROVE  Decodes(s, v, n)
PROOF BY DEF Decodes

\* The decoder puts the kept bytes in the order of their ranks.
LEMMA DecodesUnescape ==
  ASSUME NEW s \in Seq(Byte), NEW t \in Seq(Byte), Decodes(s, t, Len(t))
  PROVE  Unescape(s) = t
PROOF
<1> DEFINE n == Len(t)
           at(m) == CHOOSE k \in Kept(s) : Rank(s, k) = m
<1>1. Cardinality(Kept(s)) = n
  BY DEF Decodes
<1>2. ASSUME NEW m \in 1..n PROVE s[at(m)] = t[m]
  <2>1. \E k \in Kept(s) : Rank(s, k) = m
    BY DEF Decodes
  <2>2. at(m) \in Kept(s) /\ Rank(s, at(m)) = m
    BY <2>1
  <2> HIDE DEF at
  <2> QED BY <2>2 DEF Decodes
<1>3. Unescape(s) = [m \in 1..n |-> s[at(m)]]
  BY <1>1 DEF Unescape
<1> HIDE DEF at
<1>4. Unescape(s) = [m \in 1..n |-> t[m]]
  BY <1>2, <1>3
<1>5. t = [m \in 1..n |-> t[m]]
  OBVIOUS
<1> QED BY <1>4, <1>5

\* A payload decoded to nothing.
LEMMA DecodesEmpty ==
  ASSUME NEW t
  PROVE  Decodes(<<>>, t, 0)
PROOF
<1>1. Kept(<<>>) = {}
  BY DEF Kept
<1>2. Cardinality(Kept(<<>>)) = 0
  BY <1>1, FS_EmptySet
<1> QED BY <1>1, <1>2 DEF Decodes

\* A pair of zeros with a 3 behind it is decoded to the pair.
LEMMA DecodePairHolds ==
  ASSUME EscapeInv, DecodeInv, EscapePair
  PROVE  DecodeInv'
PROOF
<1>1. /\ pc = "escape" /\ pc' = "escape" /\ i' = i + 2 /\ msps' = msps
      /\ buf' = buf \o <<0, 0, Prevent>>
      /\ i < Len(msps) /\ msps[i] = 0 /\ msps[i + 1] = 0
  BY DEF EscapePair, Pair
<1>2. buf \in Seq(Byte) /\ i \in Nat /\ i >= 1
  <2>1. i \in 1..(Len(msps) + 1) /\ Len(msps) \in Nat /\ buf \in Seq(Byte)
    BY <1>1, LoopFacts
  <2> QED BY <2>1
<1> DEFINE one == Append(buf, 0)  two == Append(one, 0)
           three == Append(two, Prevent)
<1>3. /\ one \in Seq(Byte) /\ Len(one) = Len(buf) + 1
      /\ one[Len(buf) + 1] = 0
  BY <1>2, ByteFacts, OneMore
<1>4. /\ two \in Seq(Byte) /\ Len(two) = Len(one) + 1
      /\ \A k \in 1..Len(one) : two[k] = one[k]
      /\ two[Len(one) + 1] = 0
  BY <1>3, ByteFacts, OneMore
<1>5. buf' = three
  BY <1>1, <1>2, ByteFacts, ThreeAppended
<1>6. Decodes(buf, msps, i - 1) /\ i - 1 \in Nat /\ (i - 1) + 1 = i
  BY <1>1, <1>2 DEF DecodeInv
<1>7. \A s : ~Dropped(s, 0)
  BY DEF Dropped, Prevent
<1>8. Decodes(one, msps, i)
  <2>1. Decodes(one, msps, (i - 1) + 1)
    BY <1>1, <1>2, <1>6, <1>7, ByteFacts, DecodesKept
  <2> QED BY <1>6, <2>1
<1> HIDE DEF one
<1>9. Decodes(two, msps, i + 1)
  BY <1>1, <1>2, <1>3, <1>7, <1>8, ByteFacts, DecodesKept
<1>10. Dropped(two, Prevent)
  <2>1. Len(buf) \in Nat
    BY <1>2
  <2>2. Len(one) \in 1..Len(one) /\ Len(two) > 1 /\ Len(two) - 1 = Len(one)
    BY <1>3, <1>4, <2>1
  <2>3. two[Len(one)] = 0 /\ two[Len(two)] = 0
    BY <1>3, <1>4, <2>2
  <2> QED BY <2>2, <2>3 DEF Dropped
<1> HIDE DEF two
<1>11. Decodes(three, msps, i + 1)
  BY <1>4, <1>9, <1>10, ByteFacts, DecodesDropped
<1>12. i' - 1 = i + 1
  BY <1>1, <1>2
<1> QED BY <1>1, <1>5, <1>11, <1>12 DEF DecodeInv

\* A byte that is copied is never taken for a prevention byte: what is written
\* so far does not end in two zeros.
LEMMA DecodeCopyHolds ==
  ASSUME EscapeInv, DecodeInv, CopyByte
  PROVE  DecodeInv'
PROOF
<1>1. /\ pc = "escape" /\ pc' = "escape" /\ i' = i + 1 /\ msps' = msps
      /\ buf' = Append(buf, msps[i]) /\ i <= Len(msps)
  BY DEF CopyByte
<1>2. /\ buf \in Seq(Byte) /\ Len(buf) \in Nat /\ Len(msps) \in Nat
      /\ i \in 1..(Len(msps) + 1) /\ \A k \in 1..Len(msps) : msps[k] \in Byte
      /\ Len(buf) > 1 /\ buf[Len(buf)] = 0 => buf[Len(buf) - 1] # 0
  BY <1>1, LoopFacts
<1>3. msps[i] \in Byte /\ i - 1 \in Nat /\ (i - 1) + 1 = i /\ i' - 1 = i
  BY <1>1, <1>2
<1>4. ~Dropped(buf, msps[i])
  BY <1>2 DEF Dropped
<1>5. Decodes(buf, msps, i - 1)
  BY <1>1 DEF DecodeInv
<1>6. Decodes(Append(buf, msps[i]), msps, (i - 1) + 1)
  BY <1>2, <1>3, <1>4, <1>5, DecodesKept
<1> QED BY <1>1, <1>3, <1>6 DEF DecodeInv

\* The last byte, if there is one, comes behind all of the header.
LEMMA DecodeFinishHolds ==
  ASSUME EscapeInv, DecodeInv, Finish
  PROVE  DecodeInv'
PROOF
<1>1. /\ pc = "escape" /\ pc' = "write" /\ i > Len(msps) /\ msps' = msps
      /\ buf' = IF EndsInZero(buf) THEN Append(buf, Stop) ELSE buf
  BY DEF Finish
<1>2. /\ buf \in Seq(Byte) /\ msps \in Seq(Byte) /\ Len(msps) \in Nat
      /\ i \in 1..(Len(msps) + 1)
  BY <1>1, LoopFacts
<1>3. i - 1 = Len(msps)
  BY <1>1, <1>2
<1>4. Decodes(buf, msps, Len(msps))
  BY <1>1, <1>3 DEF DecodeInv
<1>5. CASE EndsInZero(buf)
  <2> DEFINE t == Append(msps, Stop)
  <2>1. /\ Len(t) = Len(msps) + 1 /\ t[Len(msps) + 1] = Stop
        /\ \A k \in 1..Len(msps) : t[k] = msps[k]
    BY <1>2, ByteFacts, OneMore
  <2> HIDE DEF t
  <2>2. Decodes(buf, t, Len(msps))
    BY <1>4, <2>1, DecodesPrefix
  <2>3. ~Dropped(buf, Stop)
    BY ByteFacts DEF Dropped, Prevent
  <2>4. Decodes(Append(buf, Stop), t, Len(t))
    BY <1>2, <2>1, <2>2, <2>3, ByteFacts, DecodesKept
  <2> QED BY <1>1, <1>5, <2>4 DEF DecodeInv, t
<1>6. CASE ~EndsInZero(buf)
  BY <1>1, <1>4, <1>6 DEF DecodeInv
<1> QED BY <1>5, <1>6

\* Before the loop nothing is escaped, behind it nothing changes any more.
LEMMA DecodeElseHolds ==
  ASSUME EscapeInv, DecodeInv,
         CheckMagic \/ ReadGroup \/ ReadField \/ BuildMsps \/ WriteAll
           \/ UNCHANGED vars
  PROVE  DecodeInv'
PROOF
<1>1. CASE pc \in {"magic", "fields", "build"} /\ ~UNCHANGED vars
  <2>1. buf = <<>> /\ i = 1
    BY <1>1 DEF EscapeInv, LoopOK
  <2>2. buf' = buf /\ i' = i /\ pc' # "write"
    BY <1>1 DEF CheckMagic, ReadGroup, ReadField, BuildMsps, WriteAll
  <2>3. Decodes(buf', msps', i' - 1)
    <3>1. i' - 1 = 0
      BY <2>1, <2>2
    <3> QED BY <2>1, <2>2, <3>1, DecodesEmpty
  <2> QED BY <2>2, <2>3 DEF DecodeInv
<1>2. CASE WriteAll
  BY <1>2 DEF WriteAll, DecodeInv
<1>3. CASE UNCHANGED vars
  BY <1>3 DEF vars, DecodeInv
<1>4. CheckMagic \/ ReadGroup \/ ReadField \/ BuildMsps
        => pc \in {"magic", "fields", "build"}
  BY DEF CheckMagic, ReadGroup, ReadField, BuildMsps
<1> QED BY <1>1, <1>2, <1>3, <1>4

------------------------------------------------------------------------------
(* Arithmetic of groups: powers and division.                              *)

\* Induction, from the fact that < is well-founded on the naturals.
LEMMA Least ==
  ASSUME NEW T \in SUBSET Nat, T # {}
  PROVE  \E m \in T : \A k \in T : m <= k
PROOF
<1> DEFINE R == OpToRel(<, Nat)
<1>1. IsWellFoundedOn(R, Nat)
  BY NatLessThanWellFounded
<1>2. R = {p \in Nat \X Nat : p[1] < p[2]}
  BY DEF OpToRel
<1> HIDE DEF R
<1>3. PICK m \in T : \A k \in T : ~(<<k, m>> \in R)
  BY <1>1, WFMin
<1>4. ASSUME NEW k \in T PROVE m <= k
  <2>1. ~(k < m)
    BY <1>2, <1>3
  <2> QED BY <2>1
<1> QED BY <1>4

LEMMA Induction ==
  ASSUME NEW T, 0 \in T, \A n \in Nat : n \in T => n + 1 \in T
  PROVE  Nat \subseteq T
PROOF
<1> SUFFICES ASSUME Nat \ T # {} PROVE FALSE
  OBVIOUS
<1>1. PICK m \in Nat \ T : \A k \in Nat \ T : m <= k
  BY Least
<1>2. m # 0 /\ m - 1 \in Nat /\ (m - 1) + 1 = m /\ ~(m <= m - 1)
  BY <1>1
<1>3. m - 1 \in T
  BY <1>1, <1>2
<1> QED BY <1>1, <1>2, <1>3

\* The equation of Power has a solution, so that Power is one.
PowersTo(n, f) ==
  /\ f \in [0..n -> Nat] /\ f[0] = 1
  /\ \A k \in 0..(n - 1) : f[k + 1] = Group * f[k]

LEMMA PowersExist == \A n \in Nat : \E f : PowersTo(n, f)
PROOF
<1> DEFINE T == {n \in Nat : \E f : PowersTo(n, f)}
<1>1. 0 \in T
  <2> DEFINE f == [k \in 0..0 |-> 1]
  <2>1. PowersTo(0, f)
    BY DEF PowersTo
  <2> HIDE DEF f
  <2> QED BY <2>1
<1>2. ASSUME NEW n \in Nat, n \in T PROVE n + 1 \in T
  <2>1. PICK f : PowersTo(n, f)
    BY <1>2
  <2> DEFINE g == [k \in 0..(n + 1) |-> IF k <= n THEN f[k] ELSE Group * f[n]]
  <2>2. f \in [0..n -> Nat] /\ Group \in Nat
    BY <2>1, EscapeAssumption DEF PowersTo
  <2>3. ASSUME NEW k \in 0..(n + 1)
        PROVE  (IF k <= n THEN f[k] ELSE Group * f[n]) \in Nat
    <3>1. CASE k <= n
      <4>1. k \in 0..n
        BY <3>1
      <4> QED BY <2>2, <3>1, <4>1
    <3>2. CASE ~(k <= n)
      <4>1. f[n] \in Nat
        BY <2>2
      <4>2. Group * f[n] \in Nat
        BY <2>2, <4>1
      <4> QED BY <3>2, <4>2
    <3> QED BY <3>1, <3>2
  <2>4. g \in [0..(n + 1) -> Nat] /\ g[0] = 1
    <3>1. g[0] = f[0]
      OBVIOUS
    <3> QED BY <2>1, <2>3, <3>1 DEF PowersTo
  <2>5. ASSUME NEW k \in 0..((n + 1) - 1) PROVE g[k + 1] = Group * g[k]
    <3>1. k \in 0..n /\ k \in 0..(n + 1) /\ k + 1 \in 0..(n + 1) /\ k <= n
      OBVIOUS
    <3>2. g[k] = f[k]
      BY <3>1
    <3>3. CASE k = n
      <4>1. g[k + 1] = Group * f[n]
        BY <3>1, <3>3
      <4> QED BY <3>2, <3>3, <4>1
    <3>4. CASE k # n
      <4>1. k \in 0..(n - 1) /\ k + 1 <= n
        BY <3>1, <3>4
      <4>2. g[k + 1] = f[k + 1]
        BY <3>1, <4>1
      <4>3. f[k + 1] = Group * f[k]
        BY <2>1, <4>1 DEF PowersTo
      <4> QED BY <3>2, <4>2, <4>3
    <3> QED BY <3>3, <3>4
  <2> HIDE DEF g
  <2>6. PowersTo(n + 1, g)
    BY <2>4, <2>5 DEF PowersTo
  <2> QED BY <2>6
<1> HIDE DEF T
<1>3. Nat \subseteq T
  BY <1>1, <1>2, Induction
<1> QED BY <1>3 DEF T

LEMMA PowersAgree ==
  ASSUME NEW n \in Nat, NEW m \in Nat, NEW f, NEW g,
         PowersTo(n, f), PowersTo(m, g)
  PROVE  \A k \in Nat : k <= n /\ k <= m => f[k] = g[k]
PROOF
<1> DEFINE T == {k \in Nat : k <= n /\ k <= m => f[k] = g[k]}
<1>1. 0 \in T
  BY DEF PowersTo
<1>2. ASSUME NEW k \in Nat, k \in T PROVE k + 1 \in T
  <2> SUFFICES ASSUME k + 1 <= n, k + 1 <= m PROVE f[k + 1] = g[k + 1]
    OBVIOUS
  <2>1. k \in 0..(n - 1) /\ k \in 0..(m - 1)
    OBVIOUS
  <2>2. f[k] = g[k]
    BY <1>2
  <2> QED BY <2>1, <2>2 DEF PowersTo
<1> HIDE DEF T
<1>3. Nat \subseteq T
  BY <1>1, <1>2, Induction
<1> QED BY <1>3 DEF T

LEMMA PowerFacts ==
  /\ Power[0] = 1
  /\ \A k \in Nat : /\ Power[k + 1] = Group * Power[k]
                    /\ Power[k] \in Nat /\ Power[k] >= 1
PROOF
<1> DEFINE some(n) == CHOOSE f : PowersTo(n, f)
           F == [n \in Nat |-> some(n)[n]]
<1>1. ASSUME NEW n \in Nat PROVE PowersTo(n, some(n))
  BY PowersExist
<1> HIDE DEF some
<1>2. ASSUME NEW n \in Nat PROVE F[n] \in Nat /\ F[n] = some(n)[n]
  BY <1>1 DEF PowersTo
<1>3. F[0] = 1
  BY <1>1 DEF PowersTo
<1>4. ASSUME NEW k \in Nat PROVE F[k + 1] = Group * F[k]
  <2>1. k + 1 \in Nat /\ k \in 0..((k + 1) - 1) /\ k <= k + 1 /\ k <= k
    OBVIOUS
  <2>2. some(k + 1)[k + 1] = Group * some(k + 1)[k]
    BY <1>1, <2>1 DEF PowersTo
  <2>3. some(k + 1)[k] = some(k)[k]
    BY <1>1, <2>1, PowersAgree
  <2> QED BY <1>2, <2>1, <2>2, <2>3
<1>5. F = [k \in Nat |-> IF k = 0 THEN 1 ELSE Group * F[k - 1]]
  <2>1. ASSUME NEW k \in Nat
        PROVE  F[k] = IF k = 0 THEN 1 ELSE Group * F[k - 1]
    <3>1. CASE k = 0
      BY <1>3, <3>1
    <3>2. CASE k # 0
      <4>1. k - 1 \in Nat /\ (k - 1) + 1 = k
        BY <3>2
      <4>2. F[(k - 1) + 1] = Group * F[k - 1]
        BY <1>4, <4>1
      <4> HIDE DEF F
      <4> QED BY <3>2, <4>1, <4>2
    <3> QED BY <3>1, <3>2
  <2>2. F = [k \in Nat |-> F[k]]
    OBVIOUS
  <2> HIDE DEF F
  <2> QED BY <2>1, <2>2
<1> HIDE DEF F
<1>6. Power = [k \in Nat |-> IF k = 0 THEN 1 ELSE Group * Power[k - 1]]
  BY <1>5 DEF Power
<1>7. Power[0] = 1
  BY <1>6
<1>8. ASSUME NEW k \in Nat PROVE Power[k + 1] = Group * Power[k]
  <2>1. k + 1 \in Nat /\ k + 1 # 0 /\ (k + 1) - 1 = k
    OBVIOUS
  <2> QED BY <1>6, <2>1
<1> DEFINE T == {k \in Nat : Power[k] \in Nat /\ Power[k] >= 1}
<1>9. 0 \in T
  BY <1>7
<1>10. ASSUME NEW k \in Nat, k \in T PROVE k + 1 \in T
  <2> DEFINE p == Power[k]
  <2>1. p \in Nat /\ p >= 1 /\ Group \in Nat /\ Group >= 1
    BY <1>10, EscapeAssumption
  <2>2. Power[k + 1] = Group * p
    BY <1>8
  <2> HIDE DEF p
  <2>3. Group * p \in Nat /\ Group * p >= 1
    BY <2>1
  <2> QED BY <2>2, <2>3
<1> HIDE DEF T
<1>11. Nat \subseteq T
  BY <1>9, <1>10, Induction
<1> QED BY <1>7, <1>8, <1>11 DEF T

\* Division is determined by what it leaves, and dividing twice is dividing by
\* the product.
LEMMA DivUnique ==
  ASSUME NEW d \in Nat \ {0}, NEW n \in Nat, NEW t \in Nat, NEW w \in Nat,
         n = d * t + w, w < d
  PROVE  n \div d = t
PROOF OBVIOUS

LEMMA DivTwice ==
  ASSUME NEW n \in Nat, NEW p \in Nat \ {0}, NEW d \in Nat \ {0}
  PROVE  /\ (n \div p) \div d = n \div (d * p)
         /\ n \div p = ((n \div (d * p)) * d) + ((n \div p) % d)
PROOF
<1> DEFINE q == n \div p  r == n % p  t == q \div d  u == q % d
<1>1. q \in Nat /\ r \in Nat /\ r < p /\ n = p * q + r
  OBVIOUS
<1>2. t \in Nat /\ u \in Nat /\ u < d /\ q = d * t + u
  <2> HIDE DEF q
  <2> QED BY <1>1
<1> HIDE DEF q, r, t, u
<1>3. d * p \in Nat \ {0} /\ p * u + r \in Nat
  BY <1>1, <1>2
<1>4. n = (d * p) * t + (p * u + r)
  <2>1. p * q = p * (d * t) + p * u
    BY <1>1, <1>2
  <2>2. p * (d * t) = (d * p) * t
    BY <1>2
  <2> QED BY <1>1, <1>2, <1>3, <2>1, <2>2
<1>5. p * u + r < d * p
  <2>1. u + 1 <= d
    BY <1>2
  <2>2. p * (u + 1) <= p * d
    BY <1>2, <2>1
  <2>3. p * (u + 1) = p * u + p /\ p * d = d * p
    BY <1>2
  <2> QED BY <1>1, <1>2, <2>2, <2>3
<1>6. n \div (d * p) = t
  BY <1>1, <1>2, <1>3, <1>4, <1>5, DivUnique
<1>7. q = (t * d) + u
  BY <1>2
<1> QED BY <1>6, <1>7 DEF q, t, u

------------------------------------------------------------------------------
(* The numbers read are the ones the file says.                             *)

\* Every number read is the one meant; of the next one the groups before pos
\* were read.
Reads ==
  /\ pc \in {"magic", "fields", "build"} =>
       \A j \in 1..Len(fields) : fields[j] = file.numbers[j]
  /\ pc = "magic" => fields = <<>>
  /\ pc \in {"magic", "fields"} =>
       LET j == Len(fields) + 1 IN
       /\ pos = Start(file, j) + groups /\ pos < file.ends[j]
       /\ buffer = file.numbers[j] \div Power[file.ends[j] - pos]
  /\ pc = "build" => pos = file.ends[4]

ReadsInv == file \in Files /\ (file.whole => Reads) /\ HeaderRight

\* Where a number of a whole file is, and what its groups are.
LEMMA WholeFacts ==
  ASSUME file \in Files, file.whole, NEW j \in 1..4
  PROVE  /\ file.ends[j] \in 1..Len(file.bytes) /\ Len(file.bytes) \in Nat
         /\ file.numbers[j] \in 0..(Word - 1) /\ Start(file, j) \in Nat
         /\ file.ends[j] \in Nat /\ file.numbers[j] \in Nat
         /\ Says(file.bytes, Start(file, j), file.ends[j], file.numbers[j])
PROOF
<1>1. HoldsAll(file) /\ file.bytes \in Seq(Byte)
  BY EscapeAssumption
<1>2. Len(file.bytes) \in Nat
  BY <1>1
<1>3. file.ends \in [1..4 -> 1..Len(file.bytes)] /\ file.numbers \in [1..4 -> 0..(Word - 1)]
  BY <1>1 DEF HoldsAll
<1>4. Start(file, j) \in Nat
  <2>1. CASE j = 1
    BY <2>1 DEF Start
  <2>2. CASE j # 1
    <3>1. j - 1 \in 1..4
      BY <2>2
    <3>2. file.ends[j - 1] \in 1..Len(file.bytes)
      BY <1>3, <3>1
    <3> QED BY <1>2, <2>2, <3>2 DEF Start
  <2> QED BY <2>1, <2>2
<1>5. file.ends[j] \in 1..Len(file.bytes) /\ file.numbers[j] \in 0..(Word - 1)
  BY <1>3
<1>6. file.ends[j] \in Nat /\ file.numbers[j] \in Nat
  <2>1. 1..Len(file.bytes) \subseteq Nat /\ 0..(Word - 1) \subseteq Nat
    BY <1>2, EscapeAssumption
  <2> QED BY <1>5, <2>1
<1> QED BY <1>1, <1>2, <1>4, <1>5, <1>6 DEF HoldsAll

\* What the groups of a number before its first one are worth is nothing.
LEMMA NoGroups ==
  ASSUME file \in Files, file.whole, NEW j \in 1..4
  PROVE  /\ Start(file, j) < file.ends[j]
         /\ 0 = file.numbers[j] \div Power[file.ends[j] - Start(file, j)]
PROOF
<1> DEFINE e == file.ends[j]  s == Start(file, j)  n == file.numbers[j]
<1>1. e \in Nat /\ s \in Nat /\ n \in Nat /\ s < e /\ n < Power[e - s]
  <2>1. e \in Nat /\ s \in Nat /\ n \in Nat /\ Says(file.bytes, s, e, n)
    BY WholeFacts
  <2> HIDE DEF e, s, n
  <2> QED BY <2>1 DEF Says
<1> HIDE DEF e, s, n
<1>2. e - s \in Nat
  BY <1>1
<1> DEFINE p == Power[e - s]
<1>3. p \in Nat \ {0} /\ n < p
  BY <1>1, <1>2, PowerFacts
<1> HIDE DEF p
<1>4. n \div p = 0
  BY <1>1, <1>3, DivUnique
<1> QED BY <1>1, <1>4 DEF p, e, s, n

\* The group that comes next, and what the number is with it.
LEMMA NextGroup ==
  ASSUME file \in Files, file.whole, Reads, ReadingOK, pc = "fields",
         NEW j, j = Len(fields) + 1
  PROVE  /\ j \in 1..4 /\ ~AtEnd /\ pos + 1 <= file.ends[j]
         /\ Byte1 < Group <=> pos + 1 = file.ends[j]
         /\ groups + 1 = MaxGroups => pos + 1 = file.ends[j]
         /\ Shifted(Byte1)
              = file.numbers[j] \div Power[file.ends[j] - (pos + 1)]
PROOF
<1> DEFINE b == file.bytes  e == file.ends[j]  s == Start(file, j)
           n == file.numbers[j]  c == b[pos + 1]
<1>1. j \in 1..4
  <2>1. Len(fields) \in Nat /\ Len(fields) < 4
    BY DEF ReadingOK
  <2> DEFINE k == Len(fields)
  <2> HIDE DEF k
  <2>2. k \in Nat /\ k < 4 /\ j = k + 1
    BY <2>1 DEF k
  <2> QED BY <2>2
<1>2. /\ e \in 1..Len(b) /\ Len(b) \in Nat /\ n \in 0..(Word - 1) /\ s \in Nat
      /\ Says(b, s, e, n)
  BY <1>1, WholeFacts
<1>3. /\ pos = s + groups /\ pos < e
      /\ buffer = n \div Power[e - pos]
  BY DEF Reads
<1>4. /\ Word \in Nat \ {0} /\ Group \in Nat \ {0} /\ groups \in Nat
      /\ MaxGroups \in Nat
  BY EscapeAssumption DEF ReadingOK
<1>5. /\ e <= s + MaxGroups
      /\ \A k \in (s + 1)..e : /\ b[k] % Group = (n \div Power[e - k]) % Group
                               /\ b[k] < Group <=> k = e
  BY <1>2 DEF Says
<1>6. Byte1 = c /\ (AtEnd <=> pos = Len(b))
  BY DEF Byte1, AtEnd
<1> HIDE DEF b, e, s, n, c
<1>7. /\ pos + 1 \in (s + 1)..e /\ pos # Len(b) /\ pos \in Nat
      /\ groups + 1 = MaxGroups => pos + 1 = e
  BY <1>2, <1>3, <1>4, <1>5
<1>8. /\ c % Group = (n \div Power[e - (pos + 1)]) % Group
      /\ c < Group <=> pos + 1 = e
  <2> DEFINE k == pos + 1
  <2>1. k \in (s + 1)..e
    BY <1>7
  <2> HIDE DEF k
  <2>2. b[k] % Group = (n \div Power[e - k]) % Group
    BY <1>5, <2>1
  <2>3. b[k] < Group <=> k = e
    BY <1>5, <2>1
  <2> QED BY <2>2, <2>3 DEF c, k
<1> DEFINE l == e - (pos + 1)
<1>9. l \in Nat /\ l + 1 = e - pos
  BY <1>2, <1>7
<1> HIDE DEF l
<1> DEFINE p == Power[l]
<1>10. p \in Nat \ {0} /\ Power[e - pos] = Group * p
  <2>1. p \in Nat /\ p >= 1 /\ Power[l + 1] = Group * p
    BY <1>9, PowerFacts
  <2> HIDE DEF p
  <2> QED BY <1>9, <2>1
<1> HIDE DEF p
<1>11. n \in Nat /\ n < Word
  BY <1>2, <1>4
<1>12. /\ n \div p = ((n \div (Group * p)) * Group) + ((n \div p) % Group)
  BY <1>4, <1>10, <1>11, DivTwice
<1>13. (buffer * Group) + (c % Group) = n \div p
  BY <1>3, <1>8, <1>10, <1>12 DEF l, p
<1>14. n \div p \in Nat /\ n \div p < Word
  <2> DEFINE q == n \div p
  <2>1. q \in Nat /\ q <= n
    <3>1. q \in Nat /\ p * q <= n /\ p >= 1
      BY <1>10, <1>11
    <3> HIDE DEF q
    <3>2. q <= p * q
      BY <1>10, <3>1
    <3> QED BY <1>10, <1>11, <3>1, <3>2
  <2> HIDE DEF q
  <2>2. q \in Nat /\ q < Word
    BY <1>11, <1>4, <2>1
  <2> QED BY <2>2 DEF q
<1>15. Shifted(c) = n \div p
  <2>1. Shifted(c) = (n \div p) % Word
    BY <1>13 DEF Shifted
  <2> DEFINE q == n \div p
  <2>2. q \in Nat /\ q < Word
    BY <1>14
  <2> HIDE DEF q
  <2>3. q % Word = q
    BY <1>4, <2>2
  <2> QED BY <2>1, <2>3 DEF q
<1>16. pos + 1 <= e
  BY <1>2, <1>7
<1> QED BY <1>1, <1>6, <1>7, <1>8, <1>15, <1>16 DEF l, p, e, n

LEMMA ReadsGroup ==
  ASSUME EscapeInv, ReadsInv, ReadGroup
  PROVE  ReadsInv'
PROOF
<1>1. /\ pc = "fields" /\ Byte1 >= Group /\ buffer' = Shifted(Byte1)
      /\ groups' = groups + 1 /\ pos' = pos + 1
      /\ pc' = pc /\ file' = file /\ fields' = fields
  BY DEF ReadGroup
<1>2. ReadingOK
  BY DEF EscapeInv
<1>3. HeaderRight' /\ file' \in Files
  BY <1>1 DEF HeaderRight, ReadsInv
<1>4. ASSUME file.whole PROVE Reads'
  <2> DEFINE j == Len(fields) + 1
  <2>1. Reads /\ file \in Files
    BY <1>4 DEF ReadsInv
  <2>2. /\ j \in 1..4 /\ ~AtEnd /\ pos + 1 <= file.ends[j]
        /\ Byte1 < Group <=> pos + 1 = file.ends[j]
        /\ Shifted(Byte1) = file.numbers[j] \div Power[file.ends[j] - (pos + 1)]
    BY <1>1, <1>2, <1>4, <2>1, NextGroup
  <2>3. /\ file.ends[j] \in Nat /\ Start(file, j) \in Nat
    BY <1>4, <2>1, <2>2, WholeFacts
  <2>4. pos = Start(file, j) + groups /\ groups \in Nat /\ pos \in Nat
    <3>1. pos = Start(file, j) + groups
      BY <1>1, <2>1 DEF Reads
    <3>2. groups \in Nat
      BY <1>2, EscapeAssumption DEF ReadingOK
    <3> QED BY <2>3, <3>1, <3>2
  <2>5. Byte1 \in Nat /\ Group \in Nat
    <3>1. pos + 1 \in 1..Len(file.bytes) /\ file.bytes \in Seq(Byte)
      BY <1>2, <2>2 DEF ReadingOK, AtEnd
    <3>2. file.bytes[pos + 1] \in Byte
      BY <3>1, ElementOfSeq
    <3> QED BY <3>2, ByteFacts, EscapeAssumption DEF Byte1
  <2>6. ~(Byte1 < Group)
    BY <1>1, <2>5
  <2>7. pos + 1 < file.ends[j]
    <3> DEFINE e == file.ends[j]
    <3>1. e \in Nat /\ pos + 1 <= e /\ pos + 1 # e
      BY <2>2, <2>3, <2>6
    <3> HIDE DEF e
    <3>2. pos + 1 < e
      BY <2>4, <3>1
    <3> QED BY <3>2 DEF e
  <2>8. pos + 1 = Start(file, j) + (groups + 1)
    BY <2>3, <2>4
  <2>9. \A k \in 1..Len(fields) : fields[k] = file.numbers[k]
    BY <1>1, <2>1 DEF Reads
  <2>10. Start(file, j)' = Start(file, j)
    BY <1>1 DEF Start
  <2> QED BY <1>1, <2>2, <2>7, <2>8, <2>9, <2>10 DEF Reads
<1> QED BY <1>1, <1>3, <1>4 DEF ReadsInv

LEMMA ReadsField ==
  ASSUME EscapeInv, ReadsInv, ReadField
  PROVE  ReadsInv'
PROOF
<1>1. /\ pc = "fields" /\ buffer' = 0 /\ groups' = 0 /\ file' = file
      /\ pc' \in {"fields", "build", "exit"}
      /\ pc' = "build" => Len(fields) = 3
      /\ pc' = "fields" => Len(fields) # 3
  BY DEF ReadField
<1>2. ReadingOK
  BY DEF EscapeInv
<1>3. HeaderRight' /\ file' \in Files
  BY <1>1 DEF HeaderRight, ReadsInv
<1>4. ASSUME file.whole PROVE Reads'
  <2> DEFINE j == Len(fields) + 1
  <2>1. Reads /\ file \in Files
    BY <1>4 DEF ReadsInv
  <2>2. /\ j \in 1..4 /\ ~AtEnd
        /\ Byte1 < Group <=> pos + 1 = file.ends[j]
        /\ groups + 1 = MaxGroups => pos + 1 = file.ends[j]
        /\ Shifted(Byte1) = file.numbers[j] \div Power[file.ends[j] - (pos + 1)]
    BY <1>1, <1>2, <1>4, <2>1, NextGroup
  <2>3. pos + 1 = file.ends[j]
    BY <2>2 DEF ReadField
  <2>4. /\ file.ends[j] \in Nat /\ Start(file, j) \in Nat
        /\ file.numbers[j] \in 0..(Word - 1) /\ file.numbers[j] \in Nat
    <3> HIDE DEF j
    <3>1. j \in 1..4 /\ file \in Files /\ file.whole
      BY <1>4, <2>1, <2>2
    <3> QED BY <3>1, WholeFacts
  <2>5. Shifted(Byte1) = file.numbers[j]
    <3> DEFINE n == file.numbers[j]  e == file.ends[j]
    <3>1. n \in Nat /\ e \in Nat
      BY <2>4
    <3>2. e - (pos + 1) = 0
      BY <2>3, <3>1
    <3>3. Shifted(Byte1) = n \div 1
      BY <2>2, <3>2, PowerFacts
    <3> HIDE DEF n, e
    <3>4. n \div 1 = n
      BY <3>1
    <3> QED BY <3>3, <3>4 DEF n
  <2>6. fields' = Append(fields, file.numbers[j]) /\ pos' = file.ends[j]
    BY <2>2, <2>3, <2>5 DEF ReadField
  <2>7. /\ Len(fields') = j /\ Len(fields) \in Nat
        /\ \A k \in 1..j : fields'[k] = file.numbers[k]
    <3>1. fields \in Seq(0..(Word - 1)) /\ Len(fields) \in Nat
      BY <1>2 DEF ReadingOK
    <3>2. /\ Len(fields') = j /\ fields'[j] = file.numbers[j]
          /\ \A k \in 1..Len(fields) : fields'[k] = fields[k]
      BY <2>4, <2>6, <3>1, AppendProperties
    <3>3. \A k \in 1..Len(fields) : fields[k] = file.numbers[k]
      BY <1>1, <2>1 DEF Reads
    <3>4. \A k \in 1..j : k \in 1..Len(fields) \/ k = j
      BY <3>1
    <3> QED BY <3>1, <3>2, <3>3, <3>4
  <2>8. ASSUME pc' = "fields"
        PROVE  LET i2 == j + 1 IN
               /\ file.ends[j] = Start(file, i2) + 0
               /\ file.ends[j] < file.ends[i2]
               /\ 0 = file.numbers[i2] \div Power[file.ends[i2] - file.ends[j]]
    <3> DEFINE i2 == j + 1
    <3>1. i2 \in 1..4 /\ i2 # 1 /\ i2 - 1 = j
      <4> DEFINE k == Len(fields)
      <4>1. k \in Nat /\ k # 3 /\ k + 1 \in 1..4
        BY <1>1, <2>2, <2>7, <2>8
      <4> HIDE DEF k
      <4>2. (k + 1) + 1 \in 1..4 /\ (k + 1) + 1 # 1 /\ ((k + 1) + 1) - 1 = k + 1
        BY <4>1
      <4> QED BY <4>2 DEF k
    <3>2. Start(file, i2) = file.ends[j]
      BY <3>1 DEF Start
    <3> HIDE DEF i2
    <3>3. /\ Start(file, i2) < file.ends[i2]
          /\ 0 = file.numbers[i2] \div Power[file.ends[i2] - Start(file, i2)]
      BY <1>4, <2>1, <3>1, NoGroups
    <3>4. file.ends[j] = file.ends[j] + 0
      BY <2>4
    <3> QED BY <3>2, <3>3, <3>4 DEF i2
  <2>9. pc' = "build" => pos' = file.ends[4]
    <3> SUFFICES ASSUME pc' = "build" PROVE pos' = file.ends[4]
      OBVIOUS
    <3>1. Len(fields) = 3
      BY <1>1
    <3>2. j = 4
      BY <3>1
    <3> QED BY <2>6, <3>2
  <2>10. pc' # "magic"
    BY <1>1
  <2>12. pc' = "fields" =>
           /\ pos' = Start(file', Len(fields') + 1) + groups'
           /\ pos' < file'.ends[Len(fields') + 1]
           /\ buffer' = file'.numbers[Len(fields') + 1]
                          \div Power[file'.ends[Len(fields') + 1] - pos']
    <3> HIDE DEF j
    <3> QED BY <1>1, <2>6, <2>7, <2>8
  <2>13. \A k \in 1..Len(fields') : fields'[k] = file'.numbers[k]
    BY <1>1, <2>7
  <2> HIDE DEF j
  <2> QED BY <1>1, <2>9, <2>10, <2>12, <2>13 DEF Reads, Start
<1> QED BY <1>1, <1>3, <1>4 DEF ReadsInv

\* The data of the header follows its numbers.
LEMMA ReadsBuild ==
  ASSUME EscapeInv, ReadsInv, BuildMsps
  PROVE  ReadsInv'
PROOF
<1>1. /\ pc = "build" /\ pc' = "escape" /\ file' = file /\ flags' = flags
  BY DEF BuildMsps
<1>2. file' \in Files /\ (file.whole => Reads')
  BY <1>1 DEF ReadsInv, Reads
<1>3. ASSUME file.whole
      PROVE  msps' = <<flags.pixfmt>> \o Bytes(file.numbers[1])
                       \o Bytes(file.numbers[2]) \o <<flags.bit_depth>>
                       \o file.data
  <2>1. HoldsAll(file) /\ file.bytes \in Seq(Byte) /\ Reads
    BY <1>3, EscapeAssumption DEF ReadsInv
  <2>2. /\ fields[1] = file.numbers[1] /\ fields[2] = file.numbers[2]
        /\ fields[4] = file.numbers[4] /\ pos = file.ends[4]
    <3>1. Len(fields) = 4
      BY <1>1 DEF EscapeInv, ReadingOK
    <3>2. 1 \in 1..Len(fields) /\ 2 \in 1..Len(fields) /\ 4 \in 1..Len(fields)
      BY <3>1
    <3> QED BY <1>1, <2>1, <3>2 DEF Reads
  <2> DEFINE d == file.data  b == file.bytes
  <2>3. /\ d \in Seq(Byte) /\ Len(d) = fields[4] /\ pos + Len(d) <= Len(b)
        /\ \A k \in 1..Len(d) : b[pos + k] = d[k]
        /\ Len(b) \in Nat /\ pos \in Nat
    <3>1. Len(b) \in Nat
      BY <2>1
    <3>2. pos \in Nat
      BY <3>1 DEF EscapeInv, ReadingOK
    <3> QED BY <2>1, <2>2, <3>1, <3>2 DEF HoldsAll
  <2>4. PICK data \in Filled(fields[4]) : msps' = Header \o data
    BY DEF BuildMsps
  <2>5. /\ data \in [1..Len(d) -> Byte]
        /\ \A k \in 1..Len(d) : pos + k <= Len(b) => data[k] = b[pos + k]
    BY <2>3, <2>4 DEF Filled
  <2> HIDE DEF d, b
  <2>6. Len(d) \in Nat
    BY <2>3
  <2>7. \A k \in 1..Len(d) : data[k] = d[k]
    <3>1. \A k \in 1..Len(d) : pos + k <= Len(b)
      BY <2>3, <2>6
    <3> QED BY <2>3, <2>5, <3>1
  <2>8. data \in Seq(Byte) /\ Len(data) = Len(d)
    BY <2>5, <2>6, SeqDef
  <2>9. data = d
    BY <2>3, <2>7, <2>8, SeqEqual
  <2>10. Header = <<flags.pixfmt>> \o Bytes(file.numbers[1])
                    \o Bytes(file.numbers[2]) \o <<flags.bit_depth>>
    BY <2>2 DEF Header
  <2> QED BY <2>4, <2>9, <2>10 DEF d
<1>4. HeaderRight'
  BY <1>1, <1>3 DEF HeaderRight, Bytes
<1> QED BY <1>1, <1>2, <1>4 DEF ReadsInv

\* What was built stays, until it is written.
LEMMA ReadsElse ==
  ASSUME EscapeInv, ReadsInv,
         CheckMagic \/ EscapePair \/ CopyByte \/ Finish \/ WriteAll
           \/ UNCHANGED vars
  PROVE  ReadsInv'
PROOF
<1>1. /\ file' = file /\ flags' = flags /\ msps' = msps /\ fields' = fields
      /\ buffer' = buffer /\ groups' = groups
  BY DEF CheckMagic, EscapePair, CopyByte, Finish, WriteAll, vars, ueVars
<1>2. \/ pc' = pc /\ pos' = pos
      \/ pc = "magic" /\ pc' \in {"fields", "exit"} /\ pos' = pos
      \/ pc \in {"escape", "write"} /\ pc' \in {"escape", "write", "exit"}
  BY DEF CheckMagic, EscapePair, CopyByte, Finish, WriteAll, vars
<1>3. HeaderRight' /\ file' \in Files
  BY <1>1, <1>2 DEF HeaderRight, Bytes, ReadsInv
<1>4. ASSUME file.whole PROVE Reads'
  <2>1. Reads
    BY <1>4 DEF ReadsInv
  <2>2. Start(file, Len(fields) + 1)' = Start(file, Len(fields) + 1)
    BY <1>1 DEF Start
  <2> QED BY <1>1, <1>2, <2>1, <2>2 DEF Reads
<1> QED BY <1>1, <1>3, <1>4 DEF ReadsInv

LEMMA ReadsInit == Init => ReadsInv
PROOF
<1> SUFFICES ASSUME Init PROVE ReadsInv
  OBVIOUS
<1>1. /\ pc = "magic" /\ file \in Files /\ pos = 0 /\ fields = <<>>
      /\ buffer = 0 /\ groups = 0
  BY DEF Init
<1>2. ASSUME file.whole PROVE Reads
  <2>1. /\ Start(file, 1) = 0 /\ Start(file, 1) < file.ends[1]
        /\ 0 = file.numbers[1] \div Power[file.ends[1] - Start(file, 1)]
    <3>1. 1 \in 1..4
      OBVIOUS
    <3> QED BY <1>1, <1>2, <3>1, NoGroups DEF Start
  <2>2. Len(fields) + 1 = 1 /\ pos = 0 + groups
    BY <1>1
  <2> QED BY <1>1, <2>1, <2>2 DEF Reads
<1> QED BY <1>1, <1>2 DEF ReadsInv, HeaderRight

------------------------------------------------------------------------------
\* bpg2hevc.c:54, 66-80: whatever stdin holds, the payload written contains no
\* start code, nor the beginning of one, and fits the buffer allocated for it.
THEOREM EscapeInvariant == Spec => []EscapeInv
PROOF
<1>1. Init => EscapeInv
  BY InitHolds
<1>2. EscapeInv /\ [Next]_vars => EscapeInv'
  <2> SUFFICES ASSUME EscapeInv, [Next]_vars PROVE EscapeInv'
    OBVIOUS
  <2>1. CASE CheckMagic \/ ReadGroup \/ ReadField
    BY <2>1, ReadingHolds
  <2>2. CASE BuildMsps
    BY <2>2, BuildMspsHolds
  <2>3. CASE EscapePair
    BY <2>3, EscapePairHolds
  <2>4. CASE CopyByte
    BY <2>4, CopyByteHolds
  <2>5. CASE Finish
    BY <2>5, FinishHolds
  <2>6. CASE WriteAll
    BY <2>6, WriteAllHolds
  <2>7. CASE UNCHANGED vars
    BY <2>7, StutterHolds
  <2> QED BY <2>1, <2>2, <2>3, <2>4, <2>5, <2>6, <2>7 DEF Next
<1> QED BY <1>1, <1>2, PTL DEF Spec

\* bpg2hevc.c:68-80: whatever stdin holds, a decoder that leaves the prevention
\* bytes out gets back the bytes of the header, at most with the 0x80 behind
\* them.
THEOREM RoundTripHolds == Spec => []RoundTrip
PROOF
<1>1. Init => DecodeInv
  BY DecodesEmpty DEF Init, DecodeInv
<1>2. EscapeInv /\ DecodeInv /\ [Next]_vars => DecodeInv'
  <2> SUFFICES ASSUME EscapeInv, DecodeInv, [Next]_vars PROVE DecodeInv'
    OBVIOUS
  <2>1. CASE EscapePair
    BY <2>1, DecodePairHolds
  <2>2. CASE CopyByte
    BY <2>2, DecodeCopyHolds
  <2>3. CASE Finish
    BY <2>3, DecodeFinishHolds
  <2>4. CASE CheckMagic \/ ReadGroup \/ ReadField \/ BuildMsps \/ WriteAll
               \/ UNCHANGED vars
    BY <2>4, DecodeElseHolds
  <2> QED BY <2>1, <2>2, <2>3, <2>4 DEF Next
<1>3. EscapeInv /\ DecodeInv => RoundTrip
  <2> SUFFICES ASSUME EscapeInv, DecodeInv, pc = "write"
               PROVE  Unescape(buf) \in {msps, Append(msps, Stop)}
    BY DEF RoundTrip
  <2>1. buf \in Seq(Byte) /\ msps \in Seq(Byte) /\ Append(msps, Stop) \in Seq(Byte)
    BY ByteFacts DEF EscapeInv, LoopOK
  <2>2. PICK t \in {msps, Append(msps, Stop)} : Decodes(buf, t, Len(t))
    BY DEF DecodeInv
  <2> QED BY <2>1, <2>2, DecodesUnescape
<1> QED BY <1>1, <1>2, <1>3, EscapeInvariant, PTL DEF Spec

\* bpg2hevc.c:9-21, 35-51, 117-119: of every whole file, with numbers of any
\* size and any padding, the header holds the width, the height and the data
\* that were meant.
THEOREM HeaderRightHolds == Spec => []HeaderRight
PROOF
<1>1. EscapeInv /\ ReadsInv /\ [Next]_vars => ReadsInv'
  <2> SUFFICES ASSUME EscapeInv, ReadsInv, [Next]_vars PROVE ReadsInv'
    OBVIOUS
  <2>1. CASE ReadGroup
    BY <2>1, ReadsGroup
  <2>2. CASE ReadField
    BY <2>2, ReadsField
  <2>3. CASE BuildMsps
    BY <2>3, ReadsBuild
  <2>4. CASE CheckMagic \/ EscapePair \/ CopyByte \/ Finish \/ WriteAll
               \/ UNCHANGED vars
    BY <2>4, ReadsElse
  <2> QED BY <2>1, <2>2, <2>3, <2>4 DEF Next
<1>2. ReadsInv => HeaderRight
  BY DEF ReadsInv
<1> QED BY <1>1, <1>2, ReadsInit, EscapeInvariant, PTL DEF Spec
==============================================================================
