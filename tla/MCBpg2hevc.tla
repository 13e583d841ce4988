----------------------------- MODULE MCBpg2hevc ------------------------------
(***************************************************************************)
(* Small files for Bpg2hevc: bytes of 8 values, groups of 4, ints of two   *)
(* bytes, numbers in minimal and padded encodings, whole files and files   *)
(* that end early.                                                         *)
(***************************************************************************)
EXTENDS Bpg2hevc

MCShifts == <<8, 1>>
MCGroups == 4

\* The groups of n, with a continuation bit (4) on all but the last.
Encodings(n) ==
  LET digit(k, size) == (n \div 4^(size - k)) % 4 IN
  {[k \in 1..size |-> digit(k, size) + (IF k < size THEN 4 ELSE 0)] :
     size \in {s \in 1..MCGroups : n < 4^s /\ (s < 3 \/ n >= 4)}}

\* What the author of a file meant, and the ways to write it.
Meant ==
  {[width |-> w, height |-> h, data |-> d] :
     w \in {0, 8, 63}, h \in {1, 24},
     d \in UNION {[1..n -> {0, 1, 3}] : n \in 0..3}}
Whole(m, w, h, l) ==
  [bytes |-> w \o h \o <<2>> \o l \o m.data \o <<7>>, whole |-> TRUE,
   numbers |-> <<m.width, m.height, 2, Len(m.data)>>,
   ends |-> <<Len(w), Len(w) + Len(h), Len(w) + Len(h) + 1,
              Len(w) + Len(h) + 1 + Len(l)>>,
   data |-> m.data]
Written(m) ==
  {Whole(m, w, h, l) :
     w \in Encodings(m.width), h \in Encodings(m.height),
     l \in Encodings(Len(m.data))}

\* A file that ends early.
Cut(s, n) ==
  [bytes |-> SubSeq(s, 1, n), whole |-> FALSE, numbers |-> <<>>, ends |-> <<>>,
   data |-> <<>>]

MCFiles ==
  UNION {Written(m) : m \in Meant}
    \cup {Cut(<<2, 1, 2, 3, 0, 0, 3>>, n) : n \in 0..7}
    \cup {Cut(<<7, 4, 4, 1, 4, 3, 0, 2, 0>>, n) : n \in 0..9}

MCFlags ==
  LET said(m, a, p, b) == [magic |-> m, alpha |-> a, pixfmt |-> p, bit_depth |-> b]
  IN  {said(TRUE, FALSE, p, b) : p \in {0, 4}, b \in {0, 2}}
        \cup {said(FALSE, FALSE, 4, 2), said(TRUE, TRUE, 4, 2)}
==============================================================================
