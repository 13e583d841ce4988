----------------------------- MODULE ProbeProofs -----------------------------
(***************************************************************************)
(* For every clock, every rate and every interleaving: the arithmetic on   *)
(* times is right, the sender keeps its schedule, is at most one packet    *)
(* ahead of it, and warms up for the time it should.  And the two          *)
(* processes end together, also when only the reader of the output leaves. *)
(***************************************************************************)
EXTENDS ProbeClient, TLAPS

LEMMA Sizes ==
  /\ Giga \in Nat /\ Giga > 0 /\ Kilo \in Nat /\ Milli \in Nat /\ Milli > 0
  /\ Giga = Kilo * Milli
PROOF
<1>1. Giga \in Nat /\ Giga > 0 /\ Kilo \in Nat /\ Kilo > 0 /\ Giga % Kilo = 0
  BY TimespecAssumption
<1>2. Milli \in Nat /\ Giga = Kilo * Milli
  BY <1>1, Z3 DEF Milli
<1>3. Milli > 0
  <2> SUFFICES ASSUME Milli = 0 PROVE FALSE
    BY <1>2
  <2>1. Kilo * Milli = 0
    BY <1>1
  <2> QED BY <1>1, <1>2, <2>1
<1> QED BY <1>1, <1>2, <1>3

\* The quotient is determined by the two products around a number.
LEMMA DivUnique ==
  ASSUME NEW m \in Nat, m > 0, NEW n \in Int, NEW q \in Int,
         q * m <= n, n < q * m + m
  PROVE  n \div m = q
PROOF
<1>1. PICK d \in Int : d = n \div m
  OBVIOUS
<1>2. d * m <= n /\ n < d * m + m
  BY <1>1, Z3
<1>3. ~(d < q)
  <2> SUFFICES ASSUME d + 1 <= q PROVE FALSE
    OBVIOUS
  <2>1. (d + 1) * m <= q * m
    BY Z3
  <2>2. (d + 1) * m = d * m + m
    BY Z3
  <2> QED BY <1>2, <2>1, <2>2
<1>4. ~(q < d)
  <2> SUFFICES ASSUME q + 1 <= d PROVE FALSE
    OBVIOUS
  <2>1. (q + 1) * m <= d * m
    BY Z3
  <2>2. (q + 1) * m = q * m + m
    BY Z3
  <2> QED BY <1>2, <2>1, <2>2
<1> QED BY <1>1, <1>3, <1>4

\* Seconds and nanoseconds of the number k * Giga + r.
LEMMA DivOfTime ==
  ASSUME NEW m \in Nat, m > 0, NEW k \in Int, NEW r \in Nat
  PROVE  (k * m + r) \div m = k + r \div m
PROOF
<1> DEFINE q == r \div m
<1>1. q \in Int /\ q * m <= r /\ r < q * m + m
  BY Z3
<1> HIDE DEF q
<1>2. (k + q) * m = k * m + q * m
  BY <1>1, Z3
<1>3. k * m \in Int /\ q * m \in Int /\ (k + q) * m \in Int /\ k + q \in Int
  BY <1>1
<1>4. (k + q) * m <= k * m + r /\ k * m + r < (k + q) * m + m
  BY <1>1, <1>2, <1>3
<1>5. (k * m + r) \div m = k + q
  BY <1>3, <1>4, DivUnique
<1> QED BY <1>5 DEF q

------------------------------------------------------------------------------
(* The arithmetic on times.                                                 *)

LEMMA ValueOf ==
  ASSUME NEW s \in Int, NEW n \in Int
  PROVE  /\ Time(s, n) \in Times
         /\ Time(s, n).sec = s /\ Time(s, n).nsec = n
         /\ Value(Time(s, n)) = s * Giga + n
         /\ s * Giga \in Int
PROOF BY Sizes DEF Time, Times, Value

LEMMA ClockType ==
  ASSUME NEW n \in Nat
  PROVE  /\ Clock(n) \in Times /\ Normal(Clock(n)) /\ Value(Clock(n)) = n
         /\ Clock(n).nsec = n % Giga
PROOF
<1>1. n \div Giga \in Nat /\ n % Giga \in 0..(Giga - 1)
      /\ n = (n \div Giga) * Giga + (n % Giga)
  <2>1. n % Giga \in 0..(Giga - 1)
    BY Sizes
  <2>2. n \div Giga \in Nat
    BY Sizes
  <2>3. n = (n \div Giga) * Giga + (n % Giga)
    BY Sizes, Z3
  <2> QED BY <2>1, <2>2, <2>3
<1> DEFINE q == n \div Giga  r == n % Giga
<1>2. q \in Int /\ r \in Int /\ r \in 0..(Giga - 1) /\ n = q * Giga + r
  BY <1>1
<1>3. Clock(n) = Time(q, r)
  BY DEF Clock
<1> HIDE DEF q, r
<1>4. /\ Clock(n) \in Times /\ Normal(Clock(n)) /\ Value(Clock(n)) = n
      /\ Clock(n).nsec = r
  <2>1. /\ Time(q, r) \in Times /\ Time(q, r).nsec = r
        /\ Value(Time(q, r)) = q * Giga + r
    BY <1>2, ValueOf
  <2> QED BY <1>2, <1>3, <2>1 DEF Normal
<1> QED BY <1>4 DEF r

\* A second more or less is Giga nanoseconds.
LEMMA OneSecond ==
  ASSUME NEW s \in Int
  PROVE  (s + 1) * Giga = s * Giga + Giga /\ (s - 1) * Giga = s * Giga - Giga
PROOF BY Sizes, Z3

LEMMA Distribute ==
  ASSUME NEW s \in Int, NEW t \in Int
  PROVE  (s + t) * Giga = s * Giga + t * Giga /\ (s - t) * Giga = s * Giga - t * Giga
PROOF BY Sizes, Z3

LEMMA MonoaddRight ==
  ASSUME NEW a \in Times, NEW b \in Times, Normal(a), Normal(b)
  PROVE  LET s == TimespecMonoadd(a, b)
         IN  s \in Times /\ Normal(s) /\ Value(s) = Value(a) + Value(b)
PROOF
<1>1. /\ a.sec \in Int /\ b.sec \in Int /\ a.nsec \in Int /\ b.nsec \in Int
      /\ a.nsec \in 0..(Giga - 1) /\ b.nsec \in 0..(Giga - 1) /\ Giga \in Nat
  BY Sizes DEF Times, Normal
<1> DEFINE x == a.sec + b.sec  y == a.nsec + b.nsec
<1>2. x \in Int /\ y \in Int /\ y >= 0 /\ y < 2 * Giga
  BY <1>1
<1>3. TimespecMonoadd(a, b) =
        IF y >= Giga THEN Time(x + 1, y - Giga) ELSE Time(x, y)
  BY <1>2, ValueOf DEF TimespecMonoadd
<1>4. Value(a) + Value(b) = x * Giga + y
  <2>1. x * Giga = a.sec * Giga + b.sec * Giga
    BY <1>1, Distribute
  <2>2. a.sec * Giga \in Int /\ b.sec * Giga \in Int
    BY <1>1
  <2> QED BY <1>1, <2>1, <2>2 DEF Value
<1> HIDE DEF x, y
<1>5. CASE y >= Giga
  <2>1. TimespecMonoadd(a, b) = Time(x + 1, y - Giga)
    BY <1>3, <1>5
  <2>2. /\ Time(x + 1, y - Giga) \in Times
        /\ Time(x + 1, y - Giga).nsec = y - Giga
        /\ Value(Time(x + 1, y - Giga)) = (x + 1) * Giga + (y - Giga)
    <3> DEFINE s == x + 1  n == y - Giga
    <3>1. s \in Int /\ n \in Int
      BY <1>1, <1>2
    <3> HIDE DEF s, n
    <3>2. /\ Time(s, n) \in Times /\ Time(s, n).nsec = n
          /\ Value(Time(s, n)) = s * Giga + n
      BY <3>1, ValueOf
    <3> QED BY <3>2 DEF s, n
  <2>3. (x + 1) * Giga + (y - Giga) = x * Giga + y
    BY <1>1, <1>2, OneSecond, ValueOf
  <2> QED BY <1>1, <1>2, <1>4, <1>5, <2>1, <2>2, <2>3 DEF Normal
<1>6. CASE ~(y >= Giga)
  <2>1. TimespecMonoadd(a, b) = Time(x, y)
    BY <1>3, <1>6
  <2>2. Time(x, y) \in Times /\ Time(x, y).nsec = y /\ Value(Time(x, y)) = x * Giga + y
    BY <1>2, ValueOf
  <2>3. y \in 0..(Giga - 1)
    BY <1>1, <1>2, <1>6
  <2> QED BY <1>4, <2>1, <2>2, <2>3 DEF Normal
<1> QED BY <1>5, <1>6

\* A borrowed second changes the form of a time only.
LEMMA BorrowRight ==
  ASSUME NEW s \in Int, NEW n \in Int, -Giga < n, n <= Giga
  PROVE  /\ Borrow(Time(s, n)) \in Times
         /\ Value(Borrow(Time(s, n))) = s * Giga + n
         /\ Borrow(Time(s, n)).nsec \in 0..Giga
         /\ n < Giga => Normal(Borrow(Time(s, n)))
PROOF
<1>1. Borrow(Time(s, n)) = IF n < 0 THEN Time(s - 1, n + Giga) ELSE Time(s, n)
  BY ValueOf DEF Borrow
<1>2. CASE n < 0
  <2>1. Borrow(Time(s, n)) = Time(s - 1, n + Giga)
    BY <1>1, <1>2
  <2>2. /\ Time(s - 1, n + Giga) \in Times
        /\ Time(s - 1, n + Giga).nsec = n + Giga
        /\ Value(Time(s - 1, n + Giga)) = (s - 1) * Giga + (n + Giga)
    <3> DEFINE x == s - 1  y == n + Giga
    <3>1. x \in Int /\ y \in Int
      BY Sizes
    <3> HIDE DEF x, y
    <3>2. /\ Time(x, y) \in Times /\ Time(x, y).nsec = y
          /\ Value(Time(x, y)) = x * Giga + y
      BY <3>1, ValueOf
    <3> QED BY <3>2 DEF x, y
  <2>3. (s - 1) * Giga + (n + Giga) = s * Giga + n
    BY Sizes, OneSecond, ValueOf
  <2> QED BY <1>2, <2>1, <2>2, <2>3, Sizes DEF Normal
<1>3. CASE ~(n < 0)
  <2>1. Borrow(Time(s, n)) = Time(s, n)
    BY <1>1, <1>3
  <2>2. Time(s, n) \in Times /\ Time(s, n).nsec = n /\ Value(Time(s, n)) = s * Giga + n
    BY ValueOf
  <2>3. n \in 0..Giga /\ (n < Giga => n \in 0..(Giga - 1))
    BY <1>3, Sizes
  <2> QED BY <2>1, <2>2, <2>3 DEF Normal
<1> QED BY <1>2, <1>3

\* The sign of a difference is that of its seconds.
LEMMA SignOf ==
  ASSUME NEW s \in Int, NEW n \in Int, -Giga < n, n <= Giga
  PROVE  /\ s < 0 => s * Giga + n <= 0
         /\ s = 0 => s * Giga + n = n
         /\ s > 0 => s * Giga + n > 0
PROOF
<1>1. s < 0 => s * Giga <= -Giga
  BY Sizes, Z3
<1>2. s > 0 => s * Giga >= Giga
  BY Sizes, Z3
<1> QED BY <1>1, <1>2, Sizes, ValueOf

\* timespec_monodiff_rml, also for a right operand with a whole second of
\* nanoseconds, as ts_next may have.
LEMMA MonodiffRight ==
  ASSUME NEW a \in Times, NEW b \in Times, Normal(a), b.nsec \in 0..Giga
  PROVE  LET r == TimespecMonodiffRml(a, b)
         IN  /\ r \in Times /\ r.nsec \in 0..Giga
             /\ Value(r) = Positive(Value(b) - Value(a))
             /\ b.nsec < Giga => Normal(r)
PROOF
<1>1. /\ a.sec \in Int /\ b.sec \in Int /\ a.nsec \in Int /\ b.nsec \in Int
      /\ a.nsec \in 0..(Giga - 1) /\ Giga \in Nat /\ Giga > 0
  BY Sizes DEF Times, Normal
<1> DEFINE x == b.sec - a.sec  y == b.nsec - a.nsec
<1>2. x \in Int /\ y \in Int /\ -Giga < y /\ y <= Giga /\ (b.nsec < Giga => y < Giga)
  BY <1>1
<1>3. TimespecMonodiffRml(a, b) =
        IF x < 0 \/ (x = 0 /\ y < 0) THEN Zero ELSE Borrow(Time(x, y))
  BY <1>2, ValueOf DEF TimespecMonodiffRml
<1>4. Value(b) - Value(a) = x * Giga + y
  <2>1. x * Giga = b.sec * Giga - a.sec * Giga
    BY <1>1, Distribute
  <2>2. a.sec * Giga \in Int /\ b.sec * Giga \in Int
    BY <1>1
  <2> QED BY <1>1, <2>1, <2>2 DEF Value
<1> HIDE DEF x, y
<1>5. CASE x < 0 \/ (x = 0 /\ y < 0)
  <2>1. TimespecMonodiffRml(a, b) = Zero
    BY <1>3, <1>5
  <2>2. x * Giga + y <= 0 /\ x * Giga \in Int
    <3> DEFINE p == x * Giga
    <3>1. p \in Int /\ (x < 0 => p + y <= 0) /\ (x = 0 => p + y = y)
      BY <1>2, SignOf, ValueOf
    <3> HIDE DEF p
    <3>2. p + y <= 0
      BY <1>2, <1>5, <3>1
    <3> QED BY <3>1, <3>2 DEF p
  <2>3. Zero \in Times /\ Zero.nsec = 0 /\ Value(Zero) = 0
    <3>1. Zero \in Times /\ Zero.nsec = 0 /\ Value(Zero) = 0 * Giga + 0
      BY ValueOf DEF Zero
    <3> QED BY <1>1, <3>1
  <2> QED BY <1>1, <1>2, <1>4, <2>1, <2>2, <2>3 DEF Positive, Normal
<1>6. CASE ~(x < 0 \/ (x = 0 /\ y < 0))
  <2>1. TimespecMonodiffRml(a, b) = Borrow(Time(x, y))
    BY <1>3, <1>6
  <2>2. x * Giga + y >= 0 /\ x * Giga \in Int
    <3> DEFINE p == x * Giga
    <3>1. p \in Int /\ (x > 0 => p + y > 0) /\ (x = 0 => p + y = y)
      BY <1>2, SignOf, ValueOf
    <3> HIDE DEF p
    <3>2. p + y >= 0
      BY <1>2, <1>6, <3>1
    <3> QED BY <3>1, <3>2 DEF p
  <2>3. Positive(x * Giga + y) = x * Giga + y
    BY <1>2, <2>2 DEF Positive
  <2> QED BY <1>2, <1>4, <2>1, <2>3, BorrowRight
<1> QED BY <1>5, <1>6

\* timespec_diff and timespec_milli.
LEMMA DiffRight ==
  ASSUME NEW a \in Times, NEW b \in Times, Normal(a), Normal(b)
  PROVE  LET d == TimespecDiff(a, b)
         IN  /\ Normal(d) /\ Value(d) = Value(b) - Value(a)
             /\ TimespecMilli(d) = Value(d) \div Milli
PROOF
<1>1. /\ a.sec \in Int /\ b.sec \in Int /\ a.nsec \in Int /\ b.nsec \in Int
      /\ a.nsec \in 0..(Giga - 1) /\ b.nsec \in 0..(Giga - 1) /\ Giga \in Nat
  BY Sizes DEF Times, Normal
<1> DEFINE x == b.sec - a.sec  y == b.nsec - a.nsec
<1>2. x \in Int /\ y \in Int /\ -Giga < y /\ y < Giga /\ y <= Giga
  BY <1>1
<1>3. TimespecDiff(a, b) = Borrow(Time(x, y))
  BY DEF TimespecDiff
<1>4. Value(b) - Value(a) = x * Giga + y
  <2>1. x * Giga = b.sec * Giga - a.sec * Giga
    BY <1>1, Distribute
  <2>2. a.sec * Giga \in Int /\ b.sec * Giga \in Int
    BY <1>1
  <2> QED BY <1>1, <2>1, <2>2 DEF Value
<1> HIDE DEF x, y
<1> DEFINE d == TimespecDiff(a, b)
<1>5. d \in Times /\ Normal(d) /\ Value(d) = x * Giga + y
  BY <1>2, <1>3, BorrowRight
<1> HIDE DEF d
<1>6. TimespecMilli(d) = Value(d) \div Milli
  <2>1. d.sec \in Int /\ d.nsec \in Nat
    BY <1>5 DEF Times, Normal
  <2>2. d.sec * Giga = (d.sec * Kilo) * Milli
    BY <2>1, Sizes, Z3
  <2>3. d.sec * Kilo \in Int
    BY <2>1, Sizes
  <2>4. ((d.sec * Kilo) * Milli + d.nsec) \div Milli = d.sec * Kilo + d.nsec \div Milli
    BY <2>1, <2>3, Sizes, DivOfTime
  <2>5. Kilo * d.sec = d.sec * Kilo
    BY <2>1, Sizes
  <2> QED BY <2>2, <2>4, <2>5 DEF TimespecMilli, Value
<1> QED BY <1>4, <1>5, <1>6 DEF d

LEMMA TimesRightForAll ==
  ASSUME NEW a \in Times, NEW b \in Times, Normal(a), Normal(b)
  PROVE  TimesRightFor(a, b)
PROOF
<1>1. a.nsec \in 0..Giga /\ b.nsec \in 0..Giga /\ a.nsec < Giga /\ b.nsec < Giga
  BY Sizes DEF Normal
<1>2. LET r == TimespecMonodiffRml(a, b)
      IN  Normal(r) /\ Value(r) = Positive(Value(b) - Value(a))
  BY <1>1, MonodiffRight
<1>3. TimespecMonodiffLmr(a, b) = TimespecMonodiffRml(b, a)
  BY DEF TimespecMonodiffLmr, TimespecMonodiffRml
<1>4. LET l == TimespecMonodiffLmr(a, b)
      IN  Normal(l) /\ Value(l) = Positive(Value(a) - Value(b))
  BY <1>1, <1>3, MonodiffRight
<1> QED BY <1>2, <1>4, MonoaddRight, DiffRight DEF TimesRightFor

------------------------------------------------------------------------------
(* The schedule of the sender.                                              *)

\* The step of the schedule, whichever way the nanoseconds are carried.
LEMMA LaterRight ==
  ASSUME NEW t \in Times, t.nsec \in 0..Giga, NEW ns \in 0..Giga, ns > 0
  PROVE  /\ Later(t, ns) \in Times /\ Later(t, ns).nsec \in 0..Giga
         /\ Value(Later(t, ns)) = Value(t) + ns
         /\ t.nsec = Giga => Later(t, ns).nsec = ns
         /\ ns = Giga /\ t.nsec # Giga /\ t.nsec # 0 => Later(t, ns).nsec = t.nsec
PROOF
<1>1. t.sec \in Int /\ t.nsec \in Int /\ ns \in Int /\ Giga \in Nat /\ Giga > 0
  BY Sizes DEF Times
<1> DEFINE x == t.sec  y == t.nsec
<1>2. x \in Int /\ y \in Int /\ y \in 0..Giga
  BY <1>1
<1>3. Value(t) = x * Giga + y /\ x * Giga \in Int
  BY <1>1 DEF Value
<1>4. Later(t, ns) = IF y + ns > Giga THEN Time(x + 1, y + ns - Giga)
                     ELSE Time(x, y + ns)
  BY DEF Later
<1> HIDE DEF x, y
<1>5. CASE y + ns > Giga
  <2> DEFINE u == x + 1  v == y + ns - Giga
  <2>1. u \in Int /\ v \in Int /\ v \in 0..Giga /\ Later(t, ns) = Time(u, v)
    BY <1>1, <1>2, <1>4, <1>5
  <2>2. u * Giga = x * Giga + Giga
    BY <1>2, OneSecond
  <2>3. u * Giga + v = Value(t) + ns
    BY <1>1, <1>2, <1>3, <2>2
  <2>4. (y = Giga => v = ns) /\ (ns = Giga => v = y)
    BY <1>1, <1>2
  <2> HIDE DEF u, v
  <2>5. /\ Time(u, v) \in Times /\ Time(u, v).nsec = v
        /\ Value(Time(u, v)) = u * Giga + v
    BY <2>1, ValueOf
  <2> QED BY <2>1, <2>3, <2>4, <2>5 DEF y
<1>6. CASE ~(y + ns > Giga)
  <2> DEFINE v == y + ns
  <2>1. v \in Int /\ v \in 0..Giga /\ Later(t, ns) = Time(x, v)
    BY <1>1, <1>2, <1>4, <1>6
  <2>2. x * Giga + v = Value(t) + ns
    BY <1>1, <1>2, <1>3
  <2>3. y # Giga /\ (ns = Giga => y = 0)
    BY <1>1, <1>2, <1>6
  <2> HIDE DEF v
  <2>4. /\ Time(x, v) \in Times /\ Time(x, v).nsec = v
        /\ Value(Time(x, v)) = x * Giga + v
    BY <1>2, <2>1, ValueOf
  <2> QED BY <2>1, <2>2, <2>3, <2>4 DEF y
<1> QED BY <1>5, <1>6

\* What the invariant says in arithmetic.
LEMMA PacingFacts ==
  ASSUME PacingType
  PROVE  /\ now \in Int /\ start \in Int /\ seq_ \in Nat /\ delay_ns \in Int
         /\ until \in Int /\ Giga \in Nat /\ Giga > 0
         /\ delay_ns \in 0..Giga /\ (Started => delay_ns > 0)
         /\ Value(ts_next) \in Int /\ ts_next.nsec \in Int
         /\ Value(ts_delta) \in Int /\ ts_delta.nsec \in 0..Giga
         /\ Normal(ts_next) <=> ~Refused
         /\ seq_ * delay_ns \in Int
PROOF
<1>1. /\ now \in Int /\ start \in Int /\ seq_ \in Nat /\ delay_ns \in Int
      /\ until \in Int /\ Giga \in Nat /\ Giga > 0
      /\ delay_ns \in 0..Giga /\ (Started => delay_ns > 0)
  BY Sizes DEF PacingType, Started
<1>2. /\ ts_next \in Times /\ ts_next.nsec \in 0..Giga
      /\ ts_delta \in Times /\ ts_delta.nsec \in 0..Giga
  BY DEF PacingType
<1>3. Value(ts_next) \in Int /\ Value(ts_delta) \in Int
  BY <1>1, <1>2 DEF Times, Value
<1>4. Normal(ts_next) <=> ~Refused
  BY <1>1, <1>2 DEF Normal, Refused
<1> QED BY <1>1, <1>2, <1>3, <1>4

LEMMA PacingInitHolds == PacingInit => PacingInv
PROOF
<1> SUFFICES ASSUME PacingInit PROVE PacingInv
  OBVIOUS
<1>1. ~Started
  BY DEF PacingInit, Started
<1>2. Zero \in Times /\ Zero.nsec = 0 /\ 0 \in 0..Giga
  BY Sizes, ValueOf DEF Zero
<1>3. now \in Nat /\ delay_ns \in 0..Giga
  BY PacingAssumption DEF PacingInit
<1>4. PacingType
  BY <1>1, <1>2, <1>3 DEF PacingInit, PacingType
<1> QED BY <1>1, <1>4 DEF PacingInv, OnSchedule, PacingSlack

LEMMA BeginHolds ==
  ASSUME PacingInv, Begin
  PROVE  PacingInv'
PROOF
<1>1. /\ child = "start" /\ child' \in {"gone", "send"}
      /\ child' = "send" => delay_ns # 0
      /\ start' = now /\ ts_next' = Clock(now)
      /\ UNCHANGED <<now, delay_ns, ts_delta, until, seq_>>
  BY DEF Begin, settings, sleepVars
<1>2. PacingType
  BY DEF PacingInv
<1>3. now \in Nat /\ seq_ = 0 /\ delay_ns \in Nat /\ Giga \in Nat /\ Giga > 0
  BY <1>1, <1>2, Sizes DEF PacingType, Started
<1>4. /\ ts_next' \in Times /\ Normal(ts_next') /\ Value(ts_next') = now
      /\ ts_next'.nsec = now % Giga
  BY <1>1, <1>3, ClockType
<1>5. ts_next'.nsec \in 0..Giga /\ ts_next'.nsec # Giga
  BY <1>3, <1>4 DEF Normal
<1>6. PacingType'
  BY <1>1, <1>2, <1>3, <1>4, <1>5 DEF PacingType, Started
<1>7. OnSchedule'
  <2>1. seq_' * delay_ns' = 0
    BY <1>1, <1>3
  <2> QED BY <1>1, <1>3, <1>4, <2>1 DEF OnSchedule
<1>8. PacingSlack'
  <2> SUFFICES ASSUME Started', ~Flooding' PROVE
               /\ delay_ns' = Giga => ts_next'.nsec \notin {0, Giga}
               /\ child' = "send" /\ Ahead' <= 0
    BY <1>1 DEF PacingSlack
  <2>1. child' = "send"
    BY <1>1 DEF Started
  <2>2. Ahead' <= 0
    BY <1>1, <1>3, <1>4 DEF Ahead
  <2>3. delay_ns' = Giga => now % Giga # 0
    BY <1>1 DEF Flooding
  <2> QED BY <1>1, <1>4, <1>5, <2>1, <2>2, <2>3
<1> QED BY <1>6, <1>7, <1>8 DEF PacingInv

LEMMA SendHolds ==
  ASSUME PacingInv, Send
  PROVE  PacingInv'
PROOF
<1>1. /\ child = "send" /\ child' \in {"emulate", "sleep"}
      /\ seq_' = seq_ + 1 /\ ts_next' = Later(ts_next, delay_ns)
      /\ UNCHANGED <<now, start, delay_ns, ts_delta, until>>
  BY DEF Send, settings, sleepVars
<1>2. PacingType /\ Started
  BY <1>1 DEF PacingInv, Started
<1>3. /\ now \in Int /\ start \in Int /\ seq_ \in Nat /\ delay_ns \in Int
      /\ Giga \in Nat /\ delay_ns \in 0..Giga /\ delay_ns > 0
      /\ Value(ts_next) \in Int /\ seq_ * delay_ns \in Int
      /\ ts_next \in Times /\ ts_next.nsec \in 0..Giga
  BY <1>2, PacingFacts DEF PacingType
<1>4. /\ ts_next' \in Times /\ ts_next'.nsec \in 0..Giga
      /\ Value(ts_next') = Value(ts_next) + delay_ns
      /\ ts_next.nsec = Giga => ts_next'.nsec = delay_ns
      /\ delay_ns = Giga /\ ts_next.nsec # Giga /\ ts_next.nsec # 0 =>
           ts_next'.nsec = ts_next.nsec
  BY <1>1, <1>3, LaterRight
<1>5. PacingType'
  BY <1>1, <1>2, <1>3, <1>4 DEF PacingType, Started
<1>6. OnSchedule'
  <2>1. Value(ts_next) = start + seq_ * delay_ns
    BY <1>2 DEF PacingInv, OnSchedule
  <2>2. (seq_ + 1) * delay_ns = seq_ * delay_ns + delay_ns
    BY <1>3, Z3
  <2>3. Value(ts_next') = start + (seq_ + 1) * delay_ns
    BY <1>3, <1>4, <2>1, <2>2
  <2> QED BY <1>1, <2>3 DEF OnSchedule
<1>7. PacingSlack'
  <2> SUFFICES ASSUME ~Flooding'
               PROVE  /\ delay_ns = Giga => ts_next'.nsec \notin {0, Giga}
                      /\ Ahead' <= delay_ns \/ (~Refused' /\ Ahead' <= 2 * delay_ns)
    BY <1>1 DEF PacingSlack
  <2>1. ~Flooding
    BY <1>1 DEF Flooding
  <2>2. /\ delay_ns = Giga => ts_next.nsec \notin {0, Giga}
        /\ Ahead <= 0 \/ (Refused /\ Ahead <= delay_ns)
    BY <1>1, <1>2, <2>1 DEF PacingInv, PacingSlack
  <2>3. Ahead' = Ahead + delay_ns /\ Ahead \in Int
    BY <1>1, <1>3, <1>4 DEF Ahead
  <2>4. CASE Ahead <= 0
    BY <1>3, <1>4, <2>2, <2>3, <2>4
  <2>5. CASE Refused /\ Ahead <= delay_ns
    <3>1. ts_next.nsec = Giga /\ delay_ns # Giga
      BY <2>2, <2>5 DEF Refused
    <3>2. ts_next'.nsec = delay_ns
      BY <1>4, <3>1
    <3> QED BY <1>3, <2>3, <2>5, <3>1, <3>2 DEF Refused
  <2> QED BY <2>2, <2>4, <2>5
<1> QED BY <1>5, <1>6, <1>7 DEF PacingInv

\* The steps of a sleep leave the schedule alone.
LEMMA SleepingHolds ==
  ASSUME PacingInv, Sleep \/ Emulate \/ Nanosleep \/ Wake
  PROVE  PacingInv'
PROOF
<1>1. /\ UNCHANGED <<now, start, delay_ns, ts_next, seq_>>
      /\ Started /\ Started'
  BY DEF Sleep, Emulate, Nanosleep, Wake, settings, sleepVars, Started
<1>2. PacingType /\ OnSchedule
  BY DEF PacingInv
<1>3. OnSchedule'
  BY <1>1, <1>2 DEF OnSchedule
<1>4. /\ now \in Nat /\ until \in Int /\ delay_ns \in Int /\ Giga \in Nat
      /\ Value(ts_next) \in Int /\ ts_next \in Times /\ ts_next.nsec \in 0..Giga
      /\ Value(ts_delta) \in Int /\ (Normal(ts_next) <=> ~Refused)
      /\ ts_delta \in Times /\ ts_delta.nsec \in 0..Giga
      /\ Ahead \in Int /\ Ahead = Value(ts_next) - now
  BY <1>2, PacingFacts DEF PacingType, Ahead
<1>5. /\ Ahead' = Ahead /\ (Refused' <=> Refused) /\ (Flooding' <=> Flooding)
  BY <1>1 DEF Ahead, Refused, Flooding
<1>6. ~Flooding =>
        /\ delay_ns = Giga => ts_next.nsec \notin {0, Giga}
        /\ child # "send" => Ahead <= delay_ns \/ (~Refused /\ Ahead <= 2 * delay_ns)
        /\ child = "nanosleep" =>
             IF Normal(ts_delta) THEN Value(ts_delta) >= Ahead ELSE Refused
        /\ child = "asleep" => until >= Value(ts_next) \/ Refused
  BY <1>1 DEF PacingInv, PacingSlack
<1>7. CASE Sleep
  <2>1. /\ child = "sleep" /\ child' = "asleep" /\ ts_delta' = ts_delta
        /\ until' = IF Normal(ts_next) THEN Value(ts_next) ELSE now
    BY <1>7 DEF Sleep
  <2>2. until' \in Int /\ (until' >= Value(ts_next) \/ Refused)
    BY <1>4, <2>1
  <2>3. PacingType'
    BY <1>1, <1>2, <2>1, <2>2 DEF PacingType
  <2>4. PacingSlack'
    BY <1>1, <1>5, <1>6, <2>1, <2>2 DEF PacingSlack
  <2> QED BY <1>3, <2>3, <2>4 DEF PacingInv
<1>8. CASE Emulate
  <2>1. /\ child = "emulate" /\ child' = "nanosleep" /\ until' = until
        /\ ts_delta' = TimespecMonodiffRml(Clock(now), ts_next)
    BY <1>8 DEF Emulate
  <2>2. /\ Clock(now) \in Times /\ Normal(Clock(now)) /\ Value(Clock(now)) = now
    BY <1>4, ClockType
  <2>3. /\ ts_delta' \in Times /\ ts_delta'.nsec \in 0..Giga
        /\ Value(ts_delta') = Positive(Ahead)
        /\ ts_next.nsec < Giga => Normal(ts_delta')
    BY <1>4, <2>1, <2>2, MonodiffRight
  <2>4. Value(ts_delta') >= Ahead
    BY <1>4, <2>3 DEF Positive
  <2>5. ~Normal(ts_delta') => Refused
    BY <1>4, <2>3 DEF Refused
  <2>6. PacingType'
    BY <1>1, <1>2, <2>1, <2>3 DEF PacingType
  <2>7. PacingSlack'
    BY <1>1, <1>5, <1>6, <2>1, <2>4, <2>5 DEF PacingSlack, Normal
  <2> QED BY <1>3, <2>6, <2>7 DEF PacingInv
<1>9. CASE Nanosleep
  <2>1. /\ child = "nanosleep" /\ child' = "asleep" /\ ts_delta' = ts_delta
        /\ until' = IF Normal(ts_delta) THEN now + Value(ts_delta) ELSE now
    BY <1>9 DEF Nanosleep
  <2>2. until' \in Int
    BY <1>4, <2>1
  <2>3. ~Flooding => until' >= Value(ts_next) \/ Refused
    BY <1>4, <1>6, <2>1
  <2>4. PacingType'
    BY <1>1, <1>2, <2>1, <2>2 DEF PacingType
  <2>5. PacingSlack'
    BY <1>1, <1>5, <1>6, <2>1, <2>3 DEF PacingSlack
  <2> QED BY <1>3, <2>4, <2>5 DEF PacingInv
<1>10. CASE Wake
  <2>1. /\ child = "asleep" /\ child' = "send" /\ now >= until
        /\ UNCHANGED <<ts_delta, until>>
    BY <1>10 DEF Wake, sleepVars
  <2>2. ~Flooding => Ahead <= 0 \/ (Refused /\ Ahead <= delay_ns)
    BY <1>4, <1>6, <2>1
  <2>3. PacingType'
    BY <1>1, <1>2, <2>1 DEF PacingType
  <2>4. PacingSlack'
    BY <1>1, <1>5, <1>6, <2>1, <2>2 DEF PacingSlack
  <2> QED BY <1>3, <2>3, <2>4 DEF PacingInv
<1> QED BY <1>7, <1>8, <1>9, <1>10

LEMMA TickHolds ==
  ASSUME PacingInv, Tick
  PROVE  PacingInv'
PROOF
<1>1. /\ now' = now + 1
      /\ UNCHANGED <<delay_ns, child, start, ts_next, ts_delta, until, seq_>>
  BY DEF Tick, settings, sleepVars
<1>2. PacingType /\ OnSchedule /\ PacingSlack
  BY DEF PacingInv
<1>3. /\ now \in Int /\ delay_ns \in Int /\ Value(ts_next) \in Int
      /\ Value(ts_delta) \in Int
  BY <1>2, PacingFacts
<1>4. (Started' <=> Started) /\ (Flooding' <=> Flooding) /\ (Refused' <=> Refused)
  BY <1>1 DEF Started, Flooding, Refused
<1>5. Ahead' = Ahead - 1 /\ Ahead \in Int
  BY <1>1, <1>3 DEF Ahead
<1>6. PacingType'
  BY <1>1, <1>2, <1>4 DEF PacingType
<1>7. OnSchedule'
  BY <1>1, <1>2, <1>4 DEF OnSchedule
<1>8. PacingSlack'
  <2> SUFFICES ASSUME Started, ~Flooding
               PROVE  /\ delay_ns = Giga => ts_next.nsec \notin {0, Giga}
                      /\ child = "send" => Ahead' <= 0 \/ (Refused /\ Ahead' <= delay_ns)
                      /\ child # "send" => \/ Ahead' <= delay_ns
                                           \/ ~Refused /\ Ahead' <= 2 * delay_ns
                      /\ child = "nanosleep" =>
                           IF Normal(ts_delta) THEN Value(ts_delta) >= Ahead'
                           ELSE Refused
                      /\ child = "asleep" => until >= Value(ts_next) \/ Refused
    BY <1>1, <1>4 DEF PacingSlack
  <2> QED BY <1>2, <1>3, <1>5 DEF PacingSlack
<1> QED BY <1>6, <1>7, <1>8 DEF PacingInv

\* Something else happens.
LEMMA UnchangedHolds ==
  ASSUME PacingInv, UNCHANGED pacingVars
  PROVE  PacingInv'
PROOF
<1>1. UNCHANGED <<now, mach, delay_ns, child, start, ts_next, ts_delta, until, seq_>>
  BY DEF pacingVars
<1>2. /\ (Started' <=> Started) /\ (Flooding' <=> Flooding)
      /\ (Refused' <=> Refused) /\ Ahead' = Ahead
  BY <1>1 DEF Started, Flooding, Refused, Ahead
<1>3. PacingType'
  BY <1>1, <1>2 DEF PacingInv, PacingType
<1>4. OnSchedule' /\ PacingSlack'
  BY <1>1, <1>2 DEF PacingInv, OnSchedule, PacingSlack
<1> QED BY <1>3, <1>4 DEF PacingInv

\* The child is forked, or dies.
LEMMA StoppedHolds ==
  ASSUME PacingInv, child' \in {"start", "gone"},
         child' = "start" => child = "none",
         UNCHANGED <<now, delay_ns, start, ts_next, ts_delta, until, seq_>>
  PROVE  PacingInv'
PROOF
<1>1. ~Started'
  BY DEF Started
<1>2. PacingType'
  BY <1>1 DEF PacingInv, PacingType
<1>3. OnSchedule' /\ PacingSlack'
  BY <1>1 DEF OnSchedule, PacingSlack
<1> QED BY <1>2, <1>3 DEF PacingInv

THEOREM PacingInvariant == Spec => []PacingInv
PROOF
<1>1. Init => PacingInv
  BY PacingInitHolds DEF Init
<1>2. PacingInv /\ [Next]_vars => PacingInv'
  <2> SUFFICES ASSUME PacingInv, [Next]_vars PROVE PacingInv'
    OBVIOUS
  <2>1. CASE ChildSends
    BY <2>1, SendHolds DEF ChildSends
  <2>2. CASE ChildRuns
    BY <2>2, BeginHolds, SleepingHolds DEF ChildRuns
  <2>3. CASE TimePasses
    BY <2>3, TickHolds DEF TimePasses
  <2>4. CASE ChildDies
    <3>1. /\ child' = "gone"
          /\ UNCHANGED <<now, delay_ns, start, ts_next, ts_delta, until, seq_>>
      BY <2>4 DEF ChildDies, settings, sleepVars
    <3> QED BY <3>1, StoppedHolds
  <2>5. CASE Fork
    <3>1. UNCHANGED <<now, mach, delay_ns, start, ts_next, ts_delta, until, seq_>>
      BY <2>5 DEF Fork, settings, sleepVars
    <3>2. CASE child = "none" /\ child' = "start"
      BY <3>1, <3>2, StoppedHolds
    <3>3. CASE UNCHANGED child
      BY <3>1, <3>3, UnchangedHolds DEF pacingVars
    <3> QED BY <2>5, <3>2, <3>3 DEF Fork
  <2>6. CASE InstallHandler \/ Terminate \/ Interrupt \/ Receive \/ Timeout \/ ReaderLeaves
    <3>1. UNCHANGED pacingVars
      BY <2>6 DEF InstallHandler, Terminate, Interrupt, Receive, Timeout, ReaderLeaves
    <3> QED BY <3>1, UnchangedHolds
  <2>7. CASE UNCHANGED vars
    BY <2>7, UnchangedHolds DEF vars
  <2> QED BY <2>1, <2>2, <2>3, <2>4, <2>5, <2>6, <2>7 DEF Next
<1> QED BY <1>1, <1>2, PTL DEF Spec

\* udp_ts_seq_reply.cpp:177-181: the schedule has no drift.
THEOREM OnScheduleHolds == Spec => []OnSchedule
PROOF
<1>1. PacingInv => OnSchedule
  BY DEF PacingInv
<1> QED BY <1>1, PacingInvariant, PTL

LEMMA NotAheadFollows == PacingInv => NotAhead
PROOF
<1> SUFFICES ASSUME PacingInv, Started, ~Flooding
             PROVE  (seq_ - 2) * delay_ns <= now - start
  BY DEF NotAhead
<1>1. /\ now \in Int /\ start \in Int /\ seq_ \in Int /\ delay_ns \in Int
      /\ delay_ns > 0 /\ Value(ts_next) \in Int /\ seq_ * delay_ns \in Int
  BY PacingFacts DEF PacingInv
<1>2. Value(ts_next) = start + seq_ * delay_ns
  BY DEF PacingInv, OnSchedule
<1>3. Ahead = Value(ts_next) - now /\ Ahead \in Int
  BY <1>1 DEF Ahead
<1>4. Ahead <= 2 * delay_ns
  BY <1>1, <1>3 DEF PacingInv, PacingSlack
<1>5. (seq_ - 2) * delay_ns = seq_ * delay_ns - 2 * delay_ns
  BY <1>1, Z3
<1> QED BY <1>1, <1>2, <1>3, <1>4, <1>5

\* udp_ts_seq_reply.cpp:153-183: never more than one packet too early, on POSIX
\* and on Mach, whatever clock_nanosleep refuses.
THEOREM NotAheadHolds == Spec => []NotAhead
PROOF BY NotAheadFollows, PacingInvariant, PTL

\* The number of small packets, in time: between half of the seconds and all.
LEMMA WarmPacketsRight ==
  ASSUME delay_ns \in 1..Giga
  PROVE  /\ WarmPackets \in Nat /\ WarmPackets * delay_ns \in Int
         /\ WarmPackets * delay_ns <= Seconds * Giga
         /\ 2 * (WarmPackets * delay_ns) > Seconds * Giga
PROOF
<1> DEFINE q == Giga \div delay_ns  p == q * delay_ns
<1>1. Giga \in Nat /\ delay_ns \in Nat /\ delay_ns > 0 /\ delay_ns <= Giga
      /\ Seconds \in Nat /\ Seconds > 0
  BY Sizes, PacingAssumption
<1>2. q \in Int /\ q * delay_ns <= Giga /\ Giga < q * delay_ns + delay_ns
  BY <1>1, Z3
<1>3. q >= 1
  <2> SUFFICES ASSUME q <= 0 PROVE FALSE
    BY <1>2
  <2>1. q * delay_ns <= 0
    BY <1>1, <1>2, Z3
  <2> QED BY <1>1, <1>2, <2>1
<1>4. q * delay_ns >= delay_ns
  BY <1>1, <1>2, <1>3, Z3
<1>5. p \in Int /\ p <= Giga /\ 2 * p > Giga
  BY <1>1, <1>2, <1>4
<1>6. WarmPackets = q * Seconds
  BY DEF WarmPackets
<1>7. (q * Seconds) * delay_ns = Seconds * p
  BY <1>1, <1>2, Z3
<1>8. q * Seconds \in Nat
  BY <1>1, <1>2, <1>3
<1> HIDE DEF p, q
<1>9. Seconds * p \in Int /\ Seconds * p <= Seconds * Giga
  BY <1>1, <1>5, Z3
<1>10. 2 * (Seconds * p) > Seconds * Giga
  <2>1. Seconds * (2 * p) > Seconds * Giga
    BY <1>1, <1>5, Z3
  <2>2. Seconds * (2 * p) = 2 * (Seconds * p)
    BY <1>1, <1>5, Z3
  <2> QED BY <2>1, <2>2
<1> QED BY <1>6, <1>7, <1>8, <1>9, <1>10

LEMMA WarmupFollows == PacingInv => WarmupRight
PROOF
<1> SUFFICES ASSUME PacingInv, Started
             PROVE  /\ seq_ <= WarmPackets => Value(ts_next) - start <= Seconds * Giga
                    /\ seq_ > WarmPackets /\ ~Flooding =>
                         2 * (now - start) + 2 * delay_ns > Seconds * Giga
  BY DEF WarmupRight
<1>1. /\ now \in Int /\ start \in Int /\ seq_ \in Nat /\ delay_ns \in Nat
      /\ delay_ns \in 1..Giga /\ Value(ts_next) \in Int /\ seq_ * delay_ns \in Int
  BY PacingFacts DEF PacingInv
<1>2. Value(ts_next) = start + seq_ * delay_ns
  BY DEF PacingInv, OnSchedule
<1> DEFINE w == WarmPackets  g == Seconds * Giga
<1>3. /\ w \in Nat /\ w * delay_ns \in Int /\ w * delay_ns <= g
      /\ 2 * (w * delay_ns) > g /\ g \in Int
  BY <1>1, WarmPacketsRight, Sizes, PacingAssumption
<1> HIDE DEF w, g
<1>4. ASSUME seq_ <= w PROVE Value(ts_next) - start <= g
  <2>1. seq_ * delay_ns <= w * delay_ns
    BY <1>1, <1>3, <1>4, Z3
  <2> QED BY <1>1, <1>2, <1>3, <2>1
<1>5. ASSUME seq_ > w, ~Flooding PROVE 2 * (now - start) + 2 * delay_ns > g
  <2>1. (seq_ - 2) * delay_ns <= now - start
    BY <1>5, NotAheadFollows DEF NotAhead
  <2>2. (seq_ - 2) * delay_ns = seq_ * delay_ns - 2 * delay_ns
    BY <1>1, Z3
  <2>3. seq_ * delay_ns >= w * delay_ns + delay_ns
    <3>1. seq_ * delay_ns >= (w + 1) * delay_ns
      BY <1>1, <1>3, <1>5, Z3
    <3>2. (w + 1) * delay_ns = w * delay_ns + delay_ns
      BY <1>1, <1>3, Z3
    <3> QED BY <3>1, <3>2
  <2> QED BY <1>1, <1>3, <2>1, <2>2, <2>3
<1> QED BY <1>4, <1>5 DEF w, g

\* udp_ts_seq_reply.cpp:145, 169-171: how long the small packets are sent.
THEOREM WarmupRightHolds == Spec => []WarmupRight
PROOF BY WarmupFollows, PacingInvariant, PTL

\* timing_mach.h:68-122, udp_ts_seq_reply.cpp:22-38: the arithmetic on times.
THEOREM TimesRightHolds == Spec => []TimesRight
PROOF
<1>1. PacingInv => TimesRight
  <2> SUFFICES ASSUME PacingInv, NEW n \in 0..MaxNow
               PROVE  TimesRightFor(Clock(now), Clock(n))
    BY DEF TimesRight
  <2>1. now \in Nat /\ n \in Nat
    BY PacingAssumption DEF PacingInv, PacingType
  <2> QED BY <2>1, ClockType, TimesRightForAll
<1> QED BY <1>1, PacingInvariant, PTL

------------------------------------------------------------------------------
(***************************************************************************)
(* The end of the two processes.  Fairness is that of FairSpec, with what  *)
(* an action waits for written out in the place of ENABLED: a signal       *)
(* pending for a child that is alive, a fork to be made, handlers to be    *)
(* installed, and in measure a reply to be read or an outage to be         *)
(* reported.                                                               *)
(***************************************************************************)
Signalled == term /\ Alive
Listens == parent = "measure" /\ (net > 0 \/ ~outage_reported)

DeliversSignals == <>[]Signalled => []<><<term /\ ChildDies>>_vars
Forks == <>[](parent = "main") => []<><<Fork>>_vars
Installs == <>[](parent = "install") => []<><<InstallHandler>>_vars
Listening == <>[]Listens => []<><<Receive \/ Timeout>>_vars

\* A parent that has ended by a handler has signalled the child, and the
\* handlers come one after the other.
EndRight ==
  /\ parent \in {"main", "install", "measure", "gone"}
  /\ parent = "main" <=> child = "none" /\ parent # "gone"
  /\ handlers \in {{}, {"INT"}, {"INT", "TERM"}, Signals}
  /\ parent = "main" => handlers = {}
  /\ parent = "install" => handlers # Signals
  /\ parent = "measure" => handlers = Signals
  /\ net \in Nat /\ reader \in BOOLEAN /\ outage_reported \in BOOLEAN
  /\ term \in BOOLEAN /\ unhandled \in BOOLEAN
  /\ parent = "gone" /\ ~unhandled => ~Alive \/ term

LEMMA EndRightInit == Init => EndRight
PROOF
<1> SUFFICES ASSUME Init PROVE EndRight
  OBVIOUS
<1>1. /\ child = "none" /\ parent = "main" /\ handlers = {} /\ net = 0
      /\ outage_reported = FALSE /\ reader = TRUE /\ term = FALSE /\ unhandled = FALSE
  BY DEF Init, PacingInit
<1>2. {} # Signals
  BY DEF Signals
<1> QED BY <1>1, <1>2 DEF EndRight, Alive

LEMMA EndRightStep ==
  ASSUME EndRight, [Next]_vars
  PROVE  EndRight'
PROOF
<1> USE DEF EndRight
<1>1. CASE ChildSends
  <2>1. /\ child = "send" /\ child' \in {"emulate", "sleep"}
        /\ UNCHANGED <<parent, handlers, outage_reported, unhandled, term, reader>>
        /\ net' \in {net, net + 1}
    BY <1>1 DEF ChildSends, Send, parentVars
  <2> QED BY <2>1 DEF Alive
<1>2. CASE ChildRuns
  <2>1. /\ child # "none" /\ child' # "none" /\ (child = "gone" => child' = "gone")
        /\ UNCHANGED <<parent, handlers, outage_reported, unhandled, term, net, reader>>
    BY <1>2 DEF ChildRuns, Begin, Sleep, Emulate, Nanosleep, Wake, parentVars, worldVars
  <2> QED BY <2>1 DEF Alive
<1>3. CASE ChildDies
  <2>1. /\ Alive /\ child' = "gone"
        /\ UNCHANGED <<parent, handlers, outage_reported, unhandled, term, net, reader>>
    BY <1>3 DEF ChildDies, parentVars, worldVars
  <2> QED BY <2>1 DEF Alive
<1>4. CASE TimePasses \/ ReaderLeaves \/ UNCHANGED vars
  <2>1. /\ UNCHANGED <<child, parent, handlers, outage_reported, unhandled, term, net>>
        /\ reader' \in BOOLEAN
    BY <1>4 DEF TimePasses, Tick, ReaderLeaves, vars, pacingVars, parentVars, worldVars
  <2> QED BY <2>1 DEF Alive
<1>5. CASE Fork
  <2>1. /\ parent = "main" /\ child = "none"
        /\ \/ parent' = "install" /\ child' = "start"
           \/ parent' = "gone" /\ child' = child
        /\ UNCHANGED <<handlers, outage_reported, unhandled, term, net, reader>>
    BY <1>5 DEF Fork, worldVars
  <2>2. handlers = {}
    BY <2>1
  <2>3. {} # Signals
    BY DEF Signals
  <2>4. CASE parent' = "install" /\ child' = "start"
    BY <2>1, <2>2, <2>3, <2>4
  <2>5. CASE parent' = "gone" /\ child' = child
    BY <2>1, <2>5 DEF Alive
  <2> QED BY <2>1, <2>4, <2>5
<1>6. CASE InstallHandler
  <2>1. /\ parent = "install"
        /\ handlers' = handlers \cup
             {CASE handlers = {} -> "INT" [] handlers = {"INT"} -> "TERM" [] OTHER -> "PIPE"}
        /\ parent' = IF handlers = {"INT", "TERM"} THEN "measure" ELSE "install"
        /\ UNCHANGED <<child, outage_reported, unhandled, term, net, reader>>
    BY <1>6 DEF InstallHandler, pacingVars, worldVars
  <2>2. /\ handlers' \in {{}, {"INT"}, {"INT", "TERM"}, Signals}
        /\ parent' = "install" => handlers' # Signals
        /\ parent' = "measure" => handlers' = Signals
    <3>1. CASE handlers = {}
      BY <2>1, <3>1 DEF Signals
    <3>2. CASE handlers = {"INT"}
      BY <2>1, <3>2 DEF Signals
    <3>3. CASE handlers = {"INT", "TERM"}
      BY <2>1, <3>3 DEF Signals
    <3> QED BY <2>1, <3>1, <3>2, <3>3
  <2> QED BY <2>1, <2>2 DEF Alive
<1>7. ASSUME NEW s \in Signals, Handle(s), parent # "gone", net' \in Nat,
             outage_reported' \in BOOLEAN, UNCHANGED <<child, handlers, reader>>
      PROVE  EndRight'
  <2>1. /\ parent' = "gone" /\ unhandled' = (s \notin handlers)
        /\ term' = (term \/ (s \in handlers /\ Alive))
    BY <1>7 DEF Handle
  <2>2. unhandled' \in BOOLEAN /\ term' \in BOOLEAN /\ (~unhandled' => ~Alive \/ term')
    BY <2>1
  <2> QED BY <1>7, <2>1, <2>2 DEF Alive
<1>8. CASE Terminate
  BY <1>7, <1>8 DEF Terminate, pacingVars, Signals
<1>9. CASE Interrupt
  <2>1. /\ parent' = "gone" /\ unhandled' = ("INT" \notin handlers) /\ term' = Alive
        /\ UNCHANGED <<child, handlers, outage_reported, net, reader>>
    BY <1>9 DEF Interrupt, pacingVars
  <2>2. unhandled' \in BOOLEAN /\ term' \in BOOLEAN /\ (~unhandled' => ~Alive \/ term')
    BY <2>1 DEF Alive
  <2> QED BY <2>1, <2>2 DEF Alive
<1>10. CASE Receive \/ Timeout
  <2>1. /\ parent = "measure" /\ net' \in Nat /\ outage_reported' \in BOOLEAN
        /\ UNCHANGED <<child, handlers, reader>>
        /\ UNCHANGED <<parent, unhandled, term>> \/ Handle("PIPE")
    <3>1. CASE Receive
      <4>1. net > 0 /\ net' = net - 1
        BY <3>1 DEF Receive
      <4>2. net' \in Nat
        BY <4>1
      <4> QED BY <3>1, <4>2 DEF Receive, Flush, pacingVars
    <3>2. CASE Timeout
      BY <1>10, <3>2 DEF Timeout, Flush, pacingVars
    <3> QED BY <1>10, <3>1, <3>2
  <2>2. CASE Handle("PIPE")
    BY <1>7, <2>1, <2>2 DEF Signals
  <2>3. CASE UNCHANGED <<parent, unhandled, term>>
    BY <2>1, <2>3 DEF Alive
  <2> QED BY <2>1, <2>2, <2>3
<1> QED BY <1>1, <1>2, <1>3, <1>4, <1>5, <1>6, <1>8, <1>9, <1>10 DEF Next

LEMMA EndInvariant == Spec => []EndRight
PROOF BY EndRightInit, EndRightStep, PTL DEF Spec

\* Nothing brings a dead child back, and nobody takes a signal back.
LEMMA GoneStays ==
  ASSUME EndRight, [Next]_vars, parent = "gone"
  PROVE  /\ parent' = "gone" /\ unhandled' = unhandled
         /\ ~Alive => ~Alive'
         /\ term => term'
PROOF
<1>1. CASE ChildSends \/ ChildRuns \/ ChildDies
  BY <1>1 DEF ChildSends, Send, ChildRuns, Begin, Sleep, Emulate, Nanosleep, Wake,
    ChildDies, parentVars, worldVars, Alive
<1>2. CASE TimePasses \/ ReaderLeaves \/ UNCHANGED vars
  BY <1>2 DEF TimePasses, Tick, ReaderLeaves, vars, pacingVars, parentVars,
    worldVars, Alive
<1>3. ~(Fork \/ InstallHandler \/ Terminate \/ Interrupt \/ Receive \/ Timeout)
  BY DEF Fork, InstallHandler, Terminate, Interrupt, Receive, Timeout
<1> QED BY <1>1, <1>2, <1>3 DEF Next

LEMMA DiesIsGone == ASSUME ChildDies PROVE ~Alive'
PROOF BY DEF ChildDies, Alive

\* Lines 386-391, 505-517: whichever process runs when, and wherever a signal
\* strikes, a parent that ended by one of its handlers takes the child with it.
THEOREM ChildFollowsHolds == Spec /\ DeliversSignals => ChildFollows
PROOF
<1> DEFINE P == parent = "gone" /\ ~unhandled  Q == ~Alive
<1>1. EndRight /\ P /\ ~Q => Signalled
  BY DEF EndRight, Signalled
<1>2. EndRight /\ P /\ [Next]_vars => P'
  BY GoneStays
<1>3. EndRight /\ P /\ <<term /\ ChildDies>>_vars => Q'
  BY DiesIsGone
<1>4. EndRight /\ P /\ Q /\ [Next]_vars => Q'
  BY GoneStays
<1> HIDE DEF P, Q
<1>5. Spec /\ DeliversSignals => (P ~> Q)
  BY <1>1, <1>2, <1>3, <1>4, EndInvariant, PTL DEF Spec, DeliversSignals
<1> QED BY <1>5 DEF P, Q, ChildFollows

\* Where nobody reads and no outage is reported, the next line ends the parent.
Unread == ~reader /\ ~outage_reported /\ parent # "gone"

LEMMA UnreadStays ==
  ASSUME EndRight, [Next]_vars, Unread
  PROVE  /\ Unread' \/ parent' = "gone"
         /\ \/ parent' = "gone"
            \/ parent = "main" /\ parent' = "install" /\ handlers' = {}
            \/ InstallHandler
            \/ parent' = parent /\ handlers' = handlers
PROOF
<1> USE DEF Unread
<1>1. CASE ChildSends \/ ChildRuns \/ ChildDies
  BY <1>1 DEF ChildSends, ChildRuns, ChildDies, parentVars, worldVars
<1>2. CASE TimePasses \/ ReaderLeaves \/ UNCHANGED vars
  BY <1>2 DEF TimePasses, ReaderLeaves, vars, parentVars, worldVars
<1>3. CASE Fork
  BY <1>3 DEF Fork, worldVars, EndRight
<1>4. CASE InstallHandler
  <2>1. parent' \in {"measure", "install"} /\ UNCHANGED <<outage_reported, reader>>
    BY <1>4 DEF InstallHandler, worldVars
  <2> QED BY <1>4, <2>1
<1>5. CASE Terminate \/ Interrupt
  BY <1>5 DEF Terminate, Interrupt, Handle
<1>6. CASE Receive \/ Timeout
  BY <1>6 DEF Receive, Timeout, Flush, Handle
<1> QED BY <1>1, <1>2, <1>3, <1>4, <1>5, <1>6 DEF Next

LEMMA InstallNext ==
  ASSUME EndRight, InstallHandler
  PROVE  \/ handlers = {} /\ parent' = "install" /\ handlers' = {"INT"}
         \/ handlers = {"INT"} /\ parent' = "install" /\ handlers' = {"INT", "TERM"}
         \/ handlers = {"INT", "TERM"} /\ parent' = "measure"
PROOF
<1>1. /\ handlers \in {{}, {"INT"}, {"INT", "TERM"}}
      /\ handlers' = handlers \cup
           {CASE handlers = {} -> "INT" [] handlers = {"INT"} -> "TERM" [] OTHER -> "PIPE"}
      /\ parent' = IF handlers = {"INT", "TERM"} THEN "measure" ELSE "install"
  BY DEF InstallHandler, EndRight
<1>2. CASE handlers = {}
  BY <1>1, <1>2
<1>3. CASE handlers = {"INT"}
  BY <1>1, <1>3
<1>4. CASE handlers = {"INT", "TERM"}
  BY <1>1, <1>4
<1> QED BY <1>1, <1>2, <1>3, <1>4

\* Lines 244, 380, 516: when nobody reads any more and no outage has been
\* reported, the parent gets to measure, if it is not there yet, and the next
\* line it prints ends both processes.
THEOREM EndsUnreadHolds ==
  Spec /\ DeliversSignals /\ Forks /\ Installs /\ Listening => EndsUnread
PROOF
<1> DEFINE Gone == parent = "gone"
           U == ~reader /\ ~outage_reported
           S0 == Unread /\ parent = "main"
           S1 == Unread /\ parent = "install" /\ handlers = {}
           S2 == Unread /\ parent = "install" /\ handlers = {"INT"}
           S3 == Unread /\ parent = "install" /\ handlers = {"INT", "TERM"}
           S4 == Unread /\ parent = "measure"
           Main == parent = "main"  Install == parent = "install"
           Un == unhandled  Dead == ~Alive
<1>1. EndRight /\ U => S0 \/ S1 \/ S2 \/ S3 \/ S4 \/ Gone
  BY DEF EndRight, Unread
<1>2. /\ S0 => Main
      /\ S1 \/ S2 \/ S3 => Install
      /\ S4 => Listens
  BY DEF Unread, Listens
<1>3. EndRight /\ S0 /\ [Next]_vars => (S0 \/ S1 \/ Gone)'
  BY UnreadStays DEF InstallHandler, Unread
<1>4. EndRight /\ S0 /\ <<Fork>>_vars => (S1 \/ Gone)'
  BY UnreadStays DEF Fork, Next, InstallHandler, Unread
<1>5. EndRight /\ S1 /\ [Next]_vars => (S1 \/ S2 \/ Gone)'
  BY UnreadStays, InstallNext DEF Unread
<1>6. EndRight /\ S1 /\ <<InstallHandler>>_vars => (S2 \/ Gone)'
  BY UnreadStays, InstallNext DEF Next, Unread
<1>7. EndRight /\ S2 /\ [Next]_vars => (S2 \/ S3 \/ Gone)'
  BY UnreadStays, InstallNext DEF Unread
<1>8. EndRight /\ S2 /\ <<InstallHandler>>_vars => (S3 \/ Gone)'
  BY UnreadStays, InstallNext DEF Next, Unread
<1>9. EndRight /\ S3 /\ [Next]_vars => (S3 \/ S4 \/ Gone)'
  BY UnreadStays, InstallNext DEF Unread
<1>10. EndRight /\ S3 /\ <<InstallHandler>>_vars => (S4 \/ Gone)'
  BY UnreadStays, InstallNext DEF Next, Unread
<1>11. EndRight /\ S4 /\ [Next]_vars => (S4 \/ Gone)'
  BY UnreadStays DEF InstallHandler, Unread
<1>12. EndRight /\ S4 /\ <<Receive \/ Timeout>>_vars => Gone'
  BY DEF Receive, Timeout, Flush, Handle, Unread
<1>13. EndRight /\ Gone /\ [Next]_vars => Gone' /\ (Un => Un') /\ (Dead => Dead')
  BY GoneStays
<1>14. EndRight /\ Gone /\ ~Un /\ [Next]_vars => ~Un'
  BY GoneStays
<1>15. Spec /\ DeliversSignals => ((Gone /\ ~Un) ~> Dead)
  BY ChildFollowsHolds DEF ChildFollows
<1> HIDE DEF Gone, U, S0, S1, S2, S3, S4, Main, Install, Un, Dead
<1>16. Spec /\ Forks => (S0 ~> S1 \/ Gone)
  BY <1>2, <1>3, <1>4, EndInvariant, PTL DEF Spec, Forks, Main
<1>17. Spec /\ Installs => (S1 ~> S2 \/ Gone)
  BY <1>2, <1>5, <1>6, EndInvariant, PTL DEF Spec, Installs, Install
<1>18. Spec /\ Installs => (S2 ~> S3 \/ Gone)
  BY <1>2, <1>7, <1>8, EndInvariant, PTL DEF Spec, Installs, Install
<1>19. Spec /\ Installs => (S3 ~> S4 \/ Gone)
  BY <1>2, <1>9, <1>10, EndInvariant, PTL DEF Spec, Installs, Install
<1>20. Spec /\ Listening => (S4 ~> Gone)
  BY <1>2, <1>11, <1>12, EndInvariant, PTL DEF Spec, Listening
<1>21. Spec /\ DeliversSignals => (Gone ~> Gone /\ (Un \/ Dead))
  BY <1>13, <1>14, <1>15, EndInvariant, PTL DEF Spec
<1>22. Spec /\ DeliversSignals /\ Forks /\ Installs /\ Listening
         => (U ~> Gone /\ (Un \/ Dead))
  BY <1>1, <1>16, <1>17, <1>18, <1>19, <1>20, <1>21, EndInvariant, PTL
<1> QED BY <1>22 DEF U, Gone, Un, Dead, EndsUnread
==============================================================================
