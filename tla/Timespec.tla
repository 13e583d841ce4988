------------------------------ MODULE Timespec -------------------------------
(***************************************************************************)
(* The arithmetic on struct timespec of timing_mach.h and of               *)
(* udp_ts_seq_reply.cpp.  Value is the reference: a time as one number.    *)
(***************************************************************************)
EXTENDS Integers

CONSTANTS
  Giga,  \* TIMING_GIGA, nanoseconds in a second (10^9)
  Kilo   \* milliseconds in a second (1000)

ASSUME TimespecAssumption ==
  /\ Giga \in Nat \ {0} /\ Kilo \in Nat \ {0} /\ Giga % Kilo = 0

Milli == Giga \div Kilo
Time(sec, nsec) == [sec |-> sec, nsec |-> nsec]
Times == [sec : Int, nsec : Int]
Value(t) == t.sec * Giga + t.nsec
Normal(t) == t.nsec \in 0..(Giga - 1)
Zero == Time(0, 0)

\* clock_gettime at time n.
Clock(n) == Time(n \div Giga, n % Giga)

\* Faulty variant: nothing is borrowed.
BorrowNothing(t) == t

\* A negative number of nanoseconds borrows a second.
Borrow(t) == IF t.nsec < 0 THEN Time(t.sec - 1, t.nsec + Giga) ELSE t

\* timespec_monoadd: out + in.
TimespecMonoadd(out, in) ==
  LET t == Time(out.sec + in.sec, out.nsec + in.nsec)
  IN  IF t.nsec >= Giga THEN Time(t.sec + 1, t.nsec - Giga) ELSE t

\* timespec_monodiff_lmr: out - in, or 0 if that is negative.
TimespecMonodiffLmr(out, in) ==
  LET t == Time(out.sec - in.sec, out.nsec - in.nsec)
  IN  IF t.sec < 0 \/ (t.sec = 0 /\ t.nsec < 0) THEN Zero ELSE Borrow(t)

\* timespec_monodiff_rml: in - out, or 0 if that is negative.
TimespecMonodiffRml(out, in) ==
  LET t == Time(in.sec - out.sec, in.nsec - out.nsec)
  IN  IF t.sec < 0 \/ (t.sec = 0 /\ t.nsec < 0) THEN Zero ELSE Borrow(t)

\* timespec_diff: stop - start.
TimespecDiff(start, stop) ==
  Borrow(Time(stop.sec - start.sec, stop.nsec - start.nsec))

\* timespec_milli.
TimespecMilli(q) == Kilo * q.sec + q.nsec \div Milli

\* A number, or 0 if it is negative.
Positive(n) == IF n > 0 THEN n ELSE 0

\* What the functions promise for two normal times (timing_mach.h:68-122,
\* udp_ts_seq_reply.cpp:22-38): normal results, the sum, the differences, cut
\* off at 0 where the comment says one operand is the later, and milliseconds
\* rounded down.
TimesRightFor(a, b) ==
  /\ LET s == TimespecMonoadd(a, b) IN Normal(s) /\ Value(s) = Value(a) + Value(b)
  /\ LET l == TimespecMonodiffLmr(a, b)
     IN  Normal(l) /\ Value(l) = Positive(Value(a) - Value(b))
  /\ LET r == TimespecMonodiffRml(a, b)
     IN  Normal(r) /\ Value(r) = Positive(Value(b) - Value(a))
  /\ LET d == TimespecDiff(a, b)
     IN  Normal(d) /\ Value(d) = Value(b) - Value(a)
         /\ TimespecMilli(d) = Value(d) \div Milli
==============================================================================
