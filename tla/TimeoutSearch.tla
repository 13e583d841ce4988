--------------------------- MODULE TimeoutSearch ----------------------------
(***************************************************************************)
(* The search of udptimeoutchecker.c (one_experiment and probe): double a  *)
(* timeout until three tries in a row fail, bisect, and print the middle   *)
(* of three such results.                                                  *)
(*                                                                         *)
(* Here a try is one step.  Its answer is that of a NAT that forgets an    *)
(* idle mapping after natTimeout ticks, up to Jitter ticks of variation in *)
(* the delay of datagrams; besides that a try may be spoiled and fail      *)
(* although the mapping was surely alive.  UdpTimeoutChecker models what a *)
(* try really does and implements this specification.                      *)
(***************************************************************************)
EXTENDS Integers

CONSTANTS
  Cap,          \* the doubling ends here (512)
  Sec,          \* ticks of a second
  Jitter,       \* bound on the delay of a datagram, in ticks
  NatTimeouts,  \* idle times after which a NAT may forget a mapping, in ticks
  MaxSpoiled    \* bound on the spoiled tries

ASSUME SearchAssumption ==
  /\ Cap \in Nat \ {0} /\ Sec \in Nat \ {0}
  /\ Jitter \in Nat /\ MaxSpoiled \in Nat
  /\ NatTimeouts \subseteq Nat

VARIABLES
  phase,        \* the loop one_experiment is in; "report": the end of probe
  max_to, min_to, num_fails,
  exps, n,      \* the results so far are exps[1], ..., exps[n]
  result,       \* what probe prints, -1 before
  natTimeout,
  spoiled       \* history: tries that failed on a live mapping

bracketVars == <<phase, max_to, min_to, num_fails>>
searchVars == <<bracketVars, exps, n, result, natTimeout, spoiled>>

Experiments == 1..3
Searching == phase \in {"double", "bisect"}

\* The timeout the next try is called with.
Candidate == IF phase = "double" THEN max_to ELSE (min_to + max_to) \div 2

\* Timeouts that can be answered at all, and those that surely are.
Reach(c) == c * Sec <= natTimeout + Jitter
Sure(c)  == c * Sec <= natTimeout - 2 * Jitter

SearchTypeOK ==
  /\ phase \in {"double", "bisect", "report", "done"}
  /\ max_to \in 1..(2 * Cap) /\ min_to \in 0..(2 * Cap) /\ num_fails \in 0..3
  /\ exps \in [Experiments -> 0..(2 * Cap)] /\ n \in 0..3
  /\ result \in -1..(2 * Cap)
  /\ natTimeout \in NatTimeouts
  /\ spoiled \in Nat

SearchInit ==
  /\ phase = "double" /\ max_to = 1 /\ min_to = 0 /\ num_fails = 0
  /\ exps = [i \in Experiments |-> 0] /\ n = 0 /\ result = -1
  /\ natTimeout \in NatTimeouts /\ spoiled = 0

------------------------------------------------------------------------------
(* one_experiment returns r: probe calls it again or goes on to sort.       *)
EndExperiment(r) ==
  /\ exps' = [exps EXCEPT ![n + 1] = r] /\ n' = n + 1
  /\ phase' = IF n = 2 THEN "report" ELSE "double"
  /\ max_to' = 1 /\ min_to' = 0 /\ num_fails' = 0

\* Faulty variant: the bisection returns its upper end.
NarrowUpperEnd(lo, hi) ==
  IF hi - lo <= 2 THEN EndExperiment(hi)
  ELSE /\ phase' = "bisect" /\ min_to' = lo /\ max_to' = hi
       /\ num_fails' = 0 /\ UNCHANGED <<exps, n>>

\* Faulty variant: the bisection stops too early.
NarrowTooWide(lo, hi) ==
  IF hi - lo <= 4 THEN EndExperiment(lo)
  ELSE /\ phase' = "bisect" /\ min_to' = lo /\ max_to' = hi
       /\ num_fails' = 0 /\ UNCHANGED <<exps, n>>

\* Faulty variant: the bisection waits for an empty bracket.
NarrowToNothing(lo, hi) ==
  IF hi - lo < 1 THEN EndExperiment(lo)
  ELSE /\ phase' = "bisect" /\ min_to' = lo /\ max_to' = hi
       /\ num_fails' = 0 /\ UNCHANGED <<exps, n>>

\* The head of the bisection loop.
Narrow(lo, hi) ==
  IF hi - lo <= 2 THEN EndExperiment(lo)
  ELSE /\ phase' = "bisect" /\ min_to' = lo /\ max_to' = hi
       /\ num_fails' = 0 /\ UNCHANGED <<exps, n>>

\* try returned 0.
Answered ==
  \/ phase = "double" /\ max_to >= Cap /\ EndExperiment(max_to)
  \/ /\ phase = "double" /\ max_to < Cap
     /\ max_to' = 2 * max_to /\ num_fails' = 0
     /\ UNCHANGED <<phase, min_to, exps, n>>
  \/ phase = "bisect" /\ Narrow(Candidate, max_to)

\* try returned -1.
Unanswered ==
  \/ /\ phase = "double" /\ num_fails < 2
     /\ num_fails' = num_fails + 1
     /\ UNCHANGED <<phase, max_to, min_to, exps, n>>
  \/ phase = "double" /\ num_fails = 2 /\ max_to = 1 /\ EndExperiment(0)
  \/ /\ phase = "double" /\ num_fails = 2 /\ max_to > 1
     /\ Narrow(max_to \div 2, max_to)
  \/ phase = "bisect" /\ Narrow(min_to, Candidate)

TryOk == /\ Answered
         /\ UNCHANGED <<result, natTimeout, spoiled>>

TryFails ==
  /\ Unanswered
  /\ spoiled' = IF Sure(Candidate) THEN spoiled + 1 ELSE spoiled
  /\ UNCHANGED <<result, natTimeout>>

\* Faulty variant: the second result is printed without sorting.
ReportUnsorted ==
  /\ phase = "report" /\ phase' = "done"
  /\ result' = exps[2]
  /\ UNCHANGED <<max_to, min_to, num_fails, exps, n, natTimeout, spoiled>>

\* The end of probe: sort the results and print the middle one.
Report ==
  /\ phase = "report" /\ phase' = "done"
  /\ \E i, j, k \in Experiments :
       /\ {i, j, k} = Experiments
       /\ exps[i] <= exps[j] /\ exps[j] <= exps[k]
       /\ result' = exps[j]
  /\ UNCHANGED <<max_to, min_to, num_fails, exps, n, natTimeout, spoiled>>

SearchNext ==
  \/ Reach(Candidate) /\ TryOk
  \/ (Sure(Candidate) => spoiled < MaxSpoiled) /\ TryFails
  \/ Report

SearchSpec == SearchInit /\ [][SearchNext]_searchVars

------------------------------------------------------------------------------
\* A result brackets the NAT timeout: it was answered, and two seconds more
\* would not have been ("Intermediate result", udptimeoutchecker.c:132).
Accurate(r) == Reach(r) /\ (r >= Cap \/ ~Sure(r + 2))

Bad(i) == IF i <= n /\ ~Accurate(exps[i]) THEN 1 ELSE 0
BadResults == Bad(1) + Bad(2) + Bad(3)

\* No result, so not the printed one either, is longer than the NAT keeps an
\* idle mapping, however many tries are spoiled.
NeverOverestimates ==
  /\ \A i \in Experiments : i <= n => Reach(exps[i])
  /\ phase = "done" => Reach(result)

\* README.md:76, "Measure UDP connection timeout in NAT by probing with
\* different delays and testing if connectin still works or not": a number is
\* printed only if the connection can have worked after that delay.
PrintsWorkingDelay == phase = "done" => Reach(result)

\* Taking the middle of three results hides a spoiled try (the reason for the
\* three experiments of probe): with at most one, the printed number is
\* within two seconds of the NAT timeout.
MiddleHidesOneLoss == phase = "done" /\ spoiled <= 1 => Accurate(result)

\* One spoiled try makes at most one result wrong.
BadResultsBounded == BadResults <= spoiled

\* The steps an experiment takes at most: three tries of each timeout on the
\* way up and one of each in the bracket; and those of the whole search.
PerExperiment == 8 * Cap
Left ==
  CASE phase = "double" -> (3 - n) * PerExperiment + 1
                             + 2 * Cap + 3 * (2 * Cap - max_to) - num_fails
    [] phase = "bisect" -> (3 - n) * PerExperiment + 1 + max_to - min_to
    [] phase = "report" -> 1
    [] OTHER -> 0

\* A step towards the number.
Nearer == Left' \in Nat /\ Left' < Left

------------------------------------------------------------------------------
(***************************************************************************)
(* The inductive invariant: what the bracket of the current experiment     *)
(* stands for, and what the spoiled tries have cost so far.                *)
(***************************************************************************)
Cost ==
  IF ~Sure(max_to) THEN 0
  ELSE IF phase = "double" THEN num_fails
  ELSE IF phase = "bisect" THEN 1 ELSE 0

BracketOK ==
  /\ phase = "double" =>
       /\ max_to = 1 \/ (max_to % 2 = 0 /\ Reach(max_to \div 2))
       /\ max_to < 2 * Cap /\ num_fails < 3
  /\ phase = "bisect" => max_to - min_to > 2 /\ Reach(min_to)
  /\ Searching <=> n < 3

SearchInv ==
  /\ SearchTypeOK
  /\ BracketOK
  /\ NeverOverestimates
  /\ BadResults + Cost <= spoiled
  /\ MiddleHidesOneLoss
==============================================================================
