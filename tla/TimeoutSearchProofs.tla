------------------------ MODULE TimeoutSearchProofs -------------------------
(***************************************************************************)
(* What the number udptimeoutchecker prints is worth, for every cap of the *)
(* doubling, every NAT timeout and any number of spoiled tries; that every *)
(* try brings it nearer; and that the tries of UdpTimeoutChecker, with its *)
(* server, NAT and network, are those of the search.                       *)
(***************************************************************************)
EXTENDS UdpTimeoutChecker, TLAPS

------------------------------------------------------------------------------
(* The answers of the NAT.                                                  *)

\* A shorter timeout is answered whenever a longer one is.
LEMMA Monotone ==
  ASSUME NEW c \in Nat, NEW d \in Nat, c <= d, natTimeout \in Nat
  PROVE  /\ Sure(d) => Sure(c)
         /\ Reach(d) => Reach(c)
  <1>1. c * Sec \in Nat /\ d * Sec \in Nat /\ c * Sec <= d * Sec
    BY SearchAssumption
  <1>. QED BY <1>1, SearchAssumption DEF Sure, Reach

LEMMA ZeroIsReached ==
  ASSUME natTimeout \in Nat
  PROVE  Reach(0)
  BY SearchAssumption DEF Reach

\* A result is accurate if the next refused timeout was not spoiled.
LEMMA AccurateResult ==
  ASSUME NEW lo \in Nat, NEW hi \in Nat, hi <= lo + 2, Reach(lo), ~Sure(hi),
         natTimeout \in Nat
  PROVE  Accurate(lo)
  BY Monotone DEF Accurate

\* The middle of three results is accurate if the least is.
LEMMA AccurateAbove ==
  ASSUME NEW a \in Nat, NEW b \in Nat, a <= b, Accurate(a), Reach(b),
         natTimeout \in Nat
  PROVE  Accurate(b)
  <1>1. CASE a >= Cap
    BY <1>1, SearchAssumption DEF Accurate
  <1>2. CASE ~Sure(a + 2)
    BY <1>2, Monotone DEF Accurate
  <1>. QED BY <1>1, <1>2 DEF Accurate

------------------------------------------------------------------------------
(* The books of the search: spoiled tries and wrong results.                *)

\* The invariant, without what holds only at the end.
Books ==
  /\ SearchTypeOK
  /\ BracketOK
  /\ \A i \in Experiments : i <= n => Reach(exps[i])
  /\ BadResults + Cost <= spoiled

LEMMA Numbers ==
  ASSUME SearchTypeOK
  PROVE  /\ natTimeout \in Nat /\ max_to \in Nat /\ min_to \in Nat
         /\ num_fails \in Nat /\ n \in Nat /\ spoiled \in Nat
         /\ \A i \in Experiments : exps[i] \in Nat
         /\ Bad(1) \in 0..1 /\ Bad(2) \in 0..1 /\ Bad(3) \in 0..1
         /\ BadResults \in Nat /\ Cost \in Nat
  <1>1. /\ natTimeout \in Nat /\ max_to \in Nat /\ min_to \in Nat
        /\ num_fails \in Nat /\ n \in Nat /\ spoiled \in Nat
    BY SearchAssumption DEF SearchTypeOK
  <1>2. \A i \in Experiments : exps[i] \in Nat
    BY SearchAssumption DEF SearchTypeOK
  <1>3. Bad(1) \in 0..1 /\ Bad(2) \in 0..1 /\ Bad(3) \in 0..1
    BY DEF Bad
  <1>4. BadResults \in Nat
    BY <1>3 DEF BadResults
  <1>5. Cost \in Nat
    BY <1>1 DEF Cost
  <1>. QED BY <1>1, <1>2, <1>3, <1>4, <1>5

LEMMA SearchStart == SearchInit => Books
  <1>. SUFFICES ASSUME SearchInit PROVE Books
    OBVIOUS
  <1>1. SearchTypeOK
    BY SearchAssumption DEF SearchInit, SearchTypeOK, Experiments
  <1>2. BracketOK
    BY SearchAssumption DEF SearchInit, BracketOK, Searching
  <1>3. BadResults = 0 /\ Cost = 0 /\ spoiled = 0
    BY DEF SearchInit, BadResults, Bad, Cost
  <1>. QED BY <1>1, <1>2, <1>3 DEF Books, SearchInit, Experiments

\* one_experiment returns r: one more result, wrong or not.
LEMMA EndStep ==
  ASSUME Books, Searching, NEW r \in 0..(2 * Cap), Reach(r),
         EndExperiment(r), UNCHANGED <<result, natTimeout>>,
         spoiled' \in Nat,
         BadResults + (IF Accurate(r) THEN 0 ELSE 1) <= spoiled'
  PROVE  Books'
  <1>1. n \in 0..2 /\ n' = n + 1 /\ exps' = [exps EXCEPT ![n + 1] = r]
    BY DEF Books, BracketOK, SearchTypeOK, EndExperiment
  <1>2. SearchTypeOK'
    <2>1. exps' \in [Experiments -> 0..(2 * Cap)]
      BY <1>1 DEF Books, SearchTypeOK, Experiments
    <2>2. max_to' \in 1..(2 * Cap) /\ min_to' \in 0..(2 * Cap)
          /\ num_fails' \in 0..3 /\ n' \in 0..3
      BY <1>1, SearchAssumption DEF EndExperiment
    <2>3. phase' \in {"double", "report"}
      BY DEF EndExperiment
    <2>. QED BY <2>1, <2>2, <2>3 DEF Books, SearchTypeOK
  <1>3. BracketOK'
    BY <1>1, SearchAssumption DEF BracketOK, Searching, EndExperiment
  <1>4. \A i \in Experiments :
          /\ i # n + 1 => exps'[i] = exps[i]
          /\ i = n + 1 => exps'[i] = r
    BY <1>1 DEF Books, SearchTypeOK, Experiments
  <1>5. \A c : (Reach(c)' <=> Reach(c)) /\ (Accurate(c)' <=> Accurate(c))
    BY DEF Reach, Sure, Accurate
  <1>6. \A i \in Experiments : i <= n' => Reach(exps[i])'
    BY <1>1, <1>4, <1>5 DEF Books, Reach, Experiments
  <1>7. Cost' = 0
    BY DEF Cost, EndExperiment
  <1>8. \A i \in Experiments :
          Bad(i)' = IF i = n + 1 THEN (IF Accurate(r) THEN 0 ELSE 1)
                    ELSE Bad(i)
    BY <1>1, <1>4 DEF Bad, Experiments, Accurate, Reach, Sure
  <1>9. Bad(n + 1) = 0
    BY <1>1 DEF Bad
  <1>10. BadResults' = BadResults + (IF Accurate(r) THEN 0 ELSE 1)
    <2>1. Bad(1) \in 0..1 /\ Bad(2) \in 0..1 /\ Bad(3) \in 0..1
      BY Numbers DEF Books
    <2>2. CASE n = 0
      BY <1>8, <1>9, <2>1, <2>2 DEF BadResults, Experiments
    <2>3. CASE n = 1
      BY <1>8, <1>9, <2>1, <2>3 DEF BadResults, Experiments
    <2>4. CASE n = 2
      BY <1>8, <1>9, <2>1, <2>4 DEF BadResults, Experiments
    <2>. QED BY <1>1, <2>2, <2>3, <2>4
  <1>. QED BY <1>2, <1>3, <1>6, <1>7, <1>10 DEF Books

\* The experiment goes on with another bracket: no new result.
LEMMA GoOn ==
  ASSUME Books, Searching, UNCHANGED <<exps, n, natTimeout, result>>,
         phase' \in {"double", "bisect"}, max_to' \in 1..(2 * Cap),
         min_to' \in 0..(2 * Cap), num_fails' \in 0..3, spoiled' \in Nat,
         BracketOK', BadResults + Cost' <= spoiled'
  PROVE  Books'
  <1>1. SearchTypeOK'
    BY DEF Books, SearchTypeOK
  <1>2. BadResults' = BadResults
    BY DEF BadResults, Bad, Accurate, Reach, Sure
  <1>3. \A i \in Experiments : i <= n' => Reach(exps[i])'
    BY DEF Books, Reach
  <1>. QED BY <1>1, <1>2, <1>3 DEF Books

\* The head of the bisection loop, with what each bound stands for: lo was
\* answered, and if hi would surely have been answered its refusal is paid
\* for by a spoiled try.
LEMMA NarrowStep ==
  ASSUME Books, Searching, NEW lo \in 0..(2 * Cap), NEW hi \in 1..(2 * Cap),
         Reach(lo), Narrow(lo, hi), UNCHANGED <<result, natTimeout>>,
         spoiled' \in Nat,
         BadResults + (IF Sure(hi) THEN 1 ELSE 0) <= spoiled'
  PROVE  Books'
  <1>1. natTimeout \in Nat /\ BadResults \in Nat
    BY Numbers DEF Books
  <1>2. CASE hi - lo <= 2
    <2>1. ~Sure(hi) => Accurate(lo)
      BY <1>1, <1>2, AccurateResult, SearchAssumption
    <2>2. BadResults + (IF Accurate(lo) THEN 0 ELSE 1) <= spoiled'
      BY <1>1, <2>1
    <2>. QED BY <1>2, <2>2, EndStep DEF Narrow
  <1>3. CASE ~(hi - lo <= 2)
    <2>1. /\ phase' = "bisect" /\ min_to' = lo /\ max_to' = hi
          /\ num_fails' = 0 /\ UNCHANGED <<exps, n>>
      BY <1>3 DEF Narrow
    <2>2. Cost' = IF Sure(hi) THEN 1 ELSE 0
      BY <2>1 DEF Cost, Sure
    <2>3. BracketOK'
      <3>1. n < 3
        BY DEF Books, BracketOK
      <3>2. hi - lo > 2
        BY <1>3, SearchAssumption
      <3>. QED BY <2>1, <3>1, <3>2 DEF BracketOK, Searching, Reach
    <2>. QED BY <2>1, <2>2, <2>3, GoOn
  <1>. QED BY <1>2, <1>3

\* The midpoint of a bracket that is not closed lies strictly inside it.
LEMMA Midpoint ==
  ASSUME NEW a \in Nat, NEW b \in Nat, b - a > 2
  PROVE  (a + b) \div 2 \in (a + 1)..(b - 1)
  OBVIOUS

LEMMA AnsweredStep ==
  ASSUME Books, Reach(Candidate), TryOk
  PROVE  Books'
  <1>. USE SearchAssumption
  <1>1. /\ natTimeout \in Nat /\ max_to \in Nat /\ min_to \in Nat
        /\ num_fails \in Nat /\ BadResults \in Nat /\ Cost \in Nat
        /\ spoiled \in Nat /\ spoiled' = spoiled
        /\ UNCHANGED <<result, natTimeout>>
        /\ BadResults + Cost <= spoiled
    BY Numbers DEF Books, TryOk
  <1>2. max_to \in 1..(2 * Cap) /\ min_to \in 0..(2 * Cap)
    BY DEF Books, SearchTypeOK
  <1>3. CASE phase = "double" /\ max_to >= Cap /\ EndExperiment(max_to)
    <2>1. Reach(max_to) /\ Accurate(max_to)
      BY <1>3 DEF Candidate, Accurate
    <2>. QED BY <1>1, <1>2, <1>3, <2>1, EndStep DEF Searching
  <1>4. CASE /\ phase = "double" /\ max_to < Cap
             /\ max_to' = 2 * max_to /\ num_fails' = 0
             /\ UNCHANGED <<phase, min_to, exps, n>>
    <2>1. Reach(max_to)
      BY <1>4 DEF Candidate
    <2>2. max_to' % 2 = 0 /\ max_to' \div 2 = max_to
      BY <1>1, <1>4
    <2>3. BracketOK'
      <3>1. n < 3
        BY <1>4 DEF Books, BracketOK, Searching
      <3>. QED BY <1>1, <1>4, <2>1, <2>2, <3>1 DEF BracketOK, Searching, Reach
    <2>4. Cost' = 0
      BY <1>4 DEF Cost
    <2>5. max_to' \in 1..(2 * Cap) /\ num_fails' \in 0..3
      BY <1>2, <1>4
    <2>. QED BY <1>1, <1>2, <1>4, <2>3, <2>4, <2>5, GoOn DEF Searching
  <1>5. CASE phase = "bisect" /\ Narrow(Candidate, max_to)
    <2>1. max_to - min_to > 2
      BY <1>5 DEF Books, BracketOK
    <2>2. Candidate \in 0..(2 * Cap)
      BY <1>1, <1>2, <1>5, <2>1, Midpoint DEF Candidate
    <2>3. BadResults + (IF Sure(max_to) THEN 1 ELSE 0) <= spoiled'
      BY <1>1, <1>5 DEF Cost
    <2>. QED BY <1>1, <1>2, <1>5, <2>2, <2>3, NarrowStep DEF Searching
  <1>. QED BY <1>3, <1>4, <1>5 DEF TryOk, Answered

LEMMA UnansweredStep ==
  ASSUME Books, TryFails
  PROVE  Books'
  <1>. USE SearchAssumption
  <1>1. /\ natTimeout \in Nat /\ max_to \in Nat /\ min_to \in Nat
        /\ num_fails \in Nat /\ BadResults \in Nat /\ Cost \in Nat
        /\ spoiled \in Nat /\ BadResults + Cost <= spoiled
        /\ UNCHANGED <<result, natTimeout>>
    BY Numbers DEF Books, TryFails
  <1>2. max_to \in 1..(2 * Cap) /\ min_to \in 0..(2 * Cap)
    BY DEF Books, SearchTypeOK
  <1>3. spoiled' \in Nat /\ spoiled' = IF Sure(Candidate) THEN spoiled + 1
                                       ELSE spoiled
    BY <1>1 DEF TryFails
  <1>4. CASE /\ phase = "double" /\ num_fails < 2
             /\ num_fails' = num_fails + 1
             /\ UNCHANGED <<phase, max_to, min_to, exps, n>>
    <2>1. Cost = IF Sure(max_to) THEN num_fails ELSE 0
      BY <1>4 DEF Cost
    <2>2. Cost' = IF Sure(max_to) THEN num_fails + 1 ELSE 0
      BY <1>1, <1>4 DEF Cost, Sure
    <2>3. BadResults + Cost' <= spoiled'
      BY <1>1, <1>3, <1>4, <2>1, <2>2 DEF Candidate
    <2>4. BracketOK'
      BY <1>1, <1>4 DEF Books, BracketOK, Searching, Reach
    <2>5. num_fails' \in 0..3
      BY <1>1, <1>4
    <2>. QED BY <1>1, <1>2, <1>3, <1>4, <2>3, <2>4, <2>5, GoOn DEF Searching
  <1>5. CASE phase = "double" /\ num_fails = 2 /\ max_to = 1 /\ EndExperiment(0)
    <2>1. ~Sure(1) => Accurate(0)
      BY <1>1, ZeroIsReached, AccurateResult
    <2>2. BadResults + (IF Accurate(0) THEN 0 ELSE 1) <= spoiled'
      BY <1>1, <1>3, <1>5, <2>1 DEF Cost, Candidate
    <2>. QED BY <1>1, <1>3, <1>5, <2>2, ZeroIsReached, EndStep DEF Searching
  <1>6. CASE /\ phase = "double" /\ num_fails = 2 /\ max_to > 1
             /\ Narrow(max_to \div 2, max_to)
    <2>1. Reach(max_to \div 2)
      BY <1>1, <1>6 DEF Books, BracketOK
    <2>2. BadResults + (IF Sure(max_to) THEN 1 ELSE 0) <= spoiled'
      BY <1>1, <1>3, <1>6 DEF Cost, Candidate
    <2>3. max_to \div 2 \in 0..(2 * Cap)
      BY <1>2
    <2>. QED BY <1>1, <1>2, <1>3, <1>6, <2>1, <2>2, <2>3, NarrowStep DEF Searching
  <1>7. CASE phase = "bisect" /\ Narrow(min_to, Candidate)
    <2>1. max_to - min_to > 2 /\ Reach(min_to)
      BY <1>7 DEF Books, BracketOK
    <2>2. Candidate \in 1..(2 * Cap)
      BY <1>1, <1>2, <1>7, <2>1, Midpoint DEF Candidate
    <2>3. BadResults + (IF Sure(Candidate) THEN 1 ELSE 0) <= spoiled'
      BY <1>1, <1>3
    <2>. QED BY <1>1, <1>2, <1>3, <1>7, <2>1, <2>2, <2>3, NarrowStep DEF Searching
  <1>. QED BY <1>4, <1>5, <1>6, <1>7 DEF TryFails, Unanswered

------------------------------------------------------------------------------
(* The printed number.                                                      *)

LEMMA ReportStep ==
  ASSUME Books, Report
  PROVE  /\ Books'
         /\ Reach(result')
         /\ spoiled <= 1 => Accurate(result')
  <1>1. PICK i \in Experiments, j \in Experiments, k \in Experiments :
          /\ {i, j, k} = Experiments
          /\ exps[i] <= exps[j] /\ exps[j] <= exps[k]
          /\ result' = exps[j]
    BY DEF Report
  <1>2. n = 3 /\ natTimeout \in Nat /\ exps[i] \in Nat /\ exps[j] \in Nat
    BY Numbers DEF Books, BracketOK, Searching, Report, SearchTypeOK
  <1>3. Reach(exps[i]) /\ Reach(exps[j])
    BY <1>2 DEF Books, Experiments
  <1>4. Cost' = 0 /\ BadResults' = BadResults
    BY DEF Report, Cost, BadResults, Bad, Accurate, Reach, Sure
  <1>5. Books'
    <2>1. SearchTypeOK'
      BY <1>1 DEF Books, SearchTypeOK, Report
    <2>2. BracketOK'
      BY <1>2 DEF Report, BracketOK, Searching
    <2>3. BadResults' + Cost' <= spoiled'
      BY <1>4, Numbers DEF Books, Report
    <2>4. \A x \in Experiments : x <= n' => Reach(exps[x])'
      BY DEF Books, Report, Reach
    <2>. QED BY <2>1, <2>2, <2>3, <2>4 DEF Books
  <1>6. ASSUME spoiled <= 1 PROVE Accurate(exps[j])
    <2>1. BadResults <= 1
      BY <1>6, Numbers DEF Books
    <2>2. Accurate(exps[i]) => Accurate(exps[j])
      BY <1>1, <1>2, <1>3, AccurateAbove
    <2>3. i # j
      BY <1>1 DEF Experiments
    <2>4. ~(Bad(i) = 1 /\ Bad(j) = 1)
      BY <2>1, <2>3, Numbers DEF BadResults, Books, Experiments
    <2>. QED BY <1>2, <2>2, <2>4 DEF Bad, Experiments
  <1>. QED BY <1>1, <1>3, <1>5, <1>6

LEMMA InvParts ==
  SearchInv <=> /\ Books
                /\ phase = "done" => Reach(result)
                /\ MiddleHidesOneLoss
  BY DEF SearchInv, Books, NeverOverestimates

\* What a step of the search or of the checker does to the variables of the
\* search; lost tries are not counted here.
LEMMA InvMove ==
  ASSUME SearchInv,
         \/ UNCHANGED searchVars
         \/ Reach(Candidate) /\ TryOk
         \/ TryFails
         \/ Report
  PROVE  SearchInv'
  <1>1. Books
    BY InvParts
  <1>2. CASE UNCHANGED searchVars
    BY <1>2
    DEF searchVars, bracketVars, SearchInv, SearchTypeOK, BracketOK,
        NeverOverestimates, MiddleHidesOneLoss, BadResults, Bad, Cost,
        Accurate, Reach, Sure, Searching
  <1>3. ASSUME Books', phase' # "done" PROVE SearchInv'
    BY <1>3 DEF SearchInv, Books, NeverOverestimates, MiddleHidesOneLoss
  <1>4. CASE Reach(Candidate) /\ TryOk
    <2>1. Books'
      BY <1>1, <1>4, AnsweredStep
    <2>2. phase' # "done"
      BY <1>4 DEF TryOk, Answered, Narrow, EndExperiment
    <2>. QED BY <1>3, <2>1, <2>2
  <1>5. CASE TryFails
    <2>1. Books'
      BY <1>1, <1>5, UnansweredStep
    <2>2. phase' # "done"
      BY <1>5 DEF TryFails, Unanswered, Narrow, EndExperiment
    <2>. QED BY <1>3, <2>1, <2>2
  <1>6. CASE Report
    <2>1. Books' /\ Reach(result') /\ (spoiled <= 1 => Accurate(result'))
      BY <1>1, <1>6, ReportStep
    <2>2. UNCHANGED <<natTimeout, spoiled>>
      BY <1>6 DEF Report
    <2>. QED BY <2>1, <2>2
         DEF SearchInv, Books, NeverOverestimates, MiddleHidesOneLoss,
             Accurate, Reach, Sure
  <1>. QED BY <1>2, <1>4, <1>5, <1>6

\* So every step of the search keeps the invariant.
LEMMA InvStep == SearchInv /\ [SearchNext]_searchVars => SearchInv'
  BY InvMove DEF SearchNext

\* The inductive invariant of the search.
THEOREM SearchInvariant == SearchSpec => []SearchInv
  <1>1. SearchInit => SearchInv
    BY SearchStart DEF SearchInit, SearchInv, Books, NeverOverestimates,
                       MiddleHidesOneLoss
  <1>. QED BY <1>1, InvStep, PTL DEF SearchSpec

\* Neither a result nor the printed number is longer than the NAT keeps an
\* idle mapping, whatever tries are spoiled.
THEOREM NeverOverestimatesHolds == SearchSpec => []NeverOverestimates
  <1>1. SearchInv => NeverOverestimates
    BY DEF SearchInv
  <1>. QED BY <1>1, SearchInvariant, PTL

\* With at most one spoiled try the printed number is accurate.
THEOREM MiddleHidesOneLossHolds == SearchSpec => []MiddleHidesOneLoss
  <1>1. SearchInv => MiddleHidesOneLoss
    BY DEF SearchInv
  <1>. QED BY <1>1, SearchInvariant, PTL

\* A spoiled try makes at most one result wrong.
THEOREM BadResultsAreBounded == SearchSpec => []BadResultsBounded
  <1>1. SearchInv => BadResultsBounded
    BY Numbers DEF SearchInv, BadResultsBounded
  <1>. QED BY <1>1, SearchInvariant, PTL

------------------------------------------------------------------------------
(* The tries that are left.                                                  *)

\* Where the loops are, whatever the answers of the tries were worth.
Bounds ==
  /\ phase \in {"double", "bisect", "report", "done"}
  /\ max_to \in 1..(2 * Cap) /\ min_to \in 0..(2 * Cap)
  /\ num_fails \in 0..3 /\ n \in 0..3
  /\ phase = "double" => max_to < 2 * Cap /\ num_fails < 3
  /\ phase = "bisect" => max_to - min_to > 2
  /\ Searching <=> n < 3

\* What one experiment may take of the tries that are left.
LEMMA Budget ==
  ASSUME NEW i \in 0..2
  PROVE  /\ (3 - (i + 1)) * PerExperiment \in Nat
         /\ (3 - i) * PerExperiment = (3 - (i + 1)) * PerExperiment + 8 * Cap
  <1>1. CASE i = 0
    BY <1>1, SearchAssumption DEF PerExperiment
  <1>2. CASE i = 1
    BY <1>2, SearchAssumption DEF PerExperiment
  <1>3. CASE i = 2
    BY <1>3, SearchAssumption DEF PerExperiment
  <1>. QED BY <1>1, <1>2, <1>3

\* An experiment under way has at least one try left.
LEMMA LeftSearching ==
  ASSUME Bounds, Searching
  PROVE  LET more == (3 - (n + 1)) * PerExperiment IN
         /\ n \in 0..2 /\ more \in Nat
         /\ max_to \in 1..(2 * Cap) /\ min_to \in Nat /\ num_fails \in 0..3
         /\ phase = "double" =>
              /\ max_to < 2 * Cap /\ num_fails < 3
              /\ Left = more + 10 * Cap + 1 + 3 * (2 * Cap - max_to) - num_fails
         /\ phase = "bisect" =>
              /\ max_to - min_to > 2
              /\ Left = more + 8 * Cap + 1 + max_to - min_to
         /\ Left > more + 8 * Cap + 1
  <1>. DEFINE more == (3 - (n + 1)) * PerExperiment
  <1>1. /\ n \in 0..2 /\ max_to \in 1..(2 * Cap) /\ min_to \in Nat
        /\ num_fails \in 0..3
    BY SearchAssumption DEF Bounds
  <1>2. /\ phase = "double" => max_to < 2 * Cap /\ num_fails < 3
        /\ phase = "bisect" => max_to - min_to > 2
    BY DEF Bounds
  <1>3. more \in Nat /\ (3 - n) * PerExperiment = more + 8 * Cap
    BY <1>1, Budget
  <1>4. phase = "double" =>
          Left = (3 - n) * PerExperiment + 1 + 2 * Cap + 3 * (2 * Cap - max_to) - num_fails
    BY DEF Left
  <1>5. phase = "bisect" => Left = (3 - n) * PerExperiment + 1 + max_to - min_to
    BY DEF Left
  <1>. HIDE DEF more
  <1>6. CASE phase = "double"
    <2>1. Left = more + 10 * Cap + 1 + 3 * (2 * Cap - max_to) - num_fails
      BY <1>1, <1>3, <1>4, <1>6, SearchAssumption
    <2>. QED BY <1>1, <1>2, <1>3, <1>6, <2>1, SearchAssumption DEF more
  <1>7. CASE phase = "bisect"
    <2>1. Left = more + 8 * Cap + 1 + max_to - min_to
      BY <1>1, <1>3, <1>5, <1>7, SearchAssumption
    <2>. QED BY <1>1, <1>2, <1>3, <1>7, <2>1, SearchAssumption DEF more
  <1>. QED BY <1>6, <1>7 DEF Searching

\* The end of an experiment leaves less than it found.
LEMMA EndCounts ==
  ASSUME Bounds, Searching, NEW r, EndExperiment(r)
  PROVE  Bounds' /\ Left' \in Nat /\ Left' < Left
  <1>. DEFINE more == (3 - (n + 1)) * PerExperiment
  <1>1. n \in 0..2 /\ more \in Nat /\ Left > more + 8 * Cap + 1 /\ Left \in Int
    BY LeftSearching, SearchAssumption DEF Searching
  <1>2. Bounds'
    BY <1>1, SearchAssumption DEF EndExperiment, Bounds, Searching
  <1>3. CASE n = 2
    <2>1. Left' = 1
      BY <1>3 DEF EndExperiment, Left
    <2>2. Left' \in Nat /\ Left' < Left
      BY <1>1, <2>1, SearchAssumption
    <2>. QED BY <1>2, <2>2
  <1>4. CASE n # 2
    <2>1. phase' = "double" /\ n' = n + 1 /\ max_to' = 1 /\ num_fails' = 0
      BY <1>4 DEF EndExperiment
    <2>2. Left' = more + 1 + 2 * Cap + 3 * (2 * Cap - 1) - 0
      BY <2>1 DEF Left, PerExperiment
    <2>. HIDE DEF more
    <2>3. Left' \in Nat /\ Left' < Left
      BY <1>1, <2>2, SearchAssumption
    <2>. QED BY <1>2, <2>3
  <1>. QED BY <1>3, <1>4

\* The head of the bisection: the bracket is smaller, or the experiment ends.
LEMMA NarrowCounts ==
  ASSUME Bounds, Searching, NEW lo \in 0..(2 * Cap), NEW hi \in 1..(2 * Cap), Narrow(lo, hi),
         phase = "bisect" => hi - lo < max_to - min_to
  PROVE  Bounds' /\ Left' \in Nat /\ Left' < Left
  <1>. DEFINE more == (3 - (n + 1)) * PerExperiment
  <1>1. CASE hi - lo <= 2
    BY <1>1, EndCounts DEF Narrow
  <1>2. CASE hi - lo > 2
    <2>1. /\ phase' = "bisect" /\ min_to' = lo /\ max_to' = hi /\ n' = n
      BY <1>2, SearchAssumption DEF Narrow
    <2>2. n \in 0..2 /\ more \in Nat
      BY LeftSearching
    <2>3. Left' = more + 8 * Cap + 1 + hi - lo
      <3>1. Left' = (3 - n) * PerExperiment + 1 + hi - lo
        BY <2>1 DEF Left, PerExperiment
      <3>2. (3 - n) * PerExperiment = more + 8 * Cap
        BY <2>2, Budget
      <3>. HIDE DEF more
      <3>. QED BY <2>2, <3>1, <3>2, SearchAssumption
    <2>4. Bounds'
      BY <1>2, <2>1, <2>2, SearchAssumption DEF Bounds, Searching, Narrow
    <2>5. Left' \in Nat
      <3>. HIDE DEF more
      <3>. QED BY <1>2, <2>2, <2>3, SearchAssumption
    <2>6. ASSUME phase = "double" PROVE Left' < Left
      <3>1. /\ Left = more + 10 * Cap + 1 + 3 * (2 * Cap - max_to) - num_fails
            /\ max_to \in Nat /\ max_to < 2 * Cap /\ num_fails \in 0..2
        BY <2>6, LeftSearching, SearchAssumption
      <3>. HIDE DEF more
      <3>. QED BY <2>2, <2>3, <3>1, SearchAssumption
    <2>7. ASSUME phase = "bisect" PROVE Left' < Left
      <3>1. /\ Left = more + 8 * Cap + 1 + max_to - min_to
            /\ max_to \in Nat /\ min_to \in Nat
        BY <2>7, LeftSearching, SearchAssumption
      <3>. HIDE DEF more
      <3>. QED BY <2>2, <2>3, <2>7, <3>1, SearchAssumption
    <2>. QED BY <2>5, <2>6, <2>7, <2>4 DEF Searching
  <1>. QED BY <1>1, <1>2, SearchAssumption

LEMMA AnsweredCounts ==
  ASSUME Bounds, Answered
  PROVE  Bounds' /\ Left' \in Nat /\ Left' < Left
  <1>1. CASE phase = "double" /\ max_to >= Cap /\ EndExperiment(max_to)
    BY <1>1, EndCounts DEF Searching
  <1>2. CASE /\ phase = "double" /\ max_to < Cap
             /\ max_to' = 2 * max_to /\ num_fails' = 0
             /\ UNCHANGED <<phase, min_to, exps, n>>
    <2>. DEFINE more == (3 - (n + 1)) * PerExperiment
    <2>1. /\ n \in 0..2 /\ more \in Nat /\ max_to \in 1..(2 * Cap) /\ num_fails \in 0..2
          /\ Left = more + 10 * Cap + 1 + 3 * (2 * Cap - max_to) - num_fails
      BY <1>2, LeftSearching DEF Searching
    <2>2. Left' = (3 - n) * PerExperiment + 1 + 2 * Cap + 3 * (2 * Cap - 2 * max_to) - 0
      BY <1>2 DEF Left, PerExperiment
    <2>3. (3 - n) * PerExperiment = more + 8 * Cap
      BY <2>1, Budget
    <2>4. Bounds'
      BY <1>2, <2>1, SearchAssumption DEF Bounds, Searching
    <2>. HIDE DEF more
    <2>5. Left' \in Nat /\ Left' < Left
      BY <1>2, <2>1, <2>2, <2>3, SearchAssumption
    <2>. QED BY <2>4, <2>5
  <1>3. CASE phase = "bisect" /\ Narrow(Candidate, max_to)
    <2>1. max_to \in 1..(2 * Cap) /\ min_to \in Nat /\ max_to - min_to > 2
      BY <1>3, LeftSearching DEF Searching
    <2>2. Candidate \in (min_to + 1)..(max_to - 1)
      BY <1>3, <2>1, Midpoint, SearchAssumption DEF Candidate
    <2>3. Candidate \in 0..(2 * Cap) /\ max_to - Candidate < max_to - min_to
      BY <2>1, <2>2, SearchAssumption
    <2>. QED BY <1>3, <2>1, <2>3, NarrowCounts DEF Searching
  <1>. QED BY <1>1, <1>2, <1>3 DEF Answered

LEMMA UnansweredCounts ==
  ASSUME Bounds, Unanswered
  PROVE  Bounds' /\ Left' \in Nat /\ Left' < Left
  <1>1. CASE /\ phase = "double" /\ num_fails < 2 /\ num_fails' = num_fails + 1
             /\ UNCHANGED <<phase, max_to, min_to, exps, n>>
    <2>. DEFINE more == (3 - (n + 1)) * PerExperiment
    <2>1. /\ n \in 0..2 /\ more \in Nat /\ max_to \in 1..(2 * Cap) /\ num_fails \in 0..2
          /\ Left = more + 10 * Cap + 1 + 3 * (2 * Cap - max_to) - num_fails
      BY <1>1, LeftSearching DEF Searching
    <2>2. Left' = (3 - n) * PerExperiment + 1 + 2 * Cap + 3 * (2 * Cap - max_to) - (num_fails + 1)
      BY <1>1 DEF Left, PerExperiment
    <2>3. (3 - n) * PerExperiment = more + 8 * Cap
      BY <2>1, Budget
    <2>4. Bounds'
      BY <1>1, <2>1, SearchAssumption DEF Bounds, Searching
    <2>. HIDE DEF more
    <2>5. Left' \in Nat /\ Left' < Left
      BY <1>1, <2>1, <2>2, <2>3, SearchAssumption
    <2>. QED BY <2>4, <2>5
  <1>2. CASE phase = "double" /\ num_fails = 2 /\ max_to = 1 /\ EndExperiment(0)
    BY <1>2, EndCounts DEF Searching
  <1>3. CASE /\ phase = "double" /\ num_fails = 2 /\ max_to > 1
             /\ Narrow(max_to \div 2, max_to)
    <2>1. max_to \in 1..(2 * Cap) /\ max_to \div 2 \in 0..(2 * Cap)
      BY <1>3, LeftSearching, SearchAssumption DEF Searching
    <2>2. phase # "bisect"
      BY <1>3
    <2>. QED BY <1>3, <2>1, <2>2, NarrowCounts DEF Searching
  <1>4. CASE phase = "bisect" /\ Narrow(min_to, Candidate)
    <2>1. max_to \in 1..(2 * Cap) /\ min_to \in Nat /\ max_to - min_to > 2
      BY <1>4, LeftSearching DEF Searching
    <2>2. Candidate \in (min_to + 1)..(max_to - 1)
      BY <1>4, <2>1, Midpoint, SearchAssumption DEF Candidate
    <2>3. /\ min_to \in 0..(2 * Cap) /\ Candidate \in 1..(2 * Cap)
          /\ Candidate - min_to < max_to - min_to
      BY <2>1, <2>2, SearchAssumption
    <2>. QED BY <1>4, <2>1, <2>3, NarrowCounts DEF Searching
  <1>. QED BY <1>1, <1>2, <1>3, <1>4 DEF Unanswered

\* Every move of the search takes one of the tries that are left.
LEMMA MoveCounts ==
  ASSUME Bounds, TryOk \/ TryFails \/ Report
  PROVE  Bounds' /\ Left' \in Nat /\ Left' < Left
  <1>1. CASE Report
    BY <1>1 DEF Report, Left, Bounds, Searching
  <1>. QED BY <1>1, AnsweredCounts, UnansweredCounts DEF TryOk, TryFails

LEMMA BoundsStart == SearchInit => Bounds
  BY SearchAssumption DEF SearchInit, Bounds, Searching

------------------------------------------------------------------------------
(***************************************************************************)
(* UdpTimeoutChecker: as long as the network duplicates nothing a try is   *)
(* at one of eight stages, from the request to "A" in the client's socket, *)
(* or something of it was lost.  There is at most one datagram or reply of *)
(* it, or the child with its "B", and the time these may still take is     *)
(* less than what the receive timeout leaves.                              *)
(***************************************************************************)

\* What the receive timeout of try (udptimeoutchecker.c:65) relies on: a round
\* trip is shorter than its two seconds of slack, and "A" never overtakes "B".
FastNetwork == 2 * Jitter < Slack * Sec /\ Jitter < Sec

\* The seconds asked for, in ticks.
Asked == Candidate * Sec

Request(a) == [secs |-> Candidate, age |-> a, old |-> FALSE]
NewChild == [left |-> Asked, sentB |-> FALSE, old |-> FALSE]
Asleep(l) == [left |-> l, sentB |-> TRUE, old |-> FALSE]
Reply(k, a) == [kind |-> k, age |-> a, old |-> FALSE]
Got(k) == [kind |-> k, old |-> FALSE]

Holds(r, c, d, q) == up = r /\ children = c /\ down = d /\ queue = q
Nothing == Holds(EmptyBag, EmptyBag, EmptyBag, <<>>)

\* A try that may fail: a fault has not been charged yet, or the NAT may forget.
Excused == spoiled < lost \/ ~Sure(Candidate)

\* Why "B" did not come: it was lost, or the NAT has forgotten the mapping.
MissedB == lost > 0 \/ idle > natTimeout

Asking(a) ==
  /\ Holds(One(Request(a)), EmptyBag, EmptyBag, <<>>)
  /\ trying = "B" /\ Asked + 2 * Jitter - a < timer /\ idle <= a

Forked ==
  /\ Holds(EmptyBag, One(NewChild), EmptyBag, <<>>)
  /\ trying = "B" /\ Asked + Jitter < timer /\ idle <= Jitter

AnsweringB(a) ==
  /\ Holds(EmptyBag, One(Asleep(Asked - a)), One(Reply("B", a)), <<>>)
  /\ trying = "B" /\ Asked + Jitter - a < timer /\ idle <= Jitter + a

GotB(a) ==
  /\ Holds(EmptyBag, One(Asleep(Asked - a)), EmptyBag, <<Got("B")>>)
  /\ trying = "B" /\ Asked + Jitter - a < timer /\ idle <= Jitter + a

\* "B" was read or lost; the mapping was used for the last time when it came, at
\* the earliest when it was sent.
Sleeping(l) ==
  /\ Holds(EmptyBag, One(Asleep(l)), EmptyBag, <<>>)
  /\ l + Jitter < timer /\ idle <= Asked + Jitter - l
  /\ idle <= natTimeout => Asked - l <= idle + Jitter
  /\ trying = "B" => Excused /\ MissedB

AnsweringA(a) ==
  /\ Holds(EmptyBag, EmptyBag, One(Reply("A", a)), <<>>)
  /\ Jitter - a < timer /\ idle <= Asked + Jitter + a
  /\ idle <= natTimeout => Asked <= idle + Jitter
  /\ trying = "B" => Excused /\ MissedB

GotA ==
  /\ Holds(EmptyBag, EmptyBag, EmptyBag, <<Got("A")>>)
  /\ Reach(Candidate)
  /\ trying = "B" => Excused /\ lost > 0

AllGone == Nothing /\ Excused

BetweenTries == trying = "no" /\ Nothing

InTry ==
  /\ trying \in {"A", "B"} /\ Searching /\ timer \in 0..RecvTimeout
  /\ \/ Forked \/ GotA \/ AllGone
     \/ \E a \in 0..Jitter : Asking(a) \/ AnsweringB(a) \/ GotB(a) \/ AnsweringA(a)
     \/ \E l \in 0..Asked : Sleeping(l)

Counts == idle \in Nat /\ lost \in Nat /\ lost <= MaxLost /\ spoiled <= lost

CheckerInv ==
  /\ dups \in Nat
  /\ dups = 0 => SearchInv /\ Counts /\ (BetweenTries \/ InTry)


------------------------------------------------------------------------------
(* Bags of one element.                                                     *)

LEMMA OneFacts ==
  /\ Some(EmptyBag) = {}
  /\ \A e : /\ Some(One(e)) = {e}
            /\ One(e) (-) One(e) = EmptyBag
            /\ EmptyBag (+) One(e) = One(e)
            /\ One(e) # EmptyBag
  <1>1. Some(EmptyBag) = {} /\ \A e : Some(One(e)) = {e}
    BY DEF Some, BagToSet, One, SetToBag, EmptyBag
  <1>2. ASSUME NEW e PROVE One(e) (-) One(e) = EmptyBag
    BY DEF One, SetToBag, EmptyBag, (-)
  <1>3. ASSUME NEW e PROVE EmptyBag (+) One(e) = One(e)
    BY DEF One, SetToBag, EmptyBag, (+)
  <1>4. ASSUME NEW e PROVE One(e) # EmptyBag
    <2>1. e \in Some(One(e)) /\ e \notin Some(EmptyBag)
      BY <1>1
    <2>. QED BY <2>1
  <1>. QED BY <1>1, <1>2, <1>3, <1>4

\* The sum by which BagOfAll counts copies, of a function of one element.
Summed(g, f) ==
  g = [S \in SUBSET DOMAIN f |->
         LET elt == CHOOSE e \in S : TRUE
         IN  IF S = {} THEN 0 ELSE f[elt] + g[S \ {elt}]]

\* There is one, and it counts one copy.
LEMMA SumOfOne ==
  ASSUME NEW x
  PROVE  /\ \E g : Summed(g, [d \in {x} |-> 1])
         /\ \A g : Summed(g, [d \in {x} |-> 1]) => g[{x}] = 1
  <1>. DEFINE h == [S \in SUBSET {x} |-> IF S = {} THEN 0 ELSE 1]
  <1>1. (CHOOSE e \in {x} : TRUE) = x
    OBVIOUS
  <1>2. \A S \in SUBSET {x} : S = {} \/ S = {x}
    OBVIOUS
  <1>3. Summed(h, [d \in {x} |-> 1])
    BY <1>1, <1>2 DEF Summed
  <1>4. ASSUME NEW g, Summed(g, [d \in {x} |-> 1]) PROVE g[{x}] = 1
    <2>1. g[{}] = 0
      BY <1>4 DEF Summed
    <2>2. g[{x}] = 1 + g[{x} \ {x}]
      BY <1>1, <1>4 DEF Summed
    <2>. QED BY <2>1, <2>2
  <1>. QED BY <1>3, <1>4

\* A tick makes one datagram older, and one child sleep.
LEMMA OlderOne == ASSUME NEW x PROVE BagOfAll(Older, One(x)) = One(Older(x))
  <1>. DEFINE f(e) == [d \in BagToSet(One(x)) |->
                         IF Older(d) = e THEN One(x)[d] ELSE 0]
              V(e) == (CHOOSE g : Summed(g, f(e)))[DOMAIN f(e)]
              B == BagOfAll(Older, One(x))
              y == Older(x)
  <1>1. B = [e \in {Older(d) : d \in BagToSet(One(x))} |-> V(e)]
    BY DEF BagOfAll, Summed
  <1>2. BagToSet(One(x)) = {x} /\ One(x)[x] = 1
    BY DEF BagToSet, One, SetToBag
  <1>3. f(y) = [d \in {x} |-> 1]
    BY <1>2
  <1>4. V(y) = 1
    <2>. HIDE DEF f
    <2>1. Summed(CHOOSE g : Summed(g, f(y)), f(y))
      BY <1>3, SumOfOne
    <2>. QED BY <1>3, <2>1, SumOfOne
  <1>5. {Older(d) : d \in BagToSet(One(x))} = {y}
    BY <1>2
  <1>. HIDE DEF V, B, y
  <1>6. B = [e \in {y} |-> 1]
    BY <1>1, <1>4, <1>5
  <1>. QED BY <1>6 DEF One, SetToBag, B, y

LEMMA SleptOne == ASSUME NEW x PROVE BagOfAll(Slept, One(x)) = One(Slept(x))
  <1>. DEFINE f(e) == [d \in BagToSet(One(x)) |->
                         IF Slept(d) = e THEN One(x)[d] ELSE 0]
              V(e) == (CHOOSE g : Summed(g, f(e)))[DOMAIN f(e)]
              B == BagOfAll(Slept, One(x))
              y == Slept(x)
  <1>1. B = [e \in {Slept(d) : d \in BagToSet(One(x))} |-> V(e)]
    BY DEF BagOfAll, Summed
  <1>2. BagToSet(One(x)) = {x} /\ One(x)[x] = 1
    BY DEF BagToSet, One, SetToBag
  <1>3. f(y) = [d \in {x} |-> 1]
    BY <1>2
  <1>4. V(y) = 1
    <2>. HIDE DEF f
    <2>1. Summed(CHOOSE g : Summed(g, f(y)), f(y))
      BY <1>3, SumOfOne
    <2>. QED BY <1>3, <2>1, SumOfOne
  <1>5. {Slept(d) : d \in BagToSet(One(x))} = {y}
    BY <1>2
  <1>. HIDE DEF V, B, y
  <1>6. B = [e \in {y} |-> 1]
    BY <1>1, <1>4, <1>5
  <1>. QED BY <1>6 DEF One, SetToBag, B, y

\* What a tick does to a child and to a datagram.
LEMMA SleptAsleep == \A l : Slept(Asleep(l)) = Asleep(l - 1)
  <1>1. \A l, s, o : [[left |-> l, sentB |-> s, old |-> o] EXCEPT !.left = @ - 1]
                       = [left |-> l - 1, sentB |-> s, old |-> o]
    OBVIOUS
  <1>. DEFINE no == FALSE
              yes == TRUE
              child(l) == [left |-> l, sentB |-> yes, old |-> no]
  <1>. HIDE DEF no, yes
  <1>2. \A l : [child(l) EXCEPT !.left = @ - 1] = child(l - 1)
    BY <1>1
  <1>. QED BY <1>2 DEF no, yes, Slept, Asleep

LEMMA OlderDatagrams ==
  /\ \A a : Older(Request(a)) = Request(a + 1)
  /\ \A k, a : Older(Reply(k, a)) = Reply(k, a + 1)
  <1>1. \A c, a, o : [[secs |-> c, age |-> a, old |-> o] EXCEPT !.age = @ + 1]
                       = [secs |-> c, age |-> a + 1, old |-> o]
    OBVIOUS
  <1>2. \A k, a, o : [[kind |-> k, age |-> a, old |-> o] EXCEPT !.age = @ + 1]
                       = [kind |-> k, age |-> a + 1, old |-> o]
    OBVIOUS
  <1>. DEFINE no == FALSE
              request(a) == [secs |-> Candidate, age |-> a, old |-> no]
              reply(k, a) == [kind |-> k, age |-> a, old |-> no]
  <1>. HIDE DEF no
  <1>3. \A a : [request(a) EXCEPT !.age = @ + 1] = request(a + 1)
    BY <1>1
  <1>4. \A k, a : [reply(k, a) EXCEPT !.age = @ + 1] = reply(k, a + 1)
    BY <1>2
  <1>5. \A a : Older(Request(a)) = Request(a + 1)
    BY <1>3 DEF no, Older, Request
  <1>6. \A k, a : Older(Reply(k, a)) = Reply(k, a + 1)
    BY <1>4 DEF no, Older, Reply
  <1>. QED BY <1>5, <1>6

\* Where there is nothing, nothing changes.
LEMMA OfNothing ==
  /\ BagOfAll(Old, EmptyBag) = EmptyBag
  /\ BagOfAll(Older, EmptyBag) = EmptyBag
  /\ BagOfAll(Slept, EmptyBag) = EmptyBag
  BY DEF BagOfAll, EmptyBag, SetToBag, BagToSet

------------------------------------------------------------------------------
(* A try in numbers, and what it leaves alone.                              *)

\* The receive timeout is longer than the seconds asked for and a round trip.
LEMMA TryNumbers ==
  ASSUME FastNetwork, SearchInv, Searching
  PROVE  /\ Candidate \in Nat \ {0} /\ natTimeout \in Nat /\ spoiled \in Nat
         /\ Sec \in Nat \ {0} /\ Slack \in Nat /\ Jitter \in Nat
         /\ Asked \in Nat /\ Jitter < Asked
         /\ RecvTimeout \in Nat /\ Asked + 2 * Jitter < RecvTimeout
         /\ Sure(Candidate) => Asked + 2 * Jitter <= natTimeout
         /\ Reach(Candidate) <=> Asked <= natTimeout + Jitter
  <1>1. /\ Sec \in Nat \ {0} /\ Slack \in Nat /\ Jitter \in Nat /\ Cap \in Nat
        /\ natTimeout \in Nat /\ spoiled \in Nat
        /\ max_to \in 1..(2 * Cap) /\ min_to \in 0..(2 * Cap)
    BY SearchAssumption, CheckerAssumption DEF SearchInv, SearchTypeOK
  <1>2. Candidate \in Nat \ {0}
    <2>1. CASE phase = "double"
      BY <1>1, <2>1 DEF Candidate
    <2>2. CASE phase = "bisect"
      <3>1. max_to - min_to > 2
        BY <2>2 DEF SearchInv, BracketOK
      <3>. QED BY <1>1, <2>2, <3>1, Midpoint DEF Candidate
    <2>. QED BY <2>1, <2>2 DEF Searching
  <1>3. Candidate * Sec \in Nat /\ Sec <= Candidate * Sec
    <2>. HIDE DEF Candidate
    <2>. QED BY <1>1, <1>2
  <1>4. /\ (Candidate + Slack) * Sec = Candidate * Sec + Slack * Sec
        /\ Slack * Sec \in Nat
    <2>. HIDE DEF Candidate
    <2>. QED BY <1>1, <1>2
  <1>5. Jitter < Asked /\ Asked + 2 * Jitter < RecvTimeout /\ RecvTimeout \in Nat
    <2>. HIDE DEF Candidate
    <2>. QED BY <1>1, <1>3, <1>4 DEF FastNetwork, Asked, RecvTimeout
  <1>6. /\ Sure(Candidate) => Asked + 2 * Jitter <= natTimeout
        /\ Reach(Candidate) <=> Asked <= natTimeout + Jitter
    <2>. HIDE DEF Candidate
    <2>. QED BY <1>1, <1>3 DEF Sure, Reach, Asked
  <1>. QED BY <1>1, <1>2, <1>3, <1>5, <1>6 DEF Asked

\* Between two steps of the search its numbers stay the same.
LEMMA SameSearch ==
  ASSUME UNCHANGED searchVars
  PROVE  /\ Candidate' = Candidate /\ Asked' = Asked /\ RecvTimeout' = RecvTimeout
         /\ Searching' <=> Searching
         /\ Sure(Candidate)' <=> Sure(Candidate)
         /\ Reach(Candidate)' <=> Reach(Candidate)
         /\ natTimeout' = natTimeout /\ spoiled' = spoiled
         /\ NewChild' = NewChild /\ \A a : Request(a)' = Request(a)
  BY DEF searchVars, bracketVars, Candidate, Asked, RecvTimeout, Searching, Sure,
         Reach, Request, NewChild

\* Where the request, the child, its replies and what was received are.
LEMMA Whereabouts ==
  ASSUME InTry
  PROVE  /\ up = EmptyBag \/ \E a \in 0..Jitter : Asking(a)
         /\ \/ children = EmptyBag \/ Forked \/ \E l \in 0..Asked : Sleeping(l)
            \/ \E a \in 0..Jitter : AnsweringB(a) \/ GotB(a)
         /\ down = EmptyBag \/ \E a \in 0..Jitter : AnsweringB(a) \/ AnsweringA(a)
         /\ queue = <<>> \/ GotA \/ \E a \in 0..Jitter : GotB(a)
  BY DEF InTry, Asking, Forked, AnsweringB, GotB, Sleeping, AnsweringA, GotA,
         AllGone, Nothing, Holds

------------------------------------------------------------------------------
(* The steps, as long as nothing is duplicated.                             *)

\* A step of the search, in which a try fails only for a fault of its own.
SearchMove ==
  \/ UNCHANGED searchVars
  \/ Reach(Candidate) /\ TryOk
  \/ TryFails /\ (Sure(Candidate) => spoiled < lost')
  \/ Report

Kept == SearchMove /\ idle' \in Nat /\ (BetweenTries' \/ InTry')

\* What a step within a try has to show of it.
LEMMA GoesOn ==
  ASSUME FastNetwork, SearchInv, InTry, UNCHANGED searchVars, idle' \in Nat,
         trying' \in {"A", "B"}, timer' \in 0..RecvTimeout,
         \/ Forked' \/ GotA' \/ AllGone'
         \/ \E a \in 0..Jitter :
              Asking(a)' \/ AnsweringB(a)' \/ GotB(a)' \/ AnsweringA(a)'
         \/ \E l \in 0..Asked : Sleeping(l)'
  PROVE  Kept
  <1>1. Asked' = Asked /\ RecvTimeout' = RecvTimeout /\ Searching'
    BY SameSearch DEF InTry
  <1>. QED BY <1>1 DEF Kept, SearchMove, InTry

\* And one that ends it.
LEMMA Ends ==
  ASSUME trying' = "no", Nothing', idle' \in Nat, SearchMove
  PROVE  Kept
  BY DEF Kept, BetweenTries

\* A try begins where nothing is left of earlier ones.
LEMMA SendRequestStep ==
  ASSUME FastNetwork, SearchInv, Counts, BetweenTries, SendRequest
  PROVE  Kept
  <1>1. UNCHANGED searchVars /\ Searching /\ trying' = "B" /\ timer' = RecvTimeout
        /\ idle' = 0
    BY DEF SendRequest
  <1>2. up' = One(Request(0)) /\ children' = EmptyBag /\ down' = EmptyBag
        /\ queue' = <<>>
    <2>1. up = EmptyBag /\ children = EmptyBag /\ down = EmptyBag /\ queue = <<>>
      BY DEF BetweenTries, Nothing, Holds
    <2>2. up' = EmptyBag (+) One(Request(0))
      BY <2>1, OfNothing DEF SendRequest, Request
    <2>3. queue' = <<>>
      BY <2>1 DEF SendRequest
    <2>. QED BY <2>1, <2>2, <2>3, OfNothing, OneFacts DEF SendRequest
  <1>3. Asked' = Asked /\ RecvTimeout' = RecvTimeout /\ Searching'
        /\ Request(0)' = Request(0)
    BY <1>1, SameSearch
  <1>4. Asking(0)'
    BY <1>1, <1>2, <1>3, TryNumbers DEF Asking, Holds
  <1>5. InTry'
    BY <1>1, <1>3, <1>4, TryNumbers DEF InTry
  <1>. QED BY <1>1, <1>5 DEF Kept, SearchMove

\* try goes on to wait for "A", with a new timeout.
LEMMA ReceiveBStep ==
  ASSUME FastNetwork, SearchInv, Counts, InTry, ReceiveB
  PROVE  Kept
  <1>1. UNCHANGED searchVars /\ trying = "B" /\ trying' = "A" /\ timer' = RecvTimeout
        /\ UNCHANGED <<up, down, children, idle>> /\ queue' = Tail(queue)
        /\ queue # <<>> /\ Head(queue).kind = "B"
    BY DEF ReceiveB, netVars
  <1>2. ~GotA
    BY <1>1 DEF GotA, Holds, Got
  <1>3. PICK a \in 0..Jitter : GotB(a)
    BY <1>1, <1>2, Whereabouts
  <1>4. Asked' = Asked /\ natTimeout' = natTimeout /\ Searching
    BY <1>1, SameSearch DEF InTry
  <1>5. queue' = <<>>
    BY <1>1, <1>3 DEF GotB, Holds
  <1>6. PICK l \in 0..Asked : l = Asked - a
    BY TryNumbers, <1>4
  <1>7. Sleeping(l)'
    <2>1. Holds(EmptyBag, One(Asleep(l)), EmptyBag, <<>>)'
      BY <1>1, <1>3, <1>5, <1>6 DEF GotB, Holds
    <2>2. /\ Asked \in Nat /\ Jitter \in Nat /\ idle \in Nat
          /\ RecvTimeout \in Nat /\ Asked + 2 * Jitter < RecvTimeout
          /\ idle <= Jitter + a
      BY <1>3, <1>4, TryNumbers DEF Counts, GotB
    <2>3. l + Jitter < timer' /\ idle <= Asked + Jitter - l /\ Asked - l <= idle + Jitter
      BY <1>1, <1>6, <2>2
    <2>. QED BY <1>1, <1>4, <2>1, <2>3 DEF Sleeping
  <1>8. RecvTimeout \in 0..RecvTimeout /\ idle \in Nat
    BY <1>4, TryNumbers DEF Counts
  <1>. QED BY <1>1, <1>7, <1>8, GoesOn

\* "A" has passed the NAT, which so kept the mapping.
LEMMA ReceiveAStep ==
  ASSUME FastNetwork, SearchInv, Counts, InTry, ReceiveA
  PROVE  Kept
  <1>1. TryOk /\ trying = "A" /\ trying' = "no" /\ queue # <<>>
        /\ queue' = Tail(queue) /\ UNCHANGED <<up, down, children, idle>>
    BY DEF ReceiveA, EndTry, netVars
  <1>2. GotA
    BY <1>1, Whereabouts DEF GotB
  <1>3. Nothing'
    BY <1>1, <1>2 DEF GotA, Nothing, Holds
  <1>4. SearchMove /\ idle' \in Nat
    BY <1>1, <1>2 DEF SearchMove, GotA, Counts
  <1>. QED BY <1>1, <1>3, <1>4, Ends

\* The other reply was expected: "B" was lost, and this is the last one.
LEMMA ReceiveStrangeStep ==
  ASSUME FastNetwork, SearchInv, Counts, InTry, ReceiveStrange
  PROVE  Kept
  <1>1. TryFails /\ trying' = "no" /\ queue # <<>> /\ Head(queue).kind # trying
        /\ queue' = Tail(queue) /\ UNCHANGED <<up, down, children, idle, lost>>
    BY DEF ReceiveStrange, EndTry, netVars, faultVars
  <1>2. \A a \in 0..Jitter : ~GotB(a)
    BY <1>1 DEF GotB, Holds, Got
  <1>3. GotA
    BY <1>1, <1>2, Whereabouts
  <1>4. Nothing'
    BY <1>1, <1>3 DEF GotA, Nothing, Holds
  <1>5. Excused
    BY <1>1, <1>3 DEF GotA, Holds, Got, InTry
  <1>6. SearchMove /\ idle' \in Nat
    BY <1>1, <1>5 DEF SearchMove, Excused, Counts
  <1>. QED BY <1>1, <1>4, <1>6, Ends

\* Whatever is on its way would have arrived before the receive timeout.
LEMMA ReceiveTimeoutStep ==
  ASSUME FastNetwork, SearchInv, Counts, InTry, ReceiveTimeout
  PROVE  Kept
  <1>1. TryFails /\ trying' = "no" /\ queue = <<>> /\ timer = 0
        /\ UNCHANGED <<queue, up, down, children, idle, lost>>
    BY DEF ReceiveTimeout, EndTry, netVars, faultVars
  <1>2. Asked \in Nat /\ Jitter \in Nat
    BY TryNumbers DEF InTry
  <1>3. ~Forked /\ ~GotA
    BY <1>1, <1>2 DEF Forked, GotA, Holds
  <1>4. ASSUME NEW a \in 0..Jitter
        PROVE  ~Asking(a) /\ ~AnsweringB(a) /\ ~GotB(a) /\ ~AnsweringA(a)
    BY <1>1, <1>2 DEF Asking, AnsweringB, GotB, AnsweringA, Holds
  <1>5. ASSUME NEW l \in 0..Asked PROVE ~Sleeping(l)
    BY <1>1, <1>2 DEF Sleeping
  <1>6. AllGone
    BY <1>3, <1>4, <1>5 DEF InTry
  <1>7. Nothing'
    BY <1>1, <1>6 DEF AllGone, Nothing, Holds
  <1>8. SearchMove /\ idle' \in Nat
    BY <1>1, <1>6 DEF SearchMove, AllGone, Excused, Counts
  <1>. QED BY <1>1, <1>7, <1>8, Ends

\* The request bounces: nothing else is there.
LEMMA ReceiveErrorStep ==
  ASSUME FastNetwork, SearchInv, Counts, InTry, ReceiveError
  PROVE  Kept
  <1>1. TryFails /\ trying' = "no" /\ lost' = lost + 1
        /\ UNCHANGED <<queue, down, children, idle>>
    BY DEF ReceiveError, EndTry
  <1>2. PICK m \in Some(up) : up' = up (-) One(m)
    BY DEF ReceiveError
  <1>3. PICK a \in 0..Jitter : Asking(a)
    BY <1>2, Whereabouts, OneFacts
  <1>4. up' = EmptyBag
    <2>1. up = One(Request(a))
      BY <1>3 DEF Asking, Holds
    <2>. HIDE DEF One
    <2>2. m = Request(a)
      BY <1>2, <2>1, OneFacts
    <2>. QED BY <1>2, <2>1, <2>2, OneFacts
  <1>5. Nothing'
    BY <1>1, <1>3, <1>4 DEF Asking, Nothing, Holds
  <1>6. SearchMove /\ idle' \in Nat
    <2>1. spoiled <= lost /\ lost \in Nat /\ spoiled \in Nat /\ idle \in Nat
      BY TryNumbers DEF Counts, InTry
    <2>. QED BY <1>1, <2>1 DEF SearchMove
  <1>. QED BY <1>1, <1>5, <1>6, Ends

\* What goes on within a try, in numbers.
LEMMA WithinTry ==
  ASSUME FastNetwork, SearchInv, Counts, InTry, UNCHANGED searchVars
  PROVE  /\ Asked \in Nat /\ Jitter \in Nat /\ Jitter < Asked /\ idle \in Nat
         /\ lost \in Nat /\ natTimeout \in Nat /\ spoiled \in Nat /\ spoiled <= lost
         /\ timer \in 0..RecvTimeout /\ RecvTimeout \in Nat /\ trying \in {"A", "B"}
         /\ Asked' = Asked /\ natTimeout' = natTimeout /\ spoiled' = spoiled
         /\ NewChild' = NewChild /\ \A a : Request(a)' = Request(a)
         /\ Sure(Candidate)' <=> Sure(Candidate)
         /\ Reach(Candidate)' <=> Reach(Candidate)
         /\ Sure(Candidate) => Asked + 2 * Jitter <= natTimeout
         /\ Reach(Candidate) <=> Asked <= natTimeout + Jitter
         /\ Searching
  <1>1. Searching
    BY DEF InTry
  <1>. QED BY <1>1, TryNumbers, SameSearch DEF Counts, InTry

\* serve1 receives the request: fork may fail.
LEMMA ServeStep ==
  ASSUME FastNetwork, SearchInv, Counts, InTry, Serve \/ ForkFails
  PROVE  Kept
  <1>1. /\ UNCHANGED searchVars /\ UNCHANGED <<trying, timer, queue, down, idle>>
        /\ \/ UNCHANGED children /\ lost' = lost + 1
           \/ UNCHANGED lost
    BY DEF Serve, ForkFails, clientVars, netVars, faultVars
  <1>2. PICK m \in Some(up) :
          /\ up' = up (-) One(m)
          /\ \/ UNCHANGED children /\ lost' = lost + 1
             \/ children' = children (+)
                  One([left |-> m.secs * Sec, sentB |-> FALSE, old |-> m.old])
    BY DEF Serve, ForkFails
  <1>3. PICK a \in 0..Jitter : Asking(a)
    BY <1>2, Whereabouts, OneFacts
  <1>4. up = One(Request(a)) /\ children = EmptyBag /\ down = EmptyBag /\ queue = <<>>
    BY <1>3 DEF Asking, Holds
  <1>5. m = Request(a)
    BY <1>2, <1>4, OneFacts
  <1>6. up' = EmptyBag
    BY <1>2, <1>4, <1>5, OneFacts
  <1>7. CASE UNCHANGED children /\ lost' = lost + 1
    <2>1. AllGone'
      BY <1>1, <1>4, <1>6, <1>7, WithinTry DEF AllGone, Nothing, Holds, Excused
    <2>. QED BY <1>1, <2>1, WithinTry, GoesOn
  <1>8. CASE children' = children (+)
               One([left |-> m.secs * Sec, sentB |-> FALSE, old |-> m.old])
    <2>1. [left |-> m.secs * Sec, sentB |-> FALSE, old |-> m.old] = NewChild
      BY <1>5 DEF Request, NewChild, Asked
    <2>2. children' = One(NewChild)
      BY <1>4, <1>8, <2>1, OneFacts
    <2>3. Asked + Jitter < timer /\ idle <= Jitter /\ trying = "B"
      BY <1>1, <1>3, WithinTry DEF Asking
    <2>4. Forked'
      BY <1>1, <1>4, <1>6, <2>2, <2>3, WithinTry DEF Forked, Holds
    <2>. QED BY <1>1, <2>4, WithinTry, GoesOn
  <1>. QED BY <1>2, <1>7, <1>8

\* A child that has sent "B" is otherwise the same, and has not slept yet.
LEMMA SentB ==
  \A l, s, o, b :
    [[left |-> l, sentB |-> s, old |-> o] EXCEPT !.sentB = b]
      = [left |-> l, sentB |-> b, old |-> o]
  OBVIOUS

LEMMA ChildSendsBStep ==
  ASSUME FastNetwork, SearchInv, Counts, InTry, ChildSendsB
  PROVE  Kept
  <1>1. /\ UNCHANGED searchVars /\ UNCHANGED <<trying, timer, queue, up, idle, lost>>
    BY DEF ChildSendsB, clientVars, faultVars
  <1>2. PICK c \in Some(children) :
          /\ ~c.sentB
          /\ children' = (children (-) One(c)) (+) One([c EXCEPT !.sentB = TRUE])
          /\ down' = down (+) One([kind |-> "B", age |-> 0, old |-> c.old])
    BY DEF ChildSendsB
  <1>3. \A l : c # Asleep(l)
    BY <1>2 DEF Asleep
  <1>4. Forked
    <2>1. \A l : children # One(Asleep(l))
      BY <1>2, <1>3, OneFacts
    <2>2. children # EmptyBag
      BY <1>2, OneFacts
    <2>. QED BY <2>1, <2>2, Whereabouts DEF Sleeping, AnsweringB, GotB, Holds
  <1>5. children = One(NewChild) /\ up = EmptyBag /\ down = EmptyBag /\ queue = <<>>
    BY <1>4 DEF Forked, Holds
  <1>6. c = NewChild
    BY <1>2, <1>5, OneFacts
  <1>7. /\ [c EXCEPT !.sentB = TRUE] = Asleep(Asked)
        /\ [kind |-> "B", age |-> 0, old |-> c.old] = Reply("B", 0)
    <2>1. c = [left |-> Asked, sentB |-> FALSE, old |-> FALSE]
      BY <1>6 DEF NewChild
    <2>2. [c EXCEPT !.sentB = TRUE] = [left |-> Asked, sentB |-> TRUE, old |-> FALSE]
      <3>. DEFINE no == FALSE
                  yes == TRUE
      <3>. HIDE DEF no, yes
      <3>1. c = [left |-> Asked, sentB |-> no, old |-> no]
        BY <2>1 DEF no
      <3>2. [c EXCEPT !.sentB = yes] = [left |-> Asked, sentB |-> yes, old |-> no]
        BY <3>1, SentB
      <3>. QED BY <3>2 DEF no, yes
    <2>3. c.old = FALSE
      BY <2>1
    <2>. QED BY <2>2, <2>3 DEF Asleep, Reply
  <1>8. children' = One(Asleep(Asked)) /\ down' = One(Reply("B", 0))
    BY <1>2, <1>5, <1>6, <1>7, OneFacts
  <1>9. /\ Asked - 0 = Asked /\ 0 \in 0..Jitter
        /\ Asked + Jitter - 0 < timer /\ idle <= Jitter + 0 /\ trying = "B"
    BY <1>1, <1>4, WithinTry DEF Forked
  <1>10. AnsweringB(0)'
    BY <1>1, <1>5, <1>8, <1>9, WithinTry DEF AnsweringB, Holds
  <1>. QED BY <1>1, <1>9, <1>10, WithinTry, GoesOn

\* The seconds asked for are over: by then "B" has been read or lost.
LEMMA ChildSendsAStep ==
  ASSUME FastNetwork, SearchInv, Counts, InTry, ChildSendsA
  PROVE  Kept
  <1>1. /\ UNCHANGED searchVars /\ UNCHANGED <<trying, timer, queue, up, idle, lost>>
    BY DEF ChildSendsA, clientVars, faultVars
  <1>2. PICK c \in Some(children) :
          /\ c.sentB /\ c.left = 0
          /\ children' = children (-) One(c)
          /\ down' = down (+) One([kind |-> "A", age |-> 0, old |-> c.old])
    BY DEF ChildSendsA
  <1>3. ASSUME NEW a \in 0..Jitter PROVE ~AnsweringB(a) /\ ~GotB(a)
    <2>1. Asleep(Asked - a).left # 0
      BY <1>1, WithinTry DEF Asleep
    <2>2. children # One(Asleep(Asked - a))
      BY <1>2, <2>1, OneFacts
    <2>. QED BY <2>2 DEF AnsweringB, GotB, Holds
  <1>4. ~Forked
    <2>1. ~NewChild.sentB
      BY DEF NewChild
    <2>2. children # One(NewChild)
      BY <1>2, <2>1, OneFacts
    <2>. QED BY <2>2 DEF Forked, Holds
  <1>5. PICK l \in 0..Asked : Sleeping(l)
    BY <1>2, <1>3, <1>4, Whereabouts, OneFacts
  <1>6. children = One(Asleep(l)) /\ up = EmptyBag /\ down = EmptyBag /\ queue = <<>>
    BY <1>5 DEF Sleeping, Holds
  <1>7. c = Asleep(l)
    BY <1>2, <1>6, OneFacts
  <1>8. l = 0 /\ [kind |-> "A", age |-> 0, old |-> c.old] = Reply("A", 0)
    BY <1>2, <1>7 DEF Asleep, Reply
  <1>9. children' = EmptyBag /\ down' = One(Reply("A", 0))
    BY <1>2, <1>6, <1>7, <1>8, OneFacts
  <1>10. /\ 0 \in 0..Jitter /\ Jitter - 0 < timer /\ idle <= Asked + Jitter + 0
         /\ idle <= natTimeout => Asked <= idle + Jitter
         /\ trying = "B" => Excused /\ MissedB
    BY <1>1, <1>5, <1>8, WithinTry DEF Sleeping
  <1>11. (Excused' <=> Excused) /\ (MissedB' <=> MissedB)
    BY <1>1, WithinTry DEF Excused, MissedB
  <1>12. AnsweringA(0)'
    BY <1>1, <1>6, <1>9, <1>10, <1>11, WithinTry DEF AnsweringA, Holds
  <1>. QED BY <1>1, <1>10, <1>12, WithinTry, GoesOn

\* A reply comes to the NAT, which lets it in while the mapping lives.
LEMMA DeliverStep ==
  ASSUME FastNetwork, SearchInv, Counts, InTry, Deliver
  PROVE  Kept
  <1>1. UNCHANGED searchVars /\ UNCHANGED <<trying, timer, up, children, lost>>
    BY DEF Deliver, faultVars
  <1>2. PICK m \in Some(down) :
          /\ down' = down (-) One(m)
          /\ IF idle <= natTimeout
             THEN /\ queue' = Append(queue, [kind |-> m.kind, old |-> m.old])
                  /\ idle' \in {0, idle}
             ELSE UNCHANGED <<queue, idle>>
    BY DEF Deliver
  <1>3. idle' \in Nat /\ idle' <= idle
    BY <1>1, <1>2, WithinTry
  <1>4. ASSUME NEW a \in 0..Jitter, AnsweringB(a)
        PROVE  Kept
    <2>1. up = EmptyBag /\ children = One(Asleep(Asked - a)) /\ queue = <<>>
          /\ down = One(Reply("B", a)) /\ trying = "B"
          /\ Asked + Jitter - a < timer /\ idle <= Jitter + a
      BY <1>4 DEF AnsweringB, Holds
    <2>2. m = Reply("B", a)
      BY <1>2, <2>1, OneFacts
    <2>3. down' = EmptyBag
      BY <1>2, <2>1, <2>2, OneFacts
    <2>4. CASE idle <= natTimeout
      <3>1. [kind |-> m.kind, old |-> m.old] = Got("B")
        BY <2>2 DEF Reply, Got
      <3>2. queue' = <<Got("B")>>
        BY <1>2, <2>1, <2>4, <3>1
      <3>3. idle' <= Jitter + a
        BY <1>1, <1>3, <2>1, WithinTry
      <3>4. GotB(a)'
        BY <1>1, <2>1, <2>3, <3>2, <3>3, WithinTry DEF GotB, Holds
      <3>. QED BY <1>1, <1>3, <3>4, WithinTry, GoesOn
    <2>5. CASE ~(idle <= natTimeout)
      <3>1. queue' = queue /\ idle' = idle
        BY <1>2, <2>5
      <3>2. ~Sure(Candidate)
        BY <1>1, <2>1, <2>5, WithinTry
      <3>3. Excused' /\ MissedB'
        BY <1>1, <2>5, <3>1, <3>2, WithinTry DEF Excused, MissedB
      <3>4. PICK l \in 0..Asked : l = Asked - a
        BY <1>1, WithinTry
      <3>5. l + Jitter < timer /\ idle <= Asked + Jitter - l
        BY <1>1, <2>1, <3>4, WithinTry
      <3>6. Sleeping(l)'
        BY <1>1, <2>1, <2>3, <2>5, <3>1, <3>3, <3>4, <3>5, WithinTry
        DEF Sleeping, Holds
      <3>. QED BY <1>1, <1>3, <3>6, WithinTry, GoesOn
    <2>. QED BY <2>4, <2>5
  <1>5. ASSUME NEW a \in 0..Jitter, AnsweringA(a)
        PROVE  Kept
    <2>1. up = EmptyBag /\ children = EmptyBag /\ queue = <<>>
          /\ down = One(Reply("A", a)) /\ idle <= Asked + Jitter + a
          /\ (idle <= natTimeout => Asked <= idle + Jitter)
          /\ (trying = "B" => Excused /\ MissedB)
      BY <1>5 DEF AnsweringA, Holds
    <2>2. m = Reply("A", a)
      BY <1>2, <2>1, OneFacts
    <2>3. down' = EmptyBag
      BY <1>2, <2>1, <2>2, OneFacts
    <2>4. Excused' <=> Excused
      BY <1>1, WithinTry DEF Excused
    <2>5. CASE idle <= natTimeout
      <3>1. [kind |-> m.kind, old |-> m.old] = Got("A")
        BY <2>2 DEF Reply, Got
      <3>2. queue' = <<Got("A")>>
        BY <1>2, <2>1, <2>5, <3>1
      <3>3. Reach(Candidate)'
        BY <1>1, <2>1, <2>5, WithinTry
      <3>4. trying = "B" => lost' > 0
        BY <1>1, <2>1, <2>5, WithinTry DEF MissedB
      <3>5. GotA'
        BY <1>1, <2>1, <2>3, <2>4, <3>2, <3>3, <3>4 DEF GotA, Holds
      <3>. QED BY <1>1, <1>3, <3>5, WithinTry, GoesOn
    <2>6. CASE ~(idle <= natTimeout)
      <3>1. queue' = queue
        BY <1>2, <2>6
      <3>2. ~Sure(Candidate)
        BY <1>1, <2>1, <2>6, WithinTry
      <3>3. AllGone'
        BY <1>1, <2>1, <2>3, <3>1, <3>2, WithinTry DEF AllGone, Nothing, Holds, Excused
      <3>. QED BY <1>1, <1>3, <3>3, WithinTry, GoesOn
    <2>. QED BY <2>5, <2>6
  <1>. QED BY <1>2, <1>4, <1>5, Whereabouts, OneFacts

\* The request or a reply is lost, which excuses a failure of the try.
LEMMA LoseStep ==
  ASSUME FastNetwork, SearchInv, Counts, InTry, Lose
  PROVE  Kept
  <1>1. UNCHANGED searchVars /\ UNCHANGED <<trying, timer, queue, children, idle>>
        /\ lost' = lost + 1
    BY DEF Lose, clientVars
  <1>2. Excused' /\ MissedB'
    BY <1>1, WithinTry DEF Excused, MissedB
  <1>3. CASE \E m \in Some(up) : up' = up (-) One(m) /\ UNCHANGED down
    <2>1. PICK m \in Some(up) : up' = up (-) One(m) /\ UNCHANGED down
      BY <1>3
    <2>2. PICK a \in 0..Jitter : Asking(a)
      BY <2>1, Whereabouts, OneFacts
    <2>3. up = One(Request(a)) /\ children = EmptyBag /\ down = EmptyBag
          /\ queue = <<>>
      BY <2>2 DEF Asking, Holds
    <2>4. m = Request(a)
      BY <2>1, <2>3, OneFacts
    <2>5. up' = EmptyBag
      BY <2>1, <2>3, <2>4, OneFacts
    <2>6. AllGone'
      BY <1>1, <1>2, <2>1, <2>3, <2>5 DEF AllGone, Nothing, Holds
    <2>. QED BY <1>1, <2>6, WithinTry, GoesOn
  <1>4. CASE \E m \in Some(down) : down' = down (-) One(m) /\ UNCHANGED up
    <2>1. PICK m \in Some(down) : down' = down (-) One(m) /\ UNCHANGED up
      BY <1>4
    <2>2. ASSUME NEW r, down = One(r) PROVE down' = EmptyBag
      <3>1. m = r
        BY <2>1, <2>2, OneFacts
      <3>. QED BY <2>1, <2>2, <3>1, OneFacts
    <2>3. ASSUME NEW a \in 0..Jitter, AnsweringB(a)
          PROVE  Kept
      <3>1. up = EmptyBag /\ children = One(Asleep(Asked - a)) /\ queue = <<>>
            /\ down = One(Reply("B", a)) /\ trying = "B"
            /\ Asked + Jitter - a < timer /\ idle <= Jitter + a
        BY <2>3 DEF AnsweringB, Holds
      <3>2. PICK l \in 0..Asked : l = Asked - a
        BY <1>1, WithinTry
      <3>3. l + Jitter < timer /\ idle <= Asked + Jitter - l
            /\ Asked - l <= idle + Jitter
        <4>1. Asked \in Nat /\ Jitter \in Nat /\ idle \in Nat /\ timer \in Nat
          BY <1>1, WithinTry
        <4>. QED BY <3>1, <3>2, <4>1
      <3>4. down' = EmptyBag
        BY <2>2, <3>1
      <3>5. Sleeping(l)'
        BY <1>1, <1>2, <2>1, <3>1, <3>2, <3>3, <3>4, WithinTry DEF Sleeping, Holds
      <3>. QED BY <1>1, <3>5, WithinTry, GoesOn
    <2>4. ASSUME NEW a \in 0..Jitter, AnsweringA(a)
          PROVE  Kept
      <3>1. up = EmptyBag /\ children = EmptyBag /\ queue = <<>>
            /\ down = One(Reply("A", a))
        BY <2>4 DEF AnsweringA, Holds
      <3>2. down' = EmptyBag
        BY <2>2, <3>1
      <3>3. AllGone'
        BY <1>1, <1>2, <2>1, <3>1, <3>2 DEF AllGone, Nothing, Holds
      <3>. QED BY <1>1, <3>3, WithinTry, GoesOn
    <2>. QED BY <2>1, <2>3, <2>4, Whereabouts, OneFacts
  <1>. QED BY <1>3, <1>4 DEF Lose

\* A tick: nothing is due, and everything that is under way gets nearer.
LEMMA TickStep ==
  ASSUME FastNetwork, SearchInv, Counts, InTry, dups = 0, Tick
  PROVE  Kept
  <1>1. UNCHANGED searchVars /\ UNCHANGED <<trying, queue, lost>> /\ queue = <<>>
        /\ timer > 0 /\ timer' = timer - 1
        /\ up' = BagOfAll(Older, up) /\ down' = BagOfAll(Older, down)
        /\ children' = BagOfAll(Slept, children)
        /\ idle' = (IF idle <= natTimeout THEN idle + 1 ELSE idle)
        /\ (\A m \in Some(up) \cup Some(down) : m.age < Jitter)
        /\ (\A c \in Some(children) : c.sentB /\ c.left > 0)
    BY DEF Tick, faultVars, OldestNow
  <1>2. /\ Asked \in Nat /\ Jitter \in Nat /\ Jitter < Asked /\ idle \in Nat
        /\ natTimeout \in Nat /\ timer \in Nat /\ timer' \in 0..RecvTimeout
        /\ trying' \in {"A", "B"} /\ Asked' = Asked /\ natTimeout' = natTimeout
        /\ (Excused' <=> Excused) /\ (MissedB => MissedB')
    <2>1. timer \in 0..RecvTimeout /\ RecvTimeout \in Nat
      BY <1>1, WithinTry
    <2>2. timer' \in 0..RecvTimeout
      BY <1>1, <2>1
    <2>. QED BY <1>1, <2>1, <2>2, WithinTry DEF Excused, MissedB
  <1>3. idle' \in Nat /\ idle' <= idle + 1 /\ (idle' <= natTimeout => idle' = idle + 1)
    BY <1>1, <1>2
  <1>4. ASSUME NEW a \in 0..Jitter, Asking(a)
        PROVE  Kept
    <2>1. up = One(Request(a)) /\ children = EmptyBag /\ down = EmptyBag
          /\ trying = "B" /\ Asked + 2 * Jitter - a < timer /\ idle <= a
      BY <1>4 DEF Asking, Holds
    <2>2. Request(a).age < Jitter
      BY <1>1, <2>1, OneFacts
    <2>3. PICK b \in 0..Jitter : b = a + 1
      BY <1>2, <2>2 DEF Request
    <2>4. Older(Request(a)) = Request(b)
      BY <2>3, OlderDatagrams
    <2>5. up' = One(Request(b)) /\ children' = EmptyBag /\ down' = EmptyBag
      BY <1>1, <2>1, <2>4, OlderOne, OfNothing
    <2>6. Asked + 2 * Jitter - b < timer' /\ idle' <= b
      BY <1>1, <1>2, <1>3, <2>1, <2>3
    <2>7. Asking(b)'
      BY <1>1, <1>2, <2>1, <2>5, <2>6, WithinTry DEF Asking, Holds
    <2>. QED BY <1>1, <1>2, <1>3, <2>7, GoesOn
  <1>5. ASSUME NEW a \in 0..Jitter, AnsweringB(a)
        PROVE  Kept
    <2>1. up = EmptyBag /\ children = One(Asleep(Asked - a))
          /\ down = One(Reply("B", a)) /\ trying = "B"
          /\ Asked + Jitter - a < timer /\ idle <= Jitter + a
      BY <1>5 DEF AnsweringB, Holds
    <2>2. Reply("B", a).age < Jitter
      BY <1>1, <2>1, OneFacts
    <2>3. PICK b \in 0..Jitter : b = a + 1
      BY <1>2, <2>2 DEF Reply
    <2>4. Older(Reply("B", a)) = Reply("B", b)
      BY <2>3, OlderDatagrams
    <2>5. Slept(Asleep(Asked - a)) = Asleep(Asked - b)
      <3>1. (Asked - a) - 1 = Asked - b
        BY <1>2, <2>3
      <3>. QED BY <3>1, SleptAsleep
    <2>6. up' = EmptyBag /\ children' = One(Asleep(Asked - b))
          /\ down' = One(Reply("B", b))
      BY <1>1, <2>1, <2>4, <2>5, OlderOne, SleptOne, OfNothing
    <2>7. Asked + Jitter - b < timer' /\ idle' <= Jitter + b
      BY <1>1, <1>2, <1>3, <2>1, <2>3
    <2>8. AnsweringB(b)'
      BY <1>1, <1>2, <2>1, <2>6, <2>7 DEF AnsweringB, Holds
    <2>. QED BY <1>1, <1>2, <1>3, <2>8, GoesOn
  <1>6. ASSUME NEW a \in 0..Jitter, AnsweringA(a)
        PROVE  Kept
    <2>1. up = EmptyBag /\ children = EmptyBag
          /\ down = One(Reply("A", a)) /\ (trying = "B" => Excused /\ MissedB)
          /\ Jitter - a < timer /\ idle <= Asked + Jitter + a
          /\ (idle <= natTimeout => Asked <= idle + Jitter)
      BY <1>6 DEF AnsweringA, Holds
    <2>2. Reply("A", a).age < Jitter
      BY <1>1, <2>1, OneFacts
    <2>3. PICK b \in 0..Jitter : b = a + 1
      BY <1>2, <2>2 DEF Reply
    <2>4. Older(Reply("A", a)) = Reply("A", b)
      BY <2>3, OlderDatagrams
    <2>5. up' = EmptyBag /\ children' = EmptyBag /\ down' = One(Reply("A", b))
      BY <1>1, <2>1, <2>4, OlderOne, OfNothing
    <2>6. /\ Jitter - b < timer' /\ idle' <= Asked + Jitter + b
          /\ idle' <= natTimeout => Asked <= idle' + Jitter
      BY <1>1, <1>2, <1>3, <2>1, <2>3
    <2>7. AnsweringA(b)'
      BY <1>1, <1>2, <2>1, <2>5, <2>6 DEF AnsweringA, Holds
    <2>. QED BY <1>1, <1>2, <1>3, <2>7, GoesOn
  <1>7. ASSUME NEW l \in 0..Asked, Sleeping(l)
        PROVE  Kept
    <2>1. up = EmptyBag /\ children = One(Asleep(l)) /\ down = EmptyBag
          /\ (trying = "B" => Excused /\ MissedB)
          /\ l + Jitter < timer /\ idle <= Asked + Jitter - l
          /\ (idle <= natTimeout => Asked - l <= idle + Jitter)
      BY <1>7 DEF Sleeping, Holds
    <2>2. Asleep(l).left > 0
      BY <1>1, <2>1, OneFacts
    <2>3. PICK k \in 0..Asked : k = l - 1
      BY <1>2, <2>2 DEF Asleep
    <2>4. Slept(Asleep(l)) = Asleep(k)
      BY <2>3, SleptAsleep
    <2>5. up' = EmptyBag /\ children' = One(Asleep(k)) /\ down' = EmptyBag
      BY <1>1, <2>1, <2>4, SleptOne, OfNothing
    <2>6. /\ k + Jitter < timer' /\ idle' <= Asked + Jitter - k
          /\ idle' <= natTimeout => Asked - k <= idle' + Jitter
      BY <1>1, <1>2, <1>3, <2>1, <2>3
    <2>7. Sleeping(k)'
      BY <1>1, <1>2, <2>1, <2>5, <2>6 DEF Sleeping, Holds
    <2>. QED BY <1>1, <1>2, <1>3, <2>7, GoesOn
  <1>8. CASE AllGone
    <2>1. AllGone'
      BY <1>1, <1>2, <1>8, OfNothing DEF AllGone, Nothing, Holds
    <2>. QED BY <1>1, <1>2, <1>3, <2>1, GoesOn
  <1>9. ~Forked
    <2>1. ~NewChild.sentB
      BY DEF NewChild
    <2>2. children # One(NewChild)
      BY <1>1, <2>1, OneFacts
    <2>. QED BY <2>2 DEF Forked, Holds
  <1>10. ~GotA /\ \A a \in 0..Jitter : ~GotB(a)
    BY <1>1 DEF GotA, GotB, Holds
  <1>. QED BY <1>4, <1>5, <1>6, <1>7, <1>8, <1>9, <1>10 DEF InTry

\* Between two tries nothing is there that could do anything.
LEMMA BetweenStep ==
  ASSUME FastNetwork, SearchInv, Counts, BetweenTries, Next, dups = 0, dups' = 0
  PROVE  Kept
  <1>1. trying = "no" /\ queue = <<>> /\ Some(up) = {} /\ Some(down) = {}
        /\ Some(children) = {} /\ idle \in Nat
    BY OneFacts DEF BetweenTries, Nothing, Holds, Counts
  <1>2. CASE SendRequest
    BY <1>2, SendRequestStep
  <1>3. CASE SendFails
    <2>1. TryFails /\ lost' = lost + 1 /\ Searching
          /\ UNCHANGED <<trying, queue, up, down, children, idle>>
      BY <1>3 DEF SendFails, clientVars, netVars
    <2>2. SearchMove
      <3>1. spoiled \in Nat /\ lost \in Nat /\ spoiled <= lost
        BY <2>1, TryNumbers DEF Counts
      <3>. QED BY <2>1, <3>1 DEF SearchMove
    <2>3. Nothing'
      BY <2>1 DEF BetweenTries, Nothing, Holds
    <2>. QED BY <1>1, <2>1, <2>2, <2>3, Ends
  <1>4. CASE ClientReport
    <2>1. Report /\ UNCHANGED <<trying, queue, up, down, children, idle>>
      BY <1>4 DEF ClientReport, clientVars, netVars
    <2>2. Nothing'
      BY <2>1 DEF BetweenTries, Nothing, Holds
    <2>. QED BY <1>1, <2>1, <2>2, Ends DEF SearchMove
  <1>5. ~Tick /\ ~ReceiveB /\ ~ReceiveA /\ ~ReceiveStrange /\ ~ReceiveTimeout
        /\ ~ReceiveError
    BY <1>1 DEF Tick, ReceiveB, ReceiveA, ReceiveStrange, ReceiveTimeout, ReceiveError
  <1>6. ~Serve /\ ~ForkFails /\ ~ChildSendsB /\ ~ChildSendsA /\ ~Deliver /\ ~Lose
    BY <1>1 DEF Serve, ForkFails, ChildSendsB, ChildSendsA, Deliver, Lose
  <1>7. ~Duplicate
    BY DEF Duplicate
  <1>. QED BY <1>2, <1>3, <1>4, <1>5, <1>6, <1>7 DEF Next, Client, Server, Faults

\* Within a try every step leads to another stage, or ends it cleanly.
LEMMA InTryStep ==
  ASSUME FastNetwork, SearchInv, Counts, InTry, Next, dups = 0, dups' = 0
  PROVE  Kept
  <1>1. ~SendRequest /\ ~SendFails /\ ~ClientReport /\ ~Duplicate
    <2>1. trying # "no" /\ Searching
      BY DEF InTry
    <2>2. ~ClientReport
      BY <2>1 DEF ClientReport, Report, Searching
    <2>3. ~Duplicate
      BY DEF Duplicate
    <2>. QED BY <2>1, <2>2, <2>3 DEF SendRequest, SendFails
  <1>2. CASE ReceiveB \/ ReceiveA \/ ReceiveStrange \/ ReceiveTimeout \/ ReceiveError
    BY <1>2, ReceiveBStep, ReceiveAStep, ReceiveStrangeStep, ReceiveTimeoutStep,
       ReceiveErrorStep
  <1>3. CASE Serve \/ ForkFails \/ ChildSendsB \/ ChildSendsA
    BY <1>3, ServeStep, ChildSendsBStep, ChildSendsAStep
  <1>4. CASE Deliver \/ Lose \/ Tick
    BY <1>4, DeliverStep, LoseStep, TickStep
  <1>. QED BY <1>1, <1>2, <1>3, <1>4 DEF Next, Client, Server, Faults

\* Faults are counted, and only where the bounds allow one.
LEMMA FaultsCounted ==
  ASSUME Next
  PROVE  /\ dups' \in {dups, dups + 1}
         /\ lost' = lost \/ (lost < MaxLost /\ lost' = lost + 1)
  <1>1. CASE Client \/ Server \/ Deliver \/ Tick
    <2>1. UNCHANGED <<lost, dups>>
      BY <1>1 DEF Client, SendRequest, ReceiveB, ReceiveA, ReceiveStrange,
                  ReceiveTimeout, ClientReport, Server, Serve, ChildSendsB,
                  ChildSendsA, Deliver, Tick, faultVars
    <2>. QED BY <2>1
  <1>2. CASE Faults
    BY <1>2 DEF Faults, SendFails, ReceiveError, ForkFails, Lose, Duplicate, MayLose
  <1>. QED BY <1>1, <1>2 DEF Next

\* One fault excuses one failure, so that there are no more of them.
LEMMA CheckerStep ==
  ASSUME FastNetwork, CheckerInv, Next
  PROVE  /\ CheckerInv'
         /\ dups' = 0 => SearchMove /\ lost' <= MaxLost
  <1>1. dups \in Nat /\ dups' \in Nat /\ (dups' = 0 => dups = 0)
    BY FaultsCounted DEF CheckerInv
  <1>2. ASSUME dups' = 0
        PROVE  /\ SearchInv' /\ Counts' /\ (BetweenTries' \/ InTry')
               /\ SearchMove /\ lost' <= MaxLost
    <2>1. dups = 0
      BY <1>1, <1>2
    <2>2. SearchInv /\ Counts /\ (BetweenTries \/ InTry)
      BY <2>1 DEF CheckerInv
    <2>3. Kept
      BY <1>2, <2>1, <2>2, BetweenStep, InTryStep
    <2>4. SearchInv'
      BY <2>2, <2>3, InvMove DEF Kept, SearchMove
    <2>5. lost' \in Nat /\ lost <= lost' /\ lost' <= MaxLost
      <3>1. lost \in Nat /\ lost <= MaxLost /\ MaxLost \in Nat
        BY <2>2, CheckerAssumption DEF Counts
      <3>. QED BY <1>1, <3>1, FaultsCounted
    <2>6. spoiled' <= lost'
      <3>1. spoiled \in Nat /\ spoiled <= lost /\ lost \in Nat
        BY <2>2 DEF Counts, SearchInv, SearchTypeOK
      <3>2. spoiled' = spoiled \/ (spoiled' = spoiled + 1 /\ spoiled < lost')
        BY <2>3 DEF Kept, SearchMove, searchVars, TryOk, TryFails, Report
      <3>. QED BY <2>5, <3>1, <3>2
    <2>. QED BY <2>3, <2>4, <2>5, <2>6 DEF Kept, Counts
  <1>. QED BY <1>1, <1>2 DEF CheckerInv

\* As long as no datagram is duplicated a try of the checker is at one of its
\* stages, what SearchInv says of the search holds of it, and so neither a
\* result nor the printed number is too long.
THEOREM CheckerInvariant ==
  ASSUME FastNetwork
  PROVE  Spec => []CheckerInv
  <1>1. Init => CheckerInv
    <2>. SUFFICES ASSUME Init PROVE CheckerInv
      OBVIOUS
    <2>1. SearchInv
      BY SearchStart DEF Init, SearchInit, SearchInv, Books, NeverOverestimates,
                         MiddleHidesOneLoss
    <2>2. Counts
      BY CheckerAssumption DEF Init, SearchInit, Counts
    <2>3. BetweenTries
      BY DEF Init, BetweenTries, Nothing, Holds
    <2>. QED BY <2>1, <2>2, <2>3 DEF CheckerInv, Init
  <1>2. CheckerInv /\ [Next]_vars => CheckerInv'
    <2>. SUFFICES ASSUME CheckerInv, [Next]_vars PROVE CheckerInv'
      OBVIOUS
    <2>1. CASE Next
      BY <2>1, CheckerStep
    <2>2. CASE UNCHANGED vars
      <3>1. UNCHANGED <<searchVars, trying, timer, queue, up, down, children, idle,
                        lost, dups>>
        BY <2>2 DEF vars, clientVars, netVars, faultVars
      <3>2. ASSUME SearchInv PROVE SearchInv'
        BY <3>1, <3>2, InvMove
      <3>3. (Counts' <=> Counts) /\ (BetweenTries' <=> BetweenTries)
        BY <3>1, SameSearch DEF Counts, BetweenTries, Nothing, Holds
      <3>4. InTry' <=> InTry
        BY <3>1, SameSearch
        DEF InTry, Asking, Forked, AnsweringB, GotB, Sleeping, AnsweringA, GotA,
            AllGone, Nothing, Holds, Excused, MissedB
      <3>. QED BY <3>1, <3>2, <3>3, <3>4 DEF CheckerInv
    <2>. QED BY <2>1, <2>2
  <1>. QED BY <1>1, <1>2, PTL DEF Spec

\* A try begins with a clean slate, whatever was lost before.
THEOREM CleanStartHolds ==
  ASSUME FastNetwork
  PROVE  Spec => []CleanStart
  <1>1. CheckerInv => CleanStart
    BY DEF CheckerInv, BetweenTries, InTry, Nothing, Holds, CleanStart
  <1>. QED BY <1>1, CheckerInvariant, PTL

\* What a try reads, "B", "A" or a strange reply (udptimeoutchecker.c:79-98),
\* answers its own request, and "A" comes without "B" only if "B" was lost: not
\* because it overtook it, and not because the NAT let in only the second.
THEOREM OwnRepliesHold ==
  ASSUME FastNetwork
  PROVE  Spec => OwnReplies
  <1>1. CheckerInv /\ [Next]_vars =>
          [dups = 0 => /\ ReceiveB \/ ReceiveA \/ ReceiveStrange => ~Head(queue).old
                       /\ ReceiveStrange => trying = "B" /\ lost > 0]_vars
    <2>. SUFFICES ASSUME CheckerInv, dups = 0, ReceiveB \/ ReceiveA \/ ReceiveStrange
                  PROVE  /\ ~Head(queue).old
                         /\ ReceiveStrange => trying = "B" /\ lost > 0
      OBVIOUS
    <2>1. trying \in {"A", "B"} /\ queue # <<>>
      BY DEF ReceiveB, ReceiveA, ReceiveStrange, CheckerInv, BetweenTries, InTry
    <2>2. InTry
      BY <2>1 DEF CheckerInv, BetweenTries
    <2>3. GotA \/ \E a \in 0..Jitter : GotB(a)
      BY <2>1, <2>2, Whereabouts
    <2>4. CASE GotA
      <3>1. Head(queue) = Got("A") /\ (trying = "B" => lost > 0)
        BY <2>4 DEF GotA, Holds
      <3>2. ReceiveStrange => trying = "B"
        BY <2>1, <3>1 DEF ReceiveStrange, Got
      <3>. QED BY <3>1, <3>2 DEF Got
    <2>5. CASE \E a \in 0..Jitter : GotB(a)
      <3>1. Head(queue) = Got("B") /\ trying = "B"
        BY <2>5 DEF GotB, Holds
      <3>2. ~ReceiveStrange
        BY <3>1 DEF ReceiveStrange, Got
      <3>. QED BY <3>1, <3>2 DEF Got
    <2>. QED BY <2>3, <2>4, <2>5
  <1>. QED BY <1>1, CheckerInvariant, PTL DEF Spec, OwnReplies

\* Every step of the checker is one of the search, or none of its concern: an
\* answer means that the NAT kept the mapping, and if there are no more faults
\* than the search allows spoiled tries, no more are spoiled.
THEOREM ImplementsSearchHolds ==
  ASSUME FastNetwork, MaxLost <= MaxSpoiled
  PROVE  Spec => ImplementsSearch
  <1>1. CheckerInv /\ [Next]_vars => [dups' = 0 => SearchNext]_searchVars
    <2>. SUFFICES ASSUME CheckerInv, [Next]_vars, dups' = 0, searchVars' # searchVars
                  PROVE  SearchNext
      OBVIOUS
    <2>1. Next
      BY DEF vars
    <2>2. SearchMove /\ lost' <= MaxLost
      BY <2>1, CheckerStep
    <2>3. dups = 0
      BY <2>1, FaultsCounted DEF CheckerInv
    <2>4. spoiled \in Nat /\ lost \in Nat /\ MaxLost \in Nat /\ MaxSpoiled \in Nat
      BY <2>3, SearchAssumption, CheckerAssumption
      DEF CheckerInv, Counts, SearchInv, SearchTypeOK
    <2>5. lost' \in Nat
      BY <2>1, <2>4, FaultsCounted
    <2>6. spoiled < lost' => spoiled < MaxSpoiled
      BY <2>2, <2>4, <2>5
    <2>. QED BY <2>2, <2>6 DEF SearchMove, SearchNext
  <1>2. Init => SearchInit
    BY DEF Init
  <1>. QED BY <1>1, <1>2, CheckerInvariant, PTL DEF Spec, ImplementsSearch

\* So the number printed is a delay after which the connection worked, and if
\* one datagram at most was lost it is within two seconds of the NAT timeout.
PrintedRight ==
  /\ PrintsWorkingDelay
  /\ lost <= 1 /\ phase = "done" => Accurate(result)

\* What probe prints (udptimeoutchecker.c:159), as long as nothing is duplicated.
THEOREM PrintedNumberIsRight ==
  ASSUME FastNetwork
  PROVE  Spec => [](dups = 0 => PrintedRight)
  <1>1. CheckerInv => (dups = 0 => PrintedRight)
    <2>. SUFFICES ASSUME CheckerInv, dups = 0 PROVE PrintedRight
      OBVIOUS
    <2>1. SearchInv /\ Counts
      BY DEF CheckerInv
    <2>2. PrintsWorkingDelay
      BY <2>1 DEF SearchInv, NeverOverestimates, PrintsWorkingDelay
    <2>3. lost <= 1 => spoiled <= 1
      BY <2>1 DEF Counts, SearchInv, SearchTypeOK
    <2>. QED BY <2>1, <2>2, <2>3 DEF SearchInv, MiddleHidesOneLoss, PrintedRight
  <1>. QED BY <1>1, CheckerInvariant, PTL

\* Whatever the network loses, delays or duplicates, and for every NAT and Cap:
\* the tries left are a natural number that every try makes smaller, so the
\* client does not try for ever (one_experiment, udptimeoutchecker.c:104-143).
THEOREM EveryTryCountsHolds == Spec => EveryTryCounts
  <1>1. ASSUME Next, TryOver \/ searchVars # searchVars'
        PROVE  TryOk \/ TryFails \/ Report
    <2>1. ~Server /\ ~Deliver /\ ~Tick
      BY <1>1 DEF Server, Serve, ChildSendsB, ChildSendsA, Deliver, Tick,
             TryOver, clientVars
    <2>2. Client => TryOk \/ TryFails \/ Report
      BY <1>1 DEF Client, SendRequest, ReceiveB, ReceiveA, ReceiveStrange,
             ReceiveTimeout, ClientReport, TryOver
    <2>3. Faults => TryFails
      BY <1>1 DEF Faults, SendFails, ReceiveError, ForkFails, Lose, Duplicate,
             TryOver, clientVars
    <2>. QED BY <1>1, <2>1, <2>2, <2>3 DEF Next
  <1>2. Bounds /\ [Next]_vars
          => Bounds' /\ [TryOver \/ searchVars # searchVars' => Nearer]_vars
    <2>. SUFFICES ASSUME Bounds, [Next]_vars
                  PROVE  Bounds' /\ [TryOver \/ searchVars # searchVars' => Nearer]_vars
      OBVIOUS
    <2>1. ASSUME searchVars' = searchVars PROVE Bounds'
      BY <2>1 DEF searchVars, bracketVars, Bounds, Searching
    <2>2. CASE UNCHANGED vars
      BY <2>1, <2>2 DEF vars
    <2>3. CASE Next /\ (TryOver \/ searchVars # searchVars')
      BY <1>1, <2>3, MoveCounts DEF Nearer
    <2>4. CASE Next /\ ~(TryOver \/ searchVars # searchVars')
      BY <2>1, <2>4
    <2>. QED BY <2>2, <2>3, <2>4
  <1>3. Init => Bounds
    BY BoundsStart DEF Init
  <1>. QED BY <1>2, <1>3, PTL DEF Spec, EveryTryCounts
==============================================================================
