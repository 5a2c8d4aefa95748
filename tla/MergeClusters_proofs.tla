------------------------ MODULE MergeClusters_proofs ------------------------
(***************************************************************************)
(* Proofs about PairRounds and MergeClusters for every list of pairs,      *)
(* every verifier and every order the merges are made in.                  *)
(*                                                                         *)
(* The rounds.  The inductive invariant says that a pair that was asked    *)
(* stays undecided by the pairs before it even if every one of those not   *)
(* answered "different" were one screen.  NoContradiction follows: on a    *)
(* cycle with one "different" answer, the pair listed last was decided by  *)
(* the others.                                                             *)
(*                                                                         *)
(* The merges.  A removed node is an alias of a lower one of its cluster,  *)
(* so following the merges ends, inside the cluster.  Each merge makes the *)
(* two ends of a pair resolve to one node and moves nothing else; when     *)
(* every pair is settled, the nodes that the "same" answers join resolve   *)
(* to one node, and that is the lowest.                                    *)
(***************************************************************************)
EXTENDS MergeClusters, TLAPS, NaturalsInduction, WellFoundedInduction

PairsOK == pairs \in Seq(Nodes \X Nodes)

-----------------------------------------------------------------------------
(* Joined(I, a, b) is an equivalence on the nodes.                         *)

LEMMA EndsAreNodes ==
  ASSUME PairsOK, NEW i \in Idx
  PROVE  pairs[i][1] \in Nodes /\ pairs[i][2] \in Nodes
BY DEF PairsOK, Idx

LEMMA JoinedReflexive ==
  ASSUME NEW I, NEW a
  PROVE  Joined(I, a, a)
BY DEF Joined

LEMMA JoinedSymmetric ==
  ASSUME PairsOK, NEW I \in SUBSET Idx, NEW a \in Nodes, NEW b \in Nodes, Joined(I, a, b)
  PROVE  Joined(I, b, a)
<1> SUFFICES ASSUME NEW C \in SUBSET Nodes, b \in C, Closed(C, I), a \notin C
             PROVE  FALSE
  BY DEF Joined
<1> DEFINE D == Nodes \ C
<1>1. Closed(D, I)
  BY EndsAreNodes DEF Closed
<1>2. a \in D /\ b \notin D /\ D \in SUBSET Nodes
  OBVIOUS
<1> QED BY <1>1, <1>2 DEF Joined

LEMMA JoinedTransitive ==
  ASSUME NEW I, NEW a, NEW b, NEW c, Joined(I, a, b), Joined(I, b, c)
  PROVE  Joined(I, a, c)
BY DEF Joined

\* Fewer links join fewer nodes; links that are themselves joined add nothing.
LEMMA JoinedMonotone ==
  ASSUME NEW I, NEW K,
         \A i \in I : Joined(K, pairs[i][1], pairs[i][2])
                      /\ Joined(K, pairs[i][2], pairs[i][1]),
         NEW a, NEW b, Joined(I, a, b)
  PROVE  Joined(K, a, b)
<1> SUFFICES ASSUME NEW C \in SUBSET Nodes, a \in C, Closed(C, K)
             PROVE  b \in C
  BY DEF Joined
<1>1. Closed(C, I)
  BY DEF Closed, Joined
<1> QED BY <1>1 DEF Joined

LEMMA JoinedByLink ==
  ASSUME NEW I, NEW i \in I
  PROVE  Joined(I, pairs[i][1], pairs[i][2]) /\ Joined(I, pairs[i][2], pairs[i][1])
BY DEF Joined, Closed

LEMMA JoinedSubset ==
  ASSUME NEW I, NEW K, I \subseteq K, NEW a, NEW b, Joined(I, a, b)
  PROVE  Joined(K, a, b)
BY DEF Joined, Closed

\* A path of the links I and e uses e or not.
LEMMA JoinedOneMore ==
  ASSUME PairsOK, NEW I \in SUBSET Idx, NEW e \in Idx, NEW a \in Nodes, NEW b \in Nodes,
         Joined(I \cup {e}, a, b)
  PROVE  \/ Joined(I, a, b)
         \/ Joined(I, a, pairs[e][1]) /\ Joined(I, pairs[e][2], b)
         \/ Joined(I, a, pairs[e][2]) /\ Joined(I, pairs[e][1], b)
<1> DEFINE Component(x) == {y \in Nodes : Joined(I, x, y)}
           p == pairs[e][1]
           q == pairs[e][2]
<1>1. p \in Nodes /\ q \in Nodes
  BY EndsAreNodes
<1>2. \A x \in Nodes : x \in Component(x) /\ Component(x) \in SUBSET Nodes
                       /\ Closed(Component(x), I)
  <2> SUFFICES ASSUME NEW x \in Nodes, NEW i \in I
               PROVE  pairs[i][1] \in Component(x) <=> pairs[i][2] \in Component(x)
    BY JoinedReflexive DEF Closed
  <2>1. Joined(I, pairs[i][1], pairs[i][2]) /\ Joined(I, pairs[i][2], pairs[i][1])
    BY JoinedByLink
  <2>2. pairs[i][1] \in Nodes /\ pairs[i][2] \in Nodes
    BY EndsAreNodes
  <2> QED BY <2>1, <2>2, JoinedTransitive
<1>3. CASE p \in Component(a) <=> q \in Component(a)
  <2>1. Closed(Component(a), I \cup {e})
    BY <1>2, <1>3 DEF Closed
  <2> QED BY <2>1, <1>2 DEF Joined
<1>4. CASE p \in Component(a) /\ q \notin Component(a)
  <2> DEFINE D == Component(a) \cup Component(q)
  <2>1. Closed(D, I \cup {e})
    BY <1>1, <1>2, <1>4 DEF Closed
  <2>2. D \in SUBSET Nodes /\ a \in D
    BY <1>1, <1>2
  <2>3. b \in D
    <3> HIDE DEF D
    <3> QED BY <2>1, <2>2 DEF Joined
  <2> QED BY <2>3, <1>4
<1>5. CASE p \notin Component(a) /\ q \in Component(a)
  <2> DEFINE D == Component(a) \cup Component(p)
  <2>1. Closed(D, I \cup {e})
    BY <1>1, <1>2, <1>5 DEF Closed
  <2>2. D \in SUBSET Nodes /\ a \in D
    BY <1>1, <1>2
  <2>3. b \in D
    <3> HIDE DEF D
    <3> QED BY <2>1, <2>2 DEF Joined
  <2> QED BY <2>3, <1>5
<1> QED BY <1>3, <1>4, <1>5

\* Undoing links, some of them into separations, decides no new pair.
LEMMA StaysUndecided ==
  ASSUME PairsOK, NEW I \in SUBSET Idx, NEW A \in SUBSET Idx,
         NEW K \in SUBSET Idx, NEW B \in SUBSET Idx, NEW i \in Idx,
         K \subseteq I, B \subseteq A \cup I, ~Decided(I, A, i)
  PROVE  ~Decided(K, B, i)
<1>1. ~Joined(K, pairs[i][1], pairs[i][2])
  BY JoinedSubset DEF Decided
<1>2. SUFFICES ASSUME Separated(K, B, i) PROVE FALSE
  BY <1>1 DEF Decided
<1>3. PICK p \in B :
        \/ Joined(K, pairs[p][1], pairs[i][1]) /\ Joined(K, pairs[p][2], pairs[i][2])
        \/ Joined(K, pairs[p][1], pairs[i][2]) /\ Joined(K, pairs[p][2], pairs[i][1])
  BY <1>2 DEF Separated
<1>4. \/ Joined(I, pairs[p][1], pairs[i][1]) /\ Joined(I, pairs[p][2], pairs[i][2])
      \/ Joined(I, pairs[p][1], pairs[i][2]) /\ Joined(I, pairs[p][2], pairs[i][1])
  BY <1>3, JoinedSubset
<1>5. p \in I
  BY <1>4 DEF Decided, Separated
<1>6. /\ Joined(I, pairs[p][1], pairs[p][2]) /\ Joined(I, pairs[p][2], pairs[p][1])
      /\ pairs[p][1] \in Nodes /\ pairs[p][2] \in Nodes
      /\ pairs[i][1] \in Nodes /\ pairs[i][2] \in Nodes
  BY <1>5, JoinedByLink, EndsAreNodes
<1>7. Joined(I, pairs[i][1], pairs[i][2])
  BY <1>4, <1>6, JoinedSymmetric, JoinedTransitive
<1> QED BY <1>7 DEF Decided

-----------------------------------------------------------------------------
(* The inductive invariant.                                                *)

\* A pair has at most one of an answer, a deduction and a missing answer.
OneOutcome ==
  \A i \in Idx :
    /\ i \in questions => Open(i, deduced)
    /\ i \in unanswered => asked[i] = "open" /\ deduced[i] = "open"
    /\ asked[i] = "open" \/ deduced[i] = "open"

\* What was asked stays undecided even if every open pair before it joins.
AskedStaysUndecided ==
  \A i \in Idx :
    asked[i] # "open" \/ i \in unanswered \/ i \in questions =>
      ~Decided(Assumed(i, deduced), Apart(i, deduced), i)

IInv == TypeOK /\ OneOutcome /\ AskedStaysUndecided

(* TypeOK holds of every reachable state.                                  *)
LEMMA TypeInit == Init => TypeOK
<1> SUFFICES ASSUME Init PROVE TypeOK
  OBVIOUS
<1>1. pairs \in Seq(Nodes \X Nodes)
  BY PairListsAssumption DEF Init
<1> QED BY <1>1 DEF Init, TypeOK, Answers

LEMMA TypeNext == TypeOK /\ [Next]_vars => TypeOK'
<1> SUFFICES ASSUME TypeOK, [Next]_vars PROVE TypeOK'
  OBVIOUS
<1>1. CASE NextRound
  <2>1. Deductions \in [Idx -> Answers \cup {"open"}]
    BY DEF TypeOK, Deductions, Answers
  <2>2. Questions(deduced') \in SUBSET Idx
    BY DEF Questions
  <2>3. Idx' = Idx
    BY <1>1 DEF NextRound, Idx
  <2> QED BY <1>1, <2>1, <2>2, <2>3 DEF TypeOK, NextRound
<1>2. ASSUME NEW i \in Idx, NEW a \in Answers, RecordAnswer(i, a)
      PROVE  TypeOK'
  BY <1>2 DEF RecordAnswer, TypeOK, Idx
<1>3. ASSUME NEW i \in Idx, RecordNoAnswer(i)
      PROVE  TypeOK'
  BY <1>3 DEF RecordNoAnswer, TypeOK, Idx
<1>4. CASE UNCHANGED vars
  BY <1>4 DEF vars, TypeOK, Idx
<1> QED BY <1>1, <1>2, <1>3, <1>4 DEF Next, Finished

(* Every variable keeps its type, for every list of pairs.                 *)
THEOREM TypeCorrect == Spec => []TypeOK
BY TypeInit, TypeNext, PTL DEF Spec

-----------------------------------------------------------------------------
LEMMA OneOutcomeNext == TypeOK /\ OneOutcome /\ [Next]_vars => OneOutcome'
<1> SUFFICES ASSUME TypeOK, OneOutcome, [Next]_vars PROVE OneOutcome'
  OBVIOUS
<1>1. CASE NextRound
  <2> SUFFICES ASSUME NEW i \in Idx
               PROVE  /\ i \in questions' => Open(i, deduced)'
                      /\ i \in unanswered' => asked'[i] = "open" /\ deduced'[i] = "open"
                      /\ asked'[i] = "open" \/ deduced'[i] = "open"
    BY <1>1 DEF NextRound, OneOutcome, Idx
  <2>1. deduced'[i] # deduced[i] => Open(i, deduced)
    BY <1>1 DEF NextRound, Deductions
  <2>2. i \in questions' => Open(i, deduced)'
    BY <1>1 DEF NextRound, Questions, Open, Answer
  <2> QED BY <1>1, <2>1, <2>2 DEF NextRound, OneOutcome, Open, Answer
<1>2. ASSUME NEW i \in Idx, NEW a \in Answers, RecordAnswer(i, a)
      PROVE  OneOutcome'
  BY <1>2 DEF RecordAnswer, IsNextQuestion, OneOutcome, Open, Answer, TypeOK, Idx
<1>3. ASSUME NEW i \in Idx, RecordNoAnswer(i)
      PROVE  OneOutcome'
  BY <1>3 DEF RecordNoAnswer, IsNextQuestion, OneOutcome, Open, Answer, TypeOK, Idx
<1>4. CASE UNCHANGED vars
  BY <1>4 DEF vars, OneOutcome, Open, Answer, Idx
<1> QED BY <1>1, <1>2, <1>3, <1>4 DEF Next, Finished

LEMMA AssumedAreIndices ==
  ASSUME PairsOK, NEW i \in Idx, NEW d
  PROVE  Assumed(i, d) \in SUBSET Idx /\ Apart(i, d) \in SUBSET Idx
BY DEF Assumed, Apart, Idx, PairsOK

\* A step that only closes open pairs keeps a pair undecided.
LEMMA StepKeepsUndecided ==
  ASSUME TypeOK, pairs' = pairs, NEW i \in Idx,
         Assumed(i, deduced)' \subseteq Assumed(i, deduced),
         Apart(i, deduced)' \subseteq Apart(i, deduced) \cup Assumed(i, deduced),
         ~Decided(Assumed(i, deduced), Apart(i, deduced), i)
  PROVE  ~Decided(Assumed(i, deduced), Apart(i, deduced), i)'
<1> DEFINE K == Assumed(i, deduced)'
           B == Apart(i, deduced)'
<1>1. PairsOK
  BY DEF PairsOK, TypeOK
<1>2. K \in SUBSET Idx /\ B \in SUBSET Idx
  BY <1>1, AssumedAreIndices
<1>3. ~Decided(K, B, i)
  <2> HIDE DEF K, B
  <2>1. K \subseteq Assumed(i, deduced) /\ B \subseteq Apart(i, deduced) \cup Assumed(i, deduced)
    BY DEF K, B
  <2> QED BY <1>1, <1>2, <2>1, AssumedAreIndices, StaysUndecided
<1> QED BY <1>3 DEF Decided, Separated, Joined, Closed

LEMMA AskedStaysUndecidedNext == IInv /\ [Next]_vars => AskedStaysUndecided'
<1> SUFFICES ASSUME IInv, [Next]_vars PROVE AskedStaysUndecided'
  OBVIOUS
<1> USE DEF IInv
<1>0. pairs' = pairs /\ Idx' = Idx
  BY DEF Next, NextRound, RecordAnswer, RecordNoAnswer, Finished, vars, Idx
<1>1. CASE NextRound
  <2>1. \A i \in Idx : deduced'[i] # deduced[i] => Open(i, deduced)
    BY <1>1 DEF NextRound, Deductions
  <2> SUFFICES ASSUME NEW i \in Idx,
                      asked[i] # "open" \/ i \in unanswered \/ i \in questions'
               PROVE  ~Decided(Assumed(i, deduced), Apart(i, deduced), i)'
    BY <1>0, <1>1 DEF NextRound, AskedStaysUndecided
  <2>2. CASE asked[i] # "open" \/ i \in unanswered
    <3>1. ~Decided(Assumed(i, deduced), Apart(i, deduced), i)
      BY <2>2 DEF AskedStaysUndecided
    <3>2. \A j \in 1..(i - 1) : j \in Idx
      BY DEF TypeOK, Idx
    <3>3. Assumed(i, deduced)' \subseteq Assumed(i, deduced)
      BY <1>1, <2>1, <3>2 DEF NextRound, Assumed, Open, Answer
    <3>4. Apart(i, deduced)' \subseteq Apart(i, deduced) \cup Assumed(i, deduced)
      BY <1>1, <2>1, <3>2 DEF NextRound, Apart, Assumed, Open, Answer
    <3> QED BY <1>0, <3>1, <3>3, <3>4, StepKeepsUndecided
  <2>3. CASE i \in questions'
    <3>1. ~Decided(Assumed(i, deduced'), Apart(i, deduced'), i)
      BY <1>1, <2>3 DEF NextRound, Questions
    <3>2. Assumed(i, deduced)' = Assumed(i, deduced') /\ Apart(i, deduced)' = Apart(i, deduced')
      BY <1>1 DEF NextRound, Assumed, Apart, Answer
    <3> QED BY <1>0, <3>1, <3>2 DEF Decided, Separated, Joined, Closed
  <2> QED BY <2>2, <2>3
<1>2. ASSUME NEW k \in Idx, \/ \E a \in Answers : RecordAnswer(k, a)
                            \/ RecordNoAnswer(k)
      PROVE  AskedStaysUndecided'
  <2> SUFFICES ASSUME NEW i \in Idx,
                      asked'[i] # "open" \/ i \in unanswered' \/ i \in questions'
               PROVE  ~Decided(Assumed(i, deduced), Apart(i, deduced), i)'
    BY <1>0 DEF AskedStaysUndecided
  <2>1. k \in questions /\ Open(k, deduced)
    BY <1>2 DEF RecordAnswer, RecordNoAnswer, IsNextQuestion, OneOutcome
  <2>2. asked[i] # "open" \/ i \in unanswered \/ i \in questions
    BY <1>2, <2>1 DEF RecordAnswer, RecordNoAnswer, TypeOK
  <2>3. ~Decided(Assumed(i, deduced), Apart(i, deduced), i)
    BY <2>2 DEF AskedStaysUndecided
  <2>4. \A j \in 1..(i - 1) : j \in Idx
    BY DEF TypeOK, Idx
  <2>5. /\ deduced' = deduced /\ unanswered \subseteq unanswered'
        /\ \A j \in Idx : asked'[j] = asked[j] \/ j = k
    BY <1>2 DEF RecordAnswer, RecordNoAnswer, TypeOK
  <2>6. Assumed(i, deduced)' \subseteq Assumed(i, deduced)
    BY <2>1, <2>4, <2>5 DEF Assumed, Open, Answer
  <2>7. Apart(i, deduced)' \subseteq Apart(i, deduced) \cup Assumed(i, deduced)
    BY <2>1, <2>4, <2>5 DEF Apart, Assumed, Open, Answer
  <2> QED BY <1>0, <2>3, <2>6, <2>7, StepKeepsUndecided
<1>3. CASE UNCHANGED vars
  <2> SUFFICES ASSUME NEW i \in Idx, asked[i] # "open" \/ i \in unanswered \/ i \in questions
               PROVE  ~Decided(Assumed(i, deduced), Apart(i, deduced), i)'
    BY <1>0, <1>3 DEF vars, AskedStaysUndecided
  <2>1. /\ Assumed(i, deduced)' = Assumed(i, deduced)
        /\ Apart(i, deduced)' = Apart(i, deduced)
    BY <1>3 DEF vars, Assumed, Apart, Answer
  <2> QED BY <1>0, <2>1, StepKeepsUndecided DEF AskedStaysUndecided
<1> QED BY <1>1, <1>2, <1>3 DEF Next, Finished

LEMMA IInvInit == Init => IInv
BY TypeInit DEF Init, IInv, OneOutcome, AskedStaysUndecided

(* The inductive invariant holds of every reachable state: a question of   *)
(* next_round stays undecided by the pairs before it from the moment it is *)
(* asked until the rounds end.                                             *)
THEOREM Invariance == Spec => []IInv
<1>1. IInv /\ [Next]_vars => IInv'
  BY TypeNext, OneOutcomeNext, AskedStaysUndecidedNext DEF IInv
<1> QED BY <1>1, IInvInit, PTL DEF Spec

-----------------------------------------------------------------------------
(* What the invariant says of the answers.                                 *)

LEMMA AskedSets ==
  ASSUME IInv
  PROVE  /\ PairsOK /\ Len(pairs) \in Nat
         /\ Asked("same") \in SUBSET Idx /\ Asked("different") \in SUBSET Idx
         /\ \A i \in Idx : /\ Before(i, Asked("same")) \subseteq Assumed(i, deduced)
                           /\ Before(i, Asked("different")) \subseteq Apart(i, deduced)
BY DEF IInv, TypeOK, PairsOK, OneOutcome, Asked, Before, Assumed, Apart, Answer, Idx

\* A smallest element of a nonempty set of naturals.
LEMMA Smallest ==
  ASSUME NEW T \in SUBSET Nat, T # {}
  PROVE  \E n \in T : \A m \in T : n <= m
<1>1. PICK n \in T : \A m \in T : ~(<<m, n>> \in OpToRel(<, Nat))
  BY WFMin, NatLessThanWellFounded
<1>2. \A m \in T : ~(m < n)
  BY <1>1 DEF OpToRel
<1> QED BY <1>2

\* The "same" answers on the first n - 1 pairs.
SameBelow(n) == Before(n, Asked("same"))

LEMMA NoContradictionFromInvariant == IInv => NoContradiction
<1> SUFFICES ASSUME IInv, NEW i \in Asked("different"),
                    Joined(Asked("same"), pairs[i][1], pairs[i][2])
             PROVE  FALSE
  BY DEF NoContradiction
<1> DEFINE Bad == {n \in Nat : \E j \in Asked("different") :
                                  j < n /\ Joined(SameBelow(n), pairs[j][1], pairs[j][2])}
<1>1. Len(pairs) + 1 \in Bad
  <2>1. SameBelow(Len(pairs) + 1) = Asked("same")
    BY AskedSets DEF SameBelow, Before, Idx
  <2> QED BY <2>1, AskedSets DEF Idx
<1>2. PICK n \in Bad : \A m \in Bad : n <= m
  BY <1>1, Smallest
<1>3. PICK j \in Asked("different") : j < n /\ Joined(SameBelow(n), pairs[j][1], pairs[j][2])
  BY <1>2
<1> DEFINE k == n - 1
<1>4. k \in Idx \/ k > Len(pairs)
  BY <1>2, <1>3, AskedSets DEF Idx
<1>5. k \in Nat /\ j <= k /\ k \notin Bad /\ j \in Idx
  BY <1>2, <1>3, AskedSets DEF Idx
<1>6. pairs[j][1] \in Nodes /\ pairs[j][2] \in Nodes
  BY <1>5, AskedSets, EndsAreNodes
<1>7. CASE k \notin Asked("same")
  <2>1. SameBelow(n) = SameBelow(k)
    BY <1>2, <1>7, AskedSets DEF SameBelow, Before, Idx
  <2>2. j = k
    <3>1. Joined(SameBelow(k), pairs[j][1], pairs[j][2])
      BY <1>3, <2>1
    <3>2. ~(j < k)
      BY <1>5, <3>1
    <3> QED BY <1>5, <3>2, j \in Nat, k \in Nat DEF Idx
  <2>3. Joined(Assumed(j, deduced), pairs[j][1], pairs[j][2])
    BY <1>3, <1>5, <2>1, <2>2, AskedSets, JoinedSubset DEF SameBelow
  <2>4. ~Decided(Assumed(j, deduced), Apart(j, deduced), j)
    BY <1>5 DEF IInv, AskedStaysUndecided, Asked
  <2> QED BY <2>3, <2>4 DEF Decided
<1>8. CASE k \in Asked("same")
  <2>1. k \in Idx /\ j < k /\ SameBelow(n) = SameBelow(k) \cup {k}
    BY <1>2, <1>5, <1>8, AskedSets DEF SameBelow, Before, Asked, Idx
  <2>2. SameBelow(k) \in SUBSET Idx /\ ~Joined(SameBelow(k), pairs[j][1], pairs[j][2])
    BY <1>5, <2>1, AskedSets DEF SameBelow, Before
  <2>3. \/ /\ Joined(SameBelow(k), pairs[j][1], pairs[k][1])
           /\ Joined(SameBelow(k), pairs[k][2], pairs[j][2])
        \/ /\ Joined(SameBelow(k), pairs[j][1], pairs[k][2])
           /\ Joined(SameBelow(k), pairs[k][1], pairs[j][2])
    BY <1>3, <1>6, <2>1, <2>2, AskedSets, JoinedOneMore
  <2>4. pairs[k][1] \in Nodes /\ pairs[k][2] \in Nodes
    BY <2>1, AskedSets, EndsAreNodes
  <2>5. Separated(SameBelow(k), Before(k, Asked("different")), k)
    <3>1. j \in Before(k, Asked("different"))
      BY <2>1 DEF Before
    <3>2. \/ /\ Joined(SameBelow(k), pairs[j][1], pairs[k][1])
             /\ Joined(SameBelow(k), pairs[j][2], pairs[k][2])
          \/ /\ Joined(SameBelow(k), pairs[j][1], pairs[k][2])
             /\ Joined(SameBelow(k), pairs[j][2], pairs[k][1])
      BY <1>6, <2>2, <2>3, <2>4, AskedSets, JoinedSymmetric
    <3> QED BY <3>1, <3>2 DEF Separated
  <2>6. ~Decided(Assumed(k, deduced), Apart(k, deduced), k)
    BY <1>8, <2>1 DEF IInv, AskedStaysUndecided, Asked
  <2>7. ~Decided(SameBelow(k), Before(k, Asked("different")), k)
    <3>1. /\ SameBelow(k) \subseteq Assumed(k, deduced)
          /\ Before(k, Asked("different")) \subseteq Apart(k, deduced)
          /\ Before(k, Asked("different")) \in SUBSET Idx
      BY <2>1, AskedSets DEF SameBelow, Before
    <3> QED BY <2>1, <2>2, <2>6, <3>1, AskedSets, AssumedAreIndices, StaysUndecided
  <2> QED BY <2>5, <2>7 DEF Decided
<1> QED BY <1>7, <1>8

LEMMA AskedOnlyWhenOpenFromInvariant == IInv => AskedOnlyWhenOpen
<1> SUFFICES ASSUME IInv,
                    NEW i \in Asked("same") \cup Asked("different") \cup unanswered \cup questions
             PROVE  ~Decided(Before(i, Asked("same")), Before(i, Asked("different")), i)
  BY DEF AskedOnlyWhenOpen
<1>1. i \in Idx /\ ~Decided(Assumed(i, deduced), Apart(i, deduced), i)
  BY DEF IInv, TypeOK, AskedStaysUndecided, Asked
<1>2. /\ Before(i, Asked("same")) \in SUBSET Idx
      /\ Before(i, Asked("different")) \in SUBSET Idx
      /\ Before(i, Asked("same")) \subseteq Assumed(i, deduced)
      /\ Before(i, Asked("different")) \subseteq Apart(i, deduced)
  BY <1>1, AskedSets DEF Before
<1> QED BY <1>1, <1>2, AskedSets, AssumedAreIndices, StaysUndecided

(* No "different" answer ever falls inside a cluster of "same" answers:    *)
(* whatever the verifier answers, the answers asked contradict nothing.    *)
THEOREM NeverContradicts == Spec => []NoContradiction
BY Invariance, NoContradictionFromInvariant, PTL

(* The verifier is never asked a pair that its answers on the pairs before *)
(* it decide.                                                              *)
THEOREM AsksOnlyOpenPairs == Spec => []AskedOnlyWhenOpen
BY Invariance, AskedOnlyWhenOpenFromInvariant, PTL

-----------------------------------------------------------------------------
(* What a step may not do.                                                 *)

LEMMA StepKeepsAnswers ==
  ASSUME IInv, [Next]_vars, NEW i \in Idx
  PROVE  /\ Answer(i, deduced) # "open" => Answer(i, deduced)' = Answer(i, deduced)
         /\ i \in unanswered => i \notin questions' /\ deduced'[i] = "open"
<1> USE DEF IInv
<1>1. CASE NextRound
  <2>1. deduced'[i] = deduced[i] \/ Open(i, deduced)
    BY <1>1 DEF NextRound, Deductions
  <2>2. i \in questions' => Open(i, deduced')
    BY <1>1 DEF NextRound, Questions
  <2>3. asked' = asked /\ unanswered' = unanswered
    BY <1>1 DEF NextRound
  <2> QED BY <2>1, <2>2, <2>3 DEF OneOutcome, Open, Answer
<1>2. ASSUME NEW k \in Idx, NEW a \in Answers, RecordAnswer(k, a)
      PROVE  /\ Answer(i, deduced) # "open" => Answer(i, deduced)' = Answer(i, deduced)
             /\ i \in unanswered => i \notin questions' /\ deduced'[i] = "open"
  <2>1. k \in questions /\ Open(k, deduced)
    BY <1>2 DEF RecordAnswer, IsNextQuestion, OneOutcome
  <2>2. deduced' = deduced /\ questions' \subseteq questions /\ (i # k => asked'[i] = asked[i])
    BY <1>2 DEF RecordAnswer, TypeOK
  <2> QED BY <2>1, <2>2 DEF OneOutcome, Open, Answer
<1>3. ASSUME NEW k \in Idx, RecordNoAnswer(k)
      PROVE  /\ Answer(i, deduced) # "open" => Answer(i, deduced)' = Answer(i, deduced)
             /\ i \in unanswered => i \notin questions' /\ deduced'[i] = "open"
  BY <1>3 DEF RecordNoAnswer, OneOutcome, Open, Answer
<1>4. CASE UNCHANGED vars
  BY <1>4 DEF vars, OneOutcome, Open, Answer
<1> QED BY <1>1, <1>2, <1>3, <1>4 DEF Next, Finished

(* An answer, asked or deduced, never changes, and a pair the verifier did *)
(* not answer is neither asked again nor deduced in a later round.         *)
THEOREM AnswersStay == Spec => AnswersAreFinal
<1>1. IInv /\ [Next]_vars =>
        [\A i \in Idx :
           /\ Answer(i, deduced) # "open" => Answer(i, deduced)' = Answer(i, deduced)
           /\ i \in unanswered => i \notin questions' /\ deduced'[i] = "open"]_vars
  BY StepKeepsAnswers
<1> QED BY <1>1, Invariance, PTL DEF Spec, AnswersAreFinal

-----------------------------------------------------------------------------
(* The deductions: each follows from answers on earlier pairs and agrees   *)
(* with the clusters, and none is left to make when the rounds are done.   *)
(*                                                                         *)
(* A later answer cannot decide an open pair that the earlier ones leave   *)
(* open: had it closed a path across that pair, it would have been decided *)
(* by assuming the pair, and not been asked.                               *)

DifferentBelow(n) == Before(n, Asked("different"))

\* A pair that was asked is undecided by the answers before it and an open pair i.
LEMMA OpenPairAssumed ==
  ASSUME IInv, NEW k \in Idx, asked[k] # "open", NEW i \in Idx, i < k, Open(i, deduced)
  PROVE  ~Decided(SameBelow(k) \cup {i}, DifferentBelow(k), k)
<1>1. i \in Assumed(k, deduced)
  BY DEF Open, Assumed, Idx
<1>2. ~Decided(Assumed(k, deduced), Apart(k, deduced), k)
  BY DEF IInv, AskedStaysUndecided
<1>3. /\ SameBelow(k) \cup {i} \subseteq Assumed(k, deduced)
      /\ DifferentBelow(k) \subseteq Apart(k, deduced)
      /\ DifferentBelow(k) \in SUBSET Idx
  BY <1>1, AskedSets DEF SameBelow, DifferentBelow, Before
<1> QED BY <1>2, <1>3, AskedSets, AssumedAreIndices, StaysUndecided

\* The answers below k + 1 are those below k and the one on k.
LEMMA BelowNext ==
  ASSUME IInv, NEW k \in Nat
  PROVE  /\ k \in Asked("same") => /\ SameBelow(k + 1) = SameBelow(k) \cup {k}
                                   /\ DifferentBelow(k + 1) = DifferentBelow(k)
         /\ k \in Asked("different") => /\ SameBelow(k + 1) = SameBelow(k)
                                        /\ DifferentBelow(k + 1) = DifferentBelow(k) \cup {k}
         /\ k \notin Asked("same") \cup Asked("different") =>
              /\ SameBelow(k + 1) = SameBelow(k)
              /\ DifferentBelow(k + 1) = DifferentBelow(k)
<1>1. \A j \in Idx : j < k + 1 <=> j < k \/ j = k
  BY AskedSets DEF Idx
<1>2. Asked("same") \cap Asked("different") = {}
  BY DEF Asked
<1> QED BY <1>1, <1>2, AskedSets DEF SameBelow, DifferentBelow, Before

LEMMA BelowAll ==
  ASSUME IInv
  PROVE  /\ SameBelow(Len(pairs) + 1) = Asked("same")
         /\ DifferentBelow(Len(pairs) + 1) = Asked("different")
BY AskedSets DEF SameBelow, DifferentBelow, Before, Idx

LEMMA BelowAreIndices ==
  ASSUME IInv, NEW n
  PROVE  /\ SameBelow(n) \in SUBSET Idx /\ DifferentBelow(n) \in SUBSET Idx
         /\ SameBelow(n) \subseteq Asked("same")
         /\ DifferentBelow(n) \subseteq Asked("different")
BY AskedSets DEF SameBelow, DifferentBelow, Before

-----------------------------------------------------------------------------
(* An open pair that the answers join is joined by those before it.        *)

LEMMA JoinedByEarlier ==
  ASSUME IInv, NEW i \in Idx, Open(i, deduced),
         Joined(Asked("same"), pairs[i][1], pairs[i][2])
  PROVE  Joined(SameBelow(i), pairs[i][1], pairs[i][2])
<1> DEFINE Late == {n \in Nat : i <= n /\ Joined(SameBelow(n), pairs[i][1], pairs[i][2])}
<1>1. Len(pairs) + 1 \in Late
  BY BelowAll, AskedSets DEF Idx
<1>2. PICK n \in Late : \A m \in Late : n <= m
  BY <1>1, Smallest
<1>3. CASE n = i
  BY <1>2, <1>3
<1>4. CASE n # i
  <2> DEFINE k == n - 1
  <2>1. k \in Nat /\ i <= k /\ n = k + 1 /\ ~Joined(SameBelow(k), pairs[i][1], pairs[i][2])
    <3>1. k \in Nat /\ i <= k /\ n = k + 1
      BY <1>2, <1>4, AskedSets DEF Idx
    <3>2. k \notin Late
      BY <1>2, <3>1
    <3> QED BY <3>1, <3>2
  <2> HIDE DEF k
  <2>2. k \in Asked("same")
    BY <1>2, <2>1, BelowNext
  <2>3. k \in Idx /\ asked[k] # "open" /\ i < k
    BY <2>1, <2>2, AskedSets DEF Asked, Open, Answer, Idx
  <2>4. Joined(SameBelow(k) \cup {k}, pairs[i][1], pairs[i][2])
    BY <1>2, <2>1, <2>2, BelowNext
  <2>5. /\ pairs[i][1] \in Nodes /\ pairs[i][2] \in Nodes
        /\ pairs[k][1] \in Nodes /\ pairs[k][2] \in Nodes
    BY <2>3, AskedSets, EndsAreNodes
  <2>6. \/ /\ Joined(SameBelow(k), pairs[i][1], pairs[k][1])
           /\ Joined(SameBelow(k), pairs[k][2], pairs[i][2])
        \/ /\ Joined(SameBelow(k), pairs[i][1], pairs[k][2])
           /\ Joined(SameBelow(k), pairs[k][1], pairs[i][2])
    BY <2>1, <2>3, <2>4, <2>5, AskedSets, BelowAreIndices, JoinedOneMore
  <2> DEFINE L == SameBelow(k) \cup {i}
  <2>7. L \in SUBSET Idx /\ Joined(L, pairs[i][1], pairs[i][2]) /\ Joined(L, pairs[i][2], pairs[i][1])
    BY BelowAreIndices, JoinedByLink
  <2>8. \/ Joined(L, pairs[i][1], pairs[k][1]) /\ Joined(L, pairs[k][2], pairs[i][2])
        \/ Joined(L, pairs[i][1], pairs[k][2]) /\ Joined(L, pairs[k][1], pairs[i][2])
    BY <2>6, JoinedSubset
  <2>9. Joined(L, pairs[k][1], pairs[k][2])
    <3> HIDE DEF L
    <3> QED BY <2>5, <2>7, <2>8, AskedSets, JoinedSymmetric, JoinedTransitive
  <2> QED BY <2>3, <2>9, OpenPairAssumed DEF Decided
<1> QED BY <1>3, <1>4

-----------------------------------------------------------------------------
(* An open pair that the answers separate is separated by those before it. *)

\* Paths from a to x and from b to y that may each use a link between c and d, where
\* the links L join x and y besides.
LEMMA TwoPaths ==
  ASSUME PairsOK, NEW L \in SUBSET Idx, NEW S \in SUBSET L,
         NEW a \in Nodes, NEW b \in Nodes, NEW c \in Nodes, NEW d \in Nodes,
         NEW x \in Nodes, NEW y \in Nodes, Joined(L, x, y),
         \/ Joined(S, a, x)
         \/ Joined(S, a, c) /\ Joined(S, d, x)
         \/ Joined(S, a, d) /\ Joined(S, c, x),
         \/ Joined(S, b, y)
         \/ Joined(S, b, c) /\ Joined(S, d, y)
         \/ Joined(S, b, d) /\ Joined(S, c, y)
  PROVE  \/ Joined(S, a, x) /\ Joined(S, b, y)
         \/ Joined(S, a, y) /\ Joined(S, b, x)
         \/ Joined(S, a, b)
         \/ Joined(L, a, c) /\ Joined(L, b, d)
         \/ Joined(L, a, d) /\ Joined(L, b, c)
<1>1. \A u \in Nodes, v \in Nodes : Joined(S, u, v) => Joined(L, u, v)
  BY JoinedSubset
<1>2. \A u \in Nodes, v \in Nodes : Joined(S, u, v) => Joined(S, v, u)
  BY JoinedSymmetric
<1>3. Joined(L, y, x)
  BY JoinedSymmetric
<1>4. \A u \in Nodes, v \in Nodes, w \in Nodes : Joined(S, u, v) /\ Joined(S, v, w) => Joined(S, u, w)
  BY JoinedTransitive
<1>5. \A u \in Nodes, v \in Nodes, w \in Nodes : Joined(L, u, v) /\ Joined(L, v, w) => Joined(L, u, w)
  BY JoinedTransitive
<1>6. CASE Joined(S, a, x) /\ Joined(S, b, c) /\ Joined(S, d, y)
  <2>1. Joined(L, a, x) /\ Joined(L, b, c) /\ Joined(L, y, d)
    BY <1>1, <1>2, <1>6
  <2>2. Joined(L, a, y)
    BY <1>5, <2>1
  <2> QED BY <1>5, <2>1, <2>2
<1>7. CASE Joined(S, a, x) /\ Joined(S, b, d) /\ Joined(S, c, y)
  <2>1. Joined(L, a, x) /\ Joined(L, b, d) /\ Joined(L, y, c)
    BY <1>1, <1>2, <1>7
  <2>2. Joined(L, a, y)
    BY <1>5, <2>1
  <2> QED BY <1>5, <2>1, <2>2
<1>8. CASE Joined(S, a, c) /\ Joined(S, d, x) /\ Joined(S, b, y)
  <2>1. Joined(L, a, c) /\ Joined(L, b, y) /\ Joined(L, x, d)
    BY <1>1, <1>2, <1>8
  <2>2. Joined(L, b, x)
    BY <1>3, <1>5, <2>1
  <2> QED BY <1>5, <2>1, <2>2
<1>9. CASE Joined(S, a, d) /\ Joined(S, c, x) /\ Joined(S, b, y)
  <2>1. Joined(L, a, d) /\ Joined(L, b, y) /\ Joined(L, x, c)
    BY <1>1, <1>2, <1>9
  <2>2. Joined(L, b, x)
    BY <1>3, <1>5, <2>1
  <2> QED BY <1>5, <2>1, <2>2
<1>10. CASE Joined(S, a, c) /\ Joined(S, b, c)
  BY <1>2, <1>4, <1>10
<1>11. CASE Joined(S, a, d) /\ Joined(S, b, d)
  BY <1>2, <1>4, <1>11
<1>12. CASE Joined(S, a, c) /\ Joined(S, d, x) /\ Joined(S, b, d) /\ Joined(S, c, y)
  BY <1>4, <1>12
<1>13. CASE Joined(S, a, d) /\ Joined(S, c, x) /\ Joined(S, b, c) /\ Joined(S, d, y)
  BY <1>4, <1>13
<1>14. CASE Joined(S, a, x)
  BY <1>6, <1>7, <1>14
<1>15. CASE Joined(S, a, c) /\ Joined(S, d, x)
  BY <1>8, <1>10, <1>12, <1>15
<1>16. CASE Joined(S, a, d) /\ Joined(S, c, x)
  BY <1>9, <1>11, <1>13, <1>16
<1> QED BY <1>14, <1>15, <1>16

\* The step of the next lemma: a separation that needs the answer on k.
LEMMA SeparatedWithoutNext ==
  ASSUME IInv, NEW k \in Nat, NEW i \in Idx, i <= k, Open(i, deduced),
         Separated(SameBelow(k + 1), DifferentBelow(k + 1), i)
  PROVE  Separated(SameBelow(k), DifferentBelow(k), i)
<1> SUFFICES ASSUME ~Separated(SameBelow(k), DifferentBelow(k), i) PROVE FALSE
  OBVIOUS
<1> DEFINE S == SameBelow(k)
           L == S \cup {i}
<1>1. k \in Asked("same") \/ k \in Asked("different")
  BY BelowNext
<1>2. k \in Idx /\ asked[k] # "open" /\ i < k
  BY <1>1, AskedSets DEF Asked, Open, Answer, Idx
<1>3. ~Decided(L, DifferentBelow(k), k)
  BY <1>2, OpenPairAssumed
<1>4. L \in SUBSET Idx /\ S \in SUBSET L /\ PairsOK
  BY BelowAreIndices, AskedSets
<1>5. Joined(L, pairs[i][1], pairs[i][2]) /\ Joined(L, pairs[i][2], pairs[i][1])
  BY JoinedByLink
<1>6. /\ pairs[i][1] \in Nodes /\ pairs[i][2] \in Nodes
      /\ pairs[k][1] \in Nodes /\ pairs[k][2] \in Nodes
  BY <1>2, AskedSets, EndsAreNodes
<1>7. PICK p \in DifferentBelow(k + 1) :
        \/ /\ Joined(SameBelow(k + 1), pairs[p][1], pairs[i][1])
           /\ Joined(SameBelow(k + 1), pairs[p][2], pairs[i][2])
        \/ /\ Joined(SameBelow(k + 1), pairs[p][1], pairs[i][2])
           /\ Joined(SameBelow(k + 1), pairs[p][2], pairs[i][1])
  BY DEF Separated
<1>8. p \in Idx /\ p \in Asked("different") /\ pairs[p][1] \in Nodes /\ pairs[p][2] \in Nodes
  BY BelowAreIndices, AskedSets, EndsAreNodes
<1>9. CASE k \in Asked("different")
  <2>1. SameBelow(k + 1) = S /\ p \in DifferentBelow(k) \cup {k}
    BY <1>9, BelowNext
  <2>2. p = k
    BY <1>7, <2>1 DEF Separated
  <2>3. \/ Joined(S, pairs[k][1], pairs[i][1]) /\ Joined(S, pairs[k][2], pairs[i][2])
        \/ Joined(S, pairs[k][1], pairs[i][2]) /\ Joined(S, pairs[k][2], pairs[i][1])
    BY <1>7, <2>1, <2>2
  <2>4. \/ Joined(S, pairs[k][1], pairs[i][1]) /\ Joined(S, pairs[i][2], pairs[k][2])
        \/ Joined(S, pairs[k][1], pairs[i][2]) /\ Joined(S, pairs[i][1], pairs[k][2])
    BY <1>4, <1>6, <2>3, JoinedSymmetric
  <2>5. \/ Joined(L, pairs[k][1], pairs[i][1]) /\ Joined(L, pairs[i][2], pairs[k][2])
        \/ Joined(L, pairs[k][1], pairs[i][2]) /\ Joined(L, pairs[i][1], pairs[k][2])
    BY <2>4, JoinedSubset
  <2>6. Joined(L, pairs[k][1], pairs[k][2])
    <3> HIDE DEF L
    <3> QED BY <1>5, <2>5, JoinedTransitive
  <2> QED BY <1>3, <2>6 DEF Decided
<1>10. CASE k \in Asked("same")
  <2>1. SameBelow(k + 1) = S \cup {k} /\ p \in DifferentBelow(k)
    BY <1>10, BelowNext
  <2>2. ~Joined(S, pairs[p][1], pairs[p][2])
    BY <1>8, BelowAreIndices, JoinedSubset, NoContradictionFromInvariant DEF NoContradiction
  <2>3. ~(Joined(L, pairs[p][1], pairs[k][1]) /\ Joined(L, pairs[p][2], pairs[k][2]))
        /\ ~(Joined(L, pairs[p][1], pairs[k][2]) /\ Joined(L, pairs[p][2], pairs[k][1]))
    BY <1>3, <2>1 DEF Decided, Separated
  <2>4. ~(Joined(S, pairs[p][1], pairs[i][1]) /\ Joined(S, pairs[p][2], pairs[i][2]))
        /\ ~(Joined(S, pairs[p][1], pairs[i][2]) /\ Joined(S, pairs[p][2], pairs[i][1]))
    BY <2>1 DEF Separated
  <2>5. ASSUME NEW x \in Nodes, NEW y \in Nodes, Joined(L, x, y),
               Joined(S \cup {k}, pairs[p][1], x), Joined(S \cup {k}, pairs[p][2], y),
               ~(Joined(S, pairs[p][1], x) /\ Joined(S, pairs[p][2], y)),
               ~(Joined(S, pairs[p][1], y) /\ Joined(S, pairs[p][2], x))
        PROVE  FALSE
    <3> HIDE DEF L, S
    <3>1. \/ Joined(S, pairs[p][1], x)
          \/ Joined(S, pairs[p][1], pairs[k][1]) /\ Joined(S, pairs[k][2], x)
          \/ Joined(S, pairs[p][1], pairs[k][2]) /\ Joined(S, pairs[k][1], x)
      BY <1>2, <1>4, <1>8, <2>5, JoinedOneMore
    <3>2. \/ Joined(S, pairs[p][2], y)
          \/ Joined(S, pairs[p][2], pairs[k][1]) /\ Joined(S, pairs[k][2], y)
          \/ Joined(S, pairs[p][2], pairs[k][2]) /\ Joined(S, pairs[k][1], y)
      BY <1>2, <1>4, <1>8, <2>5, JoinedOneMore
    <3> QED BY <1>4, <1>6, <1>8, <2>2, <2>3, <2>5, <3>1, <3>2, TwoPaths
  <2>6. CASE Joined(S \cup {k}, pairs[p][1], pairs[i][1]) /\ Joined(S \cup {k}, pairs[p][2], pairs[i][2])
    <3> HIDE DEF L, S
    <3> QED BY <1>5, <1>6, <2>4, <2>5, <2>6
  <2>7. CASE Joined(S \cup {k}, pairs[p][1], pairs[i][2]) /\ Joined(S \cup {k}, pairs[p][2], pairs[i][1])
    <3> HIDE DEF L, S
    <3> QED BY <1>5, <1>6, <2>4, <2>5, <2>7
  <2> QED BY <1>7, <2>1, <2>6, <2>7
<1> QED BY <1>1, <1>9, <1>10

LEMMA SeparatedByEarlier ==
  ASSUME IInv, NEW i \in Idx, Open(i, deduced),
         Separated(Asked("same"), Asked("different"), i)
  PROVE  Separated(SameBelow(i), DifferentBelow(i), i)
<1> DEFINE Late == {n \in Nat : i <= n /\ Separated(SameBelow(n), DifferentBelow(n), i)}
<1>1. Len(pairs) + 1 \in Late
  BY BelowAll, AskedSets DEF Idx
<1>2. PICK n \in Late : \A m \in Late : n <= m
  BY <1>1, Smallest
<1>3. CASE n = i
  BY <1>2, <1>3
<1>4. CASE n # i
  <2> DEFINE k == n - 1
  <2>1. k \in Nat /\ i <= k /\ n = k + 1
    BY <1>2, <1>4, AskedSets DEF Idx
  <2>2. Separated(SameBelow(k + 1), DifferentBelow(k + 1), i)
    BY <1>2, <2>1
  <2>3. Separated(SameBelow(k), DifferentBelow(k), i)
    <3> HIDE DEF k
    <3> QED BY <2>1, <2>2, SeparatedWithoutNext
  <2>4. k \in Late
    BY <2>1, <2>3
  <2> QED BY <1>2, <2>1, <2>4
<1> QED BY <1>3, <1>4

-----------------------------------------------------------------------------
(* Deductions follow from earlier answers.                                 *)

\* More answers decide no less.
LEMMA SeparatedSubset ==
  ASSUME NEW I, NEW J, I \subseteq J, NEW A, NEW B, A \subseteq B, NEW i, Separated(I, A, i)
  PROVE  Separated(J, B, i)
BY JoinedSubset DEF Separated

\* What a deduced answer says of the answers before its pair.
FollowsEarlier(i, d) ==
  /\ d[i] = "same" => Joined(SameBelow(i), pairs[i][1], pairs[i][2])
  /\ d[i] = "different" => Separated(SameBelow(i), DifferentBelow(i), i)

LEMMA FollowsEarlierIsProperty ==
  DeducedFromEarlierAnswers <=> \A i \in Idx : FollowsEarlier(i, deduced)
BY DEF DeducedFromEarlierAnswers, FollowsEarlier, SameBelow, DifferentBelow

LEMMA DeductionsFollowEarlier ==
  ASSUME IInv, NEW i \in Idx, FollowsEarlier(i, deduced)
  PROVE  FollowsEarlier(i, Deductions)
<1>1. CASE ~Open(i, deduced)
  BY <1>1 DEF Deductions, FollowsEarlier
<1>2. CASE Open(i, deduced)
  <2>1. Deductions[i] = "same" => Joined(Asked("same"), pairs[i][1], pairs[i][2])
    BY <1>2 DEF Deductions
  <2>2. Deductions[i] = "different" => Separated(Asked("same"), Asked("different"), i)
    BY <1>2 DEF Deductions
  <2> QED BY <1>2, <2>1, <2>2, JoinedByEarlier, SeparatedByEarlier DEF FollowsEarlier
<1> QED BY <1>1, <1>2

LEMMA DeducedFromEarlierNext ==
  IInv /\ DeducedFromEarlierAnswers /\ [Next]_vars => DeducedFromEarlierAnswers'
<1> SUFFICES ASSUME IInv, DeducedFromEarlierAnswers, [Next]_vars
             PROVE  DeducedFromEarlierAnswers'
  OBVIOUS
<1>1. \A i \in Idx : FollowsEarlier(i, deduced)
  BY FollowsEarlierIsProperty
<1>2. pairs' = pairs /\ Idx' = Idx
  BY DEF Next, NextRound, RecordAnswer, RecordNoAnswer, Finished, vars, Idx
<1>3. CASE NextRound
  <2>1. \A i \in Idx : FollowsEarlier(i, deduced')
    BY <1>1, <1>3, DeductionsFollowEarlier DEF NextRound
  <2>2. asked' = asked
    BY <1>3 DEF NextRound
  <2> QED BY <1>2, <2>1, <2>2 DEF FollowsEarlier, DeducedFromEarlierAnswers, SameBelow,
             DifferentBelow, Before, Asked, Joined, Closed, Separated
<1>4. CASE deduced' = deduced /\ \A a \in Answers : Asked(a) \subseteq Asked(a)'
  <2> SUFFICES ASSUME NEW i \in Idx
               PROVE  /\ deduced[i] = "same" =>
                           Joined(Before(i, Asked("same")), pairs[i][1], pairs[i][2])'
                      /\ deduced[i] = "different" =>
                           Separated(Before(i, Asked("same")), Before(i, Asked("different")), i)'
    BY <1>2, <1>4 DEF DeducedFromEarlierAnswers
  <2> DEFINE J == Before(i, Asked("same")')
             B == Before(i, Asked("different")')
  <2>1. SameBelow(i) \subseteq J /\ DifferentBelow(i) \subseteq B
    BY <1>4 DEF SameBelow, DifferentBelow, Before, Answers
  <2>2. /\ deduced[i] = "same" => Joined(J, pairs[i][1], pairs[i][2])
        /\ deduced[i] = "different" => Separated(J, B, i)
    <3> HIDE DEF J, B
    <3> QED BY <1>1, <2>1, JoinedSubset, SeparatedSubset DEF FollowsEarlier
  <2>3. Before(i, Asked("same"))' = J /\ Before(i, Asked("different"))' = B
    BY DEF Before
  <2> QED BY <1>2, <2>2, <2>3 DEF Joined, Closed, Separated
<1>5. ASSUME NEW k \in Idx, NEW a \in Answers, RecordAnswer(k, a)
      PROVE  deduced' = deduced /\ \A b \in Answers : Asked(b) \subseteq Asked(b)'
  <2>1. asked[k] = "open"
    BY <1>5 DEF RecordAnswer, IsNextQuestion, IInv, OneOutcome, Open, Answer
  <2>2. \A j \in Idx : asked'[j] = asked[j] \/ asked[j] = "open"
    BY <1>5, <2>1 DEF RecordAnswer, IInv, TypeOK
  <2> QED BY <1>2, <1>5, <2>2 DEF RecordAnswer, Asked, Answers
<1>6. ASSUME NEW k \in Idx, RecordNoAnswer(k)
      PROVE  deduced' = deduced /\ \A b \in Answers : Asked(b) \subseteq Asked(b)'
  BY <1>2, <1>6 DEF RecordNoAnswer, Asked
<1>7. CASE UNCHANGED vars
  BY <1>2, <1>4, <1>7 DEF vars, Asked
<1> QED BY <1>3, <1>4, <1>5, <1>6, <1>7 DEF Next, Finished

(* A deduced answer follows from answers on the pairs before it alone, for *)
(* every list of pairs: _deduce, which looks at all answers, deduces no    *)
(* more than the more likely pairs say.                                    *)
THEOREM DeducesFromEarlier == Spec => []DeducedFromEarlierAnswers
<1>1. Init => DeducedFromEarlierAnswers
  BY DEF Init, DeducedFromEarlierAnswers
<1> QED BY <1>1, DeducedFromEarlierNext, Invariance, PTL DEF Spec

LEMMA DeductionsMatchFromInvariant ==
  IInv /\ DeducedFromEarlierAnswers => DeductionsMatchClusters
<1> SUFFICES ASSUME IInv, DeducedFromEarlierAnswers, NEW i \in Idx, deduced[i] # "open"
             PROVE  deduced[i] = "same" <=> Joined(Asked("same"), pairs[i][1], pairs[i][2])
  BY DEF DeductionsMatchClusters
<1>1. FollowsEarlier(i, deduced)
  BY FollowsEarlierIsProperty
<1>2. deduced[i] = "same" => Joined(Asked("same"), pairs[i][1], pairs[i][2])
  BY <1>1, BelowAreIndices, JoinedSubset DEF FollowsEarlier
<1>3. ASSUME deduced[i] # "same", Joined(Asked("same"), pairs[i][1], pairs[i][2]) PROVE FALSE
  <2>1. deduced[i] = "different"
    BY <1>3 DEF IInv, TypeOK, Answers
  <2>2. Separated(Asked("same"), Asked("different"), i)
    BY <1>1, <2>1, BelowAreIndices, SeparatedSubset DEF FollowsEarlier
  <2> DEFINE S == Asked("same")
  <2>3. PICK p \in Asked("different") :
          \/ Joined(S, pairs[p][1], pairs[i][1]) /\ Joined(S, pairs[p][2], pairs[i][2])
          \/ Joined(S, pairs[p][1], pairs[i][2]) /\ Joined(S, pairs[p][2], pairs[i][1])
    BY <2>2 DEF Separated
  <2>4. /\ pairs[p][1] \in Nodes /\ pairs[p][2] \in Nodes
        /\ pairs[i][1] \in Nodes /\ pairs[i][2] \in Nodes
        /\ PairsOK /\ S \in SUBSET Idx
    BY AskedSets, EndsAreNodes
  <2>5. Joined(S, pairs[p][1], pairs[p][2])
    <3> HIDE DEF S
    <3>1. Joined(S, pairs[i][1], pairs[i][2]) /\ Joined(S, pairs[i][2], pairs[i][1])
      BY <1>3, <2>4, JoinedSymmetric DEF S
    <3>2. \/ Joined(S, pairs[p][1], pairs[i][1]) /\ Joined(S, pairs[i][2], pairs[p][2])
          \/ Joined(S, pairs[p][1], pairs[i][2]) /\ Joined(S, pairs[i][1], pairs[p][2])
      BY <2>3, <2>4, JoinedSymmetric
    <3> QED BY <3>1, <3>2, JoinedTransitive
  <2> QED BY <2>5, NoContradictionFromInvariant DEF NoContradiction
<1> QED BY <1>2, <1>3

(* Every deduction agrees with the clusters of the answers, those given    *)
(* after it included, for every list of pairs.                             *)
THEOREM DeductionsAgree == Spec => []DeductionsMatchClusters
BY DeducesFromEarlier, Invariance, DeductionsMatchFromInvariant, PTL

-----------------------------------------------------------------------------
(* When the rounds are done, nothing is left open.                         *)

\* The last call of next_round deduced what it could and found no question.
LastRound ==
  done =>
    /\ questions = {} /\ Questions(deduced) = {}
    /\ \A i \in Idx : Open(i, deduced) => ~Decided(Asked("same"), Asked("different"), i)

LEMMA LastRoundNext == IInv /\ LastRound /\ [Next]_vars => LastRound'
<1> SUFFICES ASSUME IInv, LastRound, [Next]_vars, done' PROVE LastRound'
  BY DEF LastRound
<1>1. CASE NextRound
  <2>1. /\ pairs' = pairs /\ asked' = asked /\ unanswered' = unanswered
        /\ deduced' = Deductions /\ questions' = Questions(deduced') /\ questions' = {}
    BY <1>1 DEF NextRound
  <2>2. \A i \in Idx : Open(i, deduced') => ~Decided(Asked("same"), Asked("different"), i)
    BY <2>1 DEF Open, Answer, Deductions, Decided
  <2>3. Questions(deduced)' = Questions(deduced')
    BY <2>1 DEF Questions, Idx, Open, Answer, Assumed, Apart, Decided, Separated, Joined, Closed
  <2>4. \A i \in Idx' : Open(i, deduced)' => ~Decided(Asked("same"), Asked("different"), i)'
    BY <2>1, <2>2 DEF Idx, Open, Answer, Asked, Decided, Separated, Joined, Closed
  <2> QED BY <2>1, <2>3, <2>4 DEF LastRound
<1>2. ASSUME NEW i \in Idx, (\E a \in Answers : RecordAnswer(i, a)) \/ RecordNoAnswer(i)
      PROVE  FALSE
  BY <1>2 DEF RecordAnswer, RecordNoAnswer, IsNextQuestion, LastRound
<1>3. CASE UNCHANGED vars
  <2>1. Questions(deduced)' = Questions(deduced)
    BY <1>3 DEF vars, Questions, Idx, Open, Answer, Assumed, Apart, Decided, Separated, Joined,
                Closed
  <2>2. \A i \in Idx' : Open(i, deduced)' => ~Decided(Asked("same"), Asked("different"), i)'
    BY <1>3 DEF vars, LastRound, Idx, Open, Answer, Asked, Decided, Separated, Joined, Closed
  <2> QED BY <1>3, <2>1, <2>2 DEF vars, LastRound
<1> QED BY <1>1, <1>2, <1>3 DEF Next, Finished

\* Assumptions that are all answered say no more than the answers.
LEMMA AnsweredAssumptions ==
  ASSUME IInv, DeducedFromEarlierAnswers, NEW i \in Idx,
         \A j \in Idx : j < i => ~Open(j, deduced),
         Decided(Assumed(i, deduced), Apart(i, deduced), i)
  PROVE  Decided(Asked("same"), Asked("different"), i)
<1> DEFINE S == Asked("same")
           D == Asked("different")
           I == Assumed(i, deduced)
<1>1. PairsOK /\ S \in SUBSET Idx /\ I \in SUBSET Idx
  BY AskedSets, AssumedAreIndices
<1>2. \A j \in 1..(i - 1) : j \in Idx /\ j < i
  BY AskedSets DEF Idx
<1>3. ASSUME NEW j \in I
      PROVE  Joined(S, pairs[j][1], pairs[j][2]) /\ Joined(S, pairs[j][2], pairs[j][1])
  <2>1. j \in Idx /\ (asked[j] = "same" \/ deduced[j] = "same")
    BY <1>2 DEF Assumed, Open, Answer, IInv, TypeOK, Answers
  <2>2. CASE asked[j] = "same"
    BY <2>1, <2>2, JoinedByLink DEF Asked
  <2>3. CASE deduced[j] = "same"
    <3>1. FollowsEarlier(j, deduced)
      BY <2>1, FollowsEarlierIsProperty
    <3>2. Joined(S, pairs[j][1], pairs[j][2])
      BY <2>3, <3>1, BelowAreIndices, JoinedSubset DEF FollowsEarlier
    <3>3. pairs[j][1] \in Nodes /\ pairs[j][2] \in Nodes
      BY <1>1, <2>1, EndsAreNodes
    <3> HIDE DEF S, I
    <3> QED BY <1>1, <3>2, <3>3, JoinedSymmetric
  <2> QED BY <2>1, <2>2, <2>3
<1>4. \A a, b : Joined(I, a, b) => Joined(S, a, b)
  <2> HIDE DEF S, I
  <2> QED BY <1>3, JoinedMonotone
<1>5. CASE Joined(I, pairs[i][1], pairs[i][2])
  BY <1>4, <1>5 DEF Decided
<1>6. CASE Separated(I, Apart(i, deduced), i)
  <2>1. PICK p \in Apart(i, deduced) :
          \/ Joined(S, pairs[p][1], pairs[i][1]) /\ Joined(S, pairs[p][2], pairs[i][2])
          \/ Joined(S, pairs[p][1], pairs[i][2]) /\ Joined(S, pairs[p][2], pairs[i][1])
    BY <1>4, <1>6 DEF Separated
  <2>2. p \in Idx /\ (asked[p] = "different" \/ deduced[p] = "different")
    BY <1>2 DEF Apart, Answer
  <2>3. CASE asked[p] = "different"
    BY <2>1, <2>2, <2>3 DEF Decided, Separated, Asked
  <2>4. CASE deduced[p] = "different"
    <3>1. FollowsEarlier(p, deduced)
      BY <2>2, FollowsEarlierIsProperty
    <3>2. Separated(S, D, p)
      BY <2>4, <3>1, BelowAreIndices, SeparatedSubset DEF FollowsEarlier
    <3>3. PICK q \in D :
            \/ Joined(S, pairs[q][1], pairs[p][1]) /\ Joined(S, pairs[q][2], pairs[p][2])
            \/ Joined(S, pairs[q][1], pairs[p][2]) /\ Joined(S, pairs[q][2], pairs[p][1])
      BY <3>2 DEF Separated
    <3>4. \/ Joined(S, pairs[q][1], pairs[i][1]) /\ Joined(S, pairs[q][2], pairs[i][2])
          \/ Joined(S, pairs[q][1], pairs[i][2]) /\ Joined(S, pairs[q][2], pairs[i][1])
      <4> HIDE DEF S, D
      <4> QED BY <2>1, <3>3, JoinedTransitive
    <3> QED BY <3>4 DEF Decided, Separated
  <2> QED BY <2>2, <2>3, <2>4
<1> QED BY <1>5, <1>6 DEF Decided

LEMMA NothingLeftOpen ==
  IInv /\ DeducedFromEarlierAnswers /\ LastRound => DoneLeavesNoPairOpen
<1> SUFFICES ASSUME IInv, DeducedFromEarlierAnswers, LastRound, done
             PROVE  DoneLeavesNoPairOpen
  BY DEF DoneLeavesNoPairOpen
<1>1. \A i \in Idx : ~Open(i, deduced)
  <2> SUFFICES ASSUME NEW k \in Idx, Open(k, deduced) PROVE FALSE
    OBVIOUS
  <2> DEFINE Left == {j \in Idx : Open(j, deduced)}
  <2>1. Left \in SUBSET Nat /\ Left # {}
    BY AskedSets DEF Idx
  <2>2. PICK i \in Left : \A m \in Left : i <= m
    BY <2>1, Smallest
  <2>3. i \in Idx /\ Open(i, deduced) /\ \A j \in Idx : j < i => ~Open(j, deduced)
    BY <2>2, AskedSets DEF Idx
  <2>4. Decided(Assumed(i, deduced), Apart(i, deduced), i)
    BY <2>3 DEF LastRound, Questions
  <2> QED BY <2>3, <2>4, AnsweredAssumptions DEF LastRound
<1> QED BY <1>1 DEF DoneLeavesNoPairOpen, Open, Answer, IInv, OneOutcome, TypeOK, Answers

(* Whatever the verifier answers, when next_round returns no question each *)
(* pair has an answer, asked or deduced, or was asked without one.         *)
THEOREM EveryPairIsAnswered == Spec => []DoneLeavesNoPairOpen
<1>1. Init => LastRound
  BY DEF Init, LastRound
<1>2. Spec => []LastRound
  BY <1>1, LastRoundNext, Invariance, PTL DEF Spec
<1> QED BY <1>2, DeducesFromEarlier, Invariance, NothingLeftOpen, PTL

-----------------------------------------------------------------------------
(* The merges of the clusters the rounds settle.                           *)

USE NodeNumbers

-----------------------------------------------------------------------------
(* Following the aliases: Resolve is the function its equation defines.    *)

Downward(a) == a \in [Nodes -> Nodes] /\ \A n \in Nodes : a[n] <= n

IsResolve(f, a) == f = [n \in Nodes |-> IF a[n] = n THEN n ELSE f[a[n]]]

\* The nodes that can be reached from a node.
Reach(a, n) ==
  {m \in Nodes : \A C \in SUBSET Nodes : n \in C /\ (\A k \in C : a[k] \in C) => m \in C}

LEMMA LeastIs ==
  ASSUME NEW S \in SUBSET Nat, S # {}
  PROVE  Least(S) \in S /\ \A m \in S : Least(S) <= m
BY Smallest DEF Least

LEMMA LeastUnique ==
  ASSUME NEW S \in SUBSET Nat, NEW n \in S, \A m \in S : n <= m
  PROVE  Least(S) = n
<1> DEFINE l == Least(S)
<1>1. l \in S /\ l <= n
  BY LeastIs
<1> HIDE DEF l
<1>2. l \in Nat /\ n \in Nat /\ n <= l
  BY <1>1
<1>3. l = n
  BY <1>1, <1>2
<1> QED BY <1>3 DEF l

LEMMA ReachIs ==
  ASSUME NEW a \in [Nodes -> Nodes], NEW n \in Nodes
  PROVE  /\ n \in Reach(a, n)
         /\ a[n] = n => Reach(a, n) = {n}
         /\ Reach(a, n) = {n} \cup Reach(a, a[n])
<1>1. n \in Reach(a, n)
  BY DEF Reach
<1>2. ASSUME a[n] = n
      PROVE  Reach(a, n) = {n}
  <2>1. {n} \in SUBSET Nodes /\ \A k \in {n} : a[k] \in {n}
    BY <1>2
  <2>2. Reach(a, n) \subseteq {n}
    BY <2>1 DEF Reach
  <2> QED BY <1>1, <2>2
<1>3. {n} \cup Reach(a, a[n]) \subseteq Reach(a, n)
  BY <1>1 DEF Reach
<1>4. ASSUME NEW m \in Reach(a, n), m # n
      PROVE  m \in Reach(a, a[n])
  <2> SUFFICES ASSUME NEW C \in SUBSET Nodes, a[n] \in C, \A k \in C : a[k] \in C
               PROVE  m \in C
    BY DEF Reach
  <2> DEFINE D == C \cup {n}
  <2>1. D \in SUBSET Nodes /\ n \in D /\ \A k \in D : a[k] \in D
    OBVIOUS
  <2>2. m \in D
    BY <2>1 DEF Reach
  <2> QED BY <1>4, <2>2
<1> QED BY <1>1, <1>2, <1>3, <1>4

LEMMA ResolveExists ==
  ASSUME NEW a, Downward(a)
  PROVE  \E f : IsResolve(f, a)
<1> DEFINE f == [n \in Nodes |-> Least(Reach(a, n))]
<1>1. ASSUME NEW n \in Nodes
      PROVE  f[n] = IF a[n] = n THEN n ELSE f[a[n]]
  <2>1. /\ a[n] \in Nodes /\ n \in Nat /\ a[n] \in Nat /\ a[n] <= n
        /\ Reach(a, n) \in SUBSET Nat /\ Reach(a, a[n]) \in SUBSET Nat
        /\ n \in Reach(a, n) /\ a[n] \in Reach(a, a[n])
    BY ReachIs DEF Downward, Reach
  <2>2. CASE a[n] = n
    <3>1. Reach(a, n) = {n}
      BY <2>2, ReachIs DEF Downward
    <3>2. Least({n}) = n
      BY <2>1, LeastUnique
    <3> QED BY <2>2, <3>1, <3>2
  <2>3. CASE a[n] # n
    <3>1. Reach(a, n) = {n} \cup Reach(a, a[n])
      BY ReachIs DEF Downward
    <3> DEFINE l == Least(Reach(a, a[n]))
    <3>2. l \in Reach(a, a[n]) /\ \A m \in Reach(a, a[n]) : l <= m
      BY <2>1, LeastIs
    <3> HIDE DEF l
    <3>3. l \in Nat /\ l <= n /\ l \in Reach(a, n) /\ \A m \in Reach(a, n) : l <= m
      BY <2>1, <3>1, <3>2
    <3>4. Least(Reach(a, n)) = l
      BY <2>1, <3>3, LeastUnique
    <3> QED BY <2>1, <2>3, <3>4 DEF l
  <2> QED BY <2>2, <2>3
<1>2. f = [n \in Nodes |-> f[n]]
  OBVIOUS
<1>3. [n \in Nodes |-> f[n]] = [n \in Nodes |-> IF a[n] = n THEN n ELSE f[a[n]]]
  BY <1>1
<1> QED BY <1>2, <1>3 DEF IsResolve

LEMMA ResolveIs ==
  /\ Downward(alias) => IsResolve(Resolve, alias)
  /\ Downward(alias') => IsResolve(Resolve', alias')
<1>1. ASSUME Downward(alias)
      PROVE  IsResolve(Resolve, alias)
  BY <1>1, ResolveExists DEF Resolve, IsResolve
<1>2. ASSUME Downward(alias')
      PROVE  IsResolve(Resolve', alias')
  BY <1>2, ResolveExists DEF Resolve, IsResolve
<1> QED BY <1>1, <1>2

LEMMA RootIs ==
  ASSUME NEW f, NEW a, Downward(a), IsResolve(f, a), NEW n \in Nodes
  PROVE  f[n] \in Reach(a, n) /\ a[f[n]] = f[n] /\ f[n] <= n /\ f[n] \in Nodes
<1> DEFINE Good(m) == f[m] \in Reach(a, m) /\ a[f[m]] = f[m] /\ f[m] <= m
           T == {m \in Nodes : ~Good(m)}
<1>1. ASSUME NEW m \in Nodes, a[m] # m => Good(a[m])
      PROVE  Good(m)
  <2>1. /\ f[m] = IF a[m] = m THEN m ELSE f[a[m]]
        /\ m \in Reach(a, m) /\ Reach(a, m) = {m} \cup Reach(a, a[m])
        /\ a[m] \in Nodes /\ a[m] <= m
    BY ReachIs DEF Downward, IsResolve
  <2>2. CASE a[m] = m
    BY <2>1, <2>2
  <2>3. CASE a[m] # m
    <3>1. f[m] \in Reach(a, m) /\ a[f[m]] = f[m] /\ f[m] <= a[m] /\ f[m] \in Nodes
      BY <1>1, <2>1, <2>3 DEF Reach
    <3>2. f[m] \in Nat /\ a[m] \in Nat /\ m \in Nat
      BY <2>1, <3>1
    <3> QED BY <2>1, <3>1, <3>2
  <2> QED BY <2>2, <2>3
<1> HIDE DEF Good
<1>2. T = {}
  <2> SUFFICES ASSUME T # {} PROVE FALSE
    OBVIOUS
  <2>1. PICK m \in T : \A k \in T : m <= k
    <3>1. T \in SUBSET Nat
      OBVIOUS
    <3> HIDE DEF T
    <3> QED BY <3>1, Smallest
  <2>2. ASSUME a[m] # m
        PROVE  Good(a[m])
    <3>1. a[m] \in Nodes /\ a[m] <= m /\ a[m] \in Nat /\ m \in Nat
      BY DEF Downward
    <3>2. a[m] \notin T
      BY <2>1, <2>2, <3>1
    <3> QED BY <3>1, <3>2
  <2> QED BY <1>1, <2>2
<1>3. Good(n)
  BY <1>2
<1> QED BY <1>3 DEF Good, Reach

\* Where a set that the aliases stay in has a node, it has the node it resolves to.
LEMMA RootStays ==
  ASSUME NEW f, NEW a, Downward(a), IsResolve(f, a), NEW C \in SUBSET Nodes, NEW n \in C,
         \A k \in C : a[k] \in C
  PROVE  f[n] \in C
BY RootIs DEF Reach

\* merge_nodes: the two ends resolve to the one kept, and no other node moves.
LEMMA MergeMoves ==
  ASSUME NEW f, NEW a, Downward(a), IsResolve(f, a),
         NEW g, NEW b, Downward(b), IsResolve(g, b),
         NEW x \in Nodes, NEW y \in Nodes, a[x] = x, a[y] = y, NEW keep \in {x, y},
         b = [n \in Nodes |-> IF n \in {x, y} THEN keep ELSE a[n]], NEW n \in Nodes
  PROVE  g[n] = IF f[n] \in {x, y} THEN keep ELSE f[n]
<1> DEFINE Good(m) == g[m] = IF f[m] \in {x, y} THEN keep ELSE f[m]
           T == {m \in Nodes : ~Good(m)}
<1>0. keep \in Nodes /\ b[keep] = keep
  OBVIOUS
<1>1. ASSUME NEW m \in Nodes, a[m] # m => Good(a[m])
      PROVE  Good(m)
  <2>1. /\ f[m] = IF a[m] = m THEN m ELSE f[a[m]]
        /\ g[m] = IF b[m] = m THEN m ELSE g[b[m]]
        /\ g[keep] = keep
        /\ b[m] = IF m \in {x, y} THEN keep ELSE a[m]
        /\ a[m] \in Nodes
    BY <1>0 DEF Downward, IsResolve
  <2>2. CASE m \in {x, y}
    <3>1. a[m] = m
      BY <2>2
    <3> QED BY <2>1, <2>2, <3>1
  <2>3. CASE m \notin {x, y}
    BY <1>1, <2>1, <2>3
  <2> QED BY <2>2, <2>3
<1> HIDE DEF Good
<1>2. T = {}
  <2> SUFFICES ASSUME T # {} PROVE FALSE
    OBVIOUS
  <2>1. PICK m \in T : \A k \in T : m <= k
    <3>1. T \in SUBSET Nat
      OBVIOUS
    <3> HIDE DEF T
    <3> QED BY <3>1, Smallest
  <2>2. ASSUME a[m] # m
        PROVE  Good(a[m])
    <3>1. a[m] \in Nodes /\ a[m] <= m /\ a[m] \in Nat /\ m \in Nat
      BY DEF Downward
    <3>2. a[m] \notin T
      BY <2>1, <2>2, <3>1
    <3> QED BY <3>1, <3>2
  <2> QED BY <1>1, <2>2
<1>3. Good(n)
  BY <1>2
<1> QED BY <1>3 DEF Good

-----------------------------------------------------------------------------
(* The inductive invariant: of the rounds, of the aliases, of the report.  *)

RoundsInv == IInv /\ DeducedFromEarlierAnswers

Links == Asked("same")

\* A removed node was asked about, and went to a lower node of its cluster.
AliasInv ==
  /\ Downward(alias)
  /\ \A n \in Nodes : /\ Joined(Links, n, alias[n])
                      /\ alias[n] # n => done /\ alias[n] \in AskedNodes

\* What the status of a pair says.
Merged(i) ==
  /\ status[i] = [status |-> "merged", kept |-> Least(Cluster(pairs[i][1]))]
  /\ pairs[i][1] \in AskedNodes /\ Resolve[pairs[i][1]] = Resolve[pairs[i][2]]
KeptSeparate(i) ==
  /\ status[i] = [status |-> "kept_separate", kept |-> 0]
  /\ ~Joined(Links, pairs[i][1], pairs[i][2])
StatusInv ==
  /\ status \in [Idx -> [status : {"pending", "merged", "kept_separate"}, kept : Nodes \cup {0}]]
  /\ \A i \in Idx : status[i] # Pending => done /\ (Merged(i) \/ KeptSeparate(i))

MergeInv == RoundsInv /\ AliasInv /\ StatusInv

LEMMA RoundsAre ==
  ASSUME RoundsInv
  PROVE  /\ PairsOK /\ TypeOK /\ Links \in SUBSET Idx
         /\ \A i \in Idx : pairs[i][1] \in Nodes /\ pairs[i][2] \in Nodes
BY AskedSets, EndsAreNodes DEF RoundsInv, IInv, Links

\* A node resolves to one of its cluster that was never removed, no higher than itself.
LEMMA RootInCluster ==
  ASSUME RoundsInv, AliasInv, NEW n \in Nodes
  PROVE  /\ Resolve[n] \in Nodes /\ alias[Resolve[n]] = Resolve[n] /\ Resolve[n] <= n
         /\ Joined(Links, n, Resolve[n])
         /\ n \in AskedNodes => Resolve[n] \in AskedNodes
<1>1. Downward(alias) /\ IsResolve(Resolve, alias)
  BY ResolveIs DEF AliasInv
<1>2. Resolve[n] \in Nodes /\ alias[Resolve[n]] = Resolve[n] /\ Resolve[n] <= n
  BY <1>1, RootIs
<1>3. Joined(Links, n, Resolve[n])
  <2> DEFINE C == {m \in Nodes : Joined(Links, n, m)}
  <2>1. n \in C
    BY JoinedReflexive
  <2>2. ASSUME NEW k \in C
        PROVE  alias[k] \in C
    <3>1. k \in Nodes /\ alias[k] \in Nodes /\ Joined(Links, n, k) /\ Joined(Links, k, alias[k])
      BY DEF AliasInv, Downward
    <3>2. Joined(Links, n, alias[k])
      BY <3>1, JoinedTransitive
    <3> QED BY <3>1, <3>2
  <2>3. C \in SUBSET Nodes
    OBVIOUS
  <2> HIDE DEF C
  <2>4. Resolve[n] \in C
    BY <1>1, <2>1, <2>2, <2>3, RootStays
  <2> QED BY <2>4 DEF C
<1>4. ASSUME n \in AskedNodes
      PROVE  Resolve[n] \in AskedNodes
  <2>1. AskedNodes \in SUBSET Nodes
    BY DEF AskedNodes
  <2>2. \A k \in AskedNodes : alias[k] \in AskedNodes
    BY <2>1 DEF AliasInv
  <2> QED BY <1>1, <1>4, <2>1, <2>2, RootStays
<1> QED BY <1>2, <1>3, <1>4

LEMMA LeastOfCluster ==
  ASSUME RoundsInv, NEW n \in AskedNodes
  PROVE  /\ Cluster(n) \in SUBSET Nodes /\ n \in Cluster(n)
         /\ Least(Cluster(n)) \in Cluster(n) /\ \A m \in Cluster(n) : Least(Cluster(n)) <= m
<1>1. Cluster(n) \in SUBSET Nodes /\ n \in Cluster(n)
  BY JoinedReflexive DEF Cluster, AskedNodes, Links
<1>2. Cluster(n) \in SUBSET Nat /\ Cluster(n) # {}
  BY <1>1
<1> QED BY <1>1, <1>2, LeastIs

-----------------------------------------------------------------------------
(* Every step keeps the invariant.                                         *)

LEMMA RoundsStep == RoundsInv /\ [MergeNext]_mergeVars => RoundsInv'
<1> SUFFICES ASSUME RoundsInv, [MergeNext]_mergeVars PROVE RoundsInv'
  OBVIOUS
<1>1. [Next]_vars
  BY DEF MergeNext, AskRounds, KeepSeparate, MergePair, MergesDone, mergeVars, vars
<1>2. IInv'
  BY <1>1, TypeNext, OneOutcomeNext, AskedStaysUndecidedNext DEF RoundsInv, IInv
<1>3. DeducedFromEarlierAnswers'
  BY <1>1, DeducedFromEarlierNext DEF RoundsInv
<1> QED BY <1>2, <1>3 DEF RoundsInv

LEMMA SameAnswers ==
  ASSUME UNCHANGED vars
  PROVE  /\ Links' = Links /\ AskedNodes' = AskedNodes /\ Idx' = Idx
         /\ \A a, b : (Joined(Links, a, b))' <=> Joined(Links, a, b)
         /\ \A n : Cluster(n)' = Cluster(n)
BY DEF vars, Links, Asked, AskedNodes, Idx, Joined, Closed, Cluster

LEMMA AskRoundsStep ==
  ASSUME MergeInv, AskRounds
  PROVE  AliasInv' /\ StatusInv'
<1>1. ~done /\ alias' = alias /\ status' = status /\ pairs' = pairs
  BY DEF AskRounds, Next, NextRound, RecordAnswer, RecordNoAnswer, Finished
<1>2. ASSUME NEW n \in Nodes
      PROVE  alias[n] = n
  <2>1. alias[n] # n => done
    BY DEF MergeInv, AliasInv
  <2> QED BY <1>1, <2>1
<1>3. AliasInv'
  <2>1. (\A n \in Nodes : Joined(Links, n, n))'
    BY DEF Joined
  <2> QED BY <1>1, <1>2, <2>1 DEF MergeInv, AliasInv, Downward, Joined
<1>4. StatusInv'
  BY <1>1 DEF MergeInv, StatusInv, Idx
<1> QED BY <1>3, <1>4

LEMMA KeepSeparateStep ==
  ASSUME MergeInv, NEW i \in Idx, KeepSeparate(i)
  PROVE  AliasInv' /\ StatusInv'
<1>1. /\ UNCHANGED vars /\ alias' = alias /\ done /\ done' = done /\ pairs' = pairs
      /\ pairs[i][2] \in AskedNodes /\ pairs[i][2] \notin Cluster(pairs[i][1])
      /\ status' = [status EXCEPT ![i] = [status |-> "kept_separate", kept |-> 0]]
  BY DEF KeepSeparate, Unsettled, vars
<1>2. AliasInv'
  BY <1>1, SameAnswers DEF MergeInv, AliasInv, Downward
<1>3. Resolve' = Resolve
  BY <1>1 DEF Resolve
<1>4. KeptSeparate(i)'
  <2>1. ~Joined(Links, pairs[i][1], pairs[i][2])
    BY <1>1 DEF Cluster, Links
  <2>2. status'[i] = [status |-> "kept_separate", kept |-> 0]
    BY <1>1 DEF MergeInv, StatusInv
  <2> QED BY <1>1, <2>1, <2>2, SameAnswers DEF KeptSeparate
<1>5. ASSUME NEW j \in Idx, j # i
      PROVE  status'[j] # Pending => done' /\ (Merged(j)' \/ KeptSeparate(j)')
  <2>1. status'[j] = status[j]
    BY <1>1, <1>5 DEF MergeInv, StatusInv
  <2>2. Merged(j) => Merged(j)'
    BY <1>1, <1>3, <2>1, SameAnswers DEF Merged
  <2>3. KeptSeparate(j) => KeptSeparate(j)'
    BY <1>1, <2>1, SameAnswers DEF KeptSeparate
  <2> QED BY <1>1, <2>1, <2>2, <2>3 DEF MergeInv, StatusInv
<1>6. status' \in [Idx -> [status : {"pending", "merged", "kept_separate"}, kept : Nodes \cup {0}]]
  BY <1>1 DEF MergeInv, StatusInv
<1>7. StatusInv'
  BY <1>1, <1>4, <1>5, <1>6, SameAnswers DEF StatusInv
<1> QED BY <1>2, <1>7

LEMMA MergePairStep ==
  ASSUME MergeInv, NEW i \in Idx, MergePair(i)
  PROVE  AliasInv' /\ StatusInv'
<1> DEFINE p == pairs[i][1]
           q == pairs[i][2]
           x == Resolve[p]
           y == Resolve[q]
           keep == Least({x, y})
<1>1. /\ UNCHANGED vars /\ done /\ done' = done /\ pairs' = pairs
      /\ p \in AskedNodes /\ q \in AskedNodes /\ q \in Cluster(p)
      /\ status' = [status EXCEPT ![i] = [status |-> "merged", kept |-> Least(Cluster(p))]]
      /\ alias' = [n \in Nodes |-> IF n \in {x, y} THEN keep ELSE alias[n]]
  BY DEF MergePair, Unsettled, vars
<1>2. /\ RoundsInv /\ AliasInv /\ PairsOK /\ Links \in SUBSET Idx
      /\ p \in Nodes /\ q \in Nodes /\ Joined(Links, p, q)
  BY <1>1, RoundsAre DEF MergeInv, Cluster, Links
<1>3. /\ x \in Nodes /\ alias[x] = x /\ Joined(Links, p, x) /\ x \in AskedNodes
      /\ y \in Nodes /\ alias[y] = y /\ Joined(Links, q, y) /\ y \in AskedNodes
  BY <1>1, <1>2, RootInCluster
<1> HIDE DEF p, q, x, y
<1>4. keep \in {x, y} /\ keep <= x /\ keep <= y
  <2>1. {x, y} \in SUBSET Nat /\ {x, y} # {}
    BY <1>3
  <2> HIDE DEF keep
  <2>2. keep \in {x, y} /\ \A m \in {x, y} : keep <= m
    BY <2>1, LeastIs DEF keep
  <2> QED BY <2>2
<1> HIDE DEF keep
<1>5. /\ Joined(Links, x, keep) /\ Joined(Links, y, keep)
      /\ keep \in Nodes /\ keep \in AskedNodes
  <2>1. Joined(Links, x, p) /\ Joined(Links, y, q) /\ Joined(Links, q, p)
    BY <1>2, <1>3, JoinedSymmetric
  <2>2. Joined(Links, x, y) /\ Joined(Links, y, x)
    <3>1. Joined(Links, x, q) /\ Joined(Links, y, p)
      BY <1>2, <2>1, JoinedTransitive
    <3> QED BY <1>3, <3>1, JoinedTransitive
  <2> QED BY <1>3, <1>4, <2>2, JoinedReflexive
<1>6. Downward(alias) /\ Downward(alias')
  <2>1. Downward(alias)
    BY <1>2 DEF AliasInv
  <2> QED BY <1>1, <1>3, <1>4, <1>5, <2>1 DEF Downward
<1>7. AliasInv'
  <2>1. ASSUME NEW n \in Nodes
        PROVE  Joined(Links, n, alias'[n]) /\ (alias'[n] # n => done /\ alias'[n] \in AskedNodes)
    <3>1. Joined(Links, n, alias[n]) /\ (alias[n] # n => done /\ alias[n] \in AskedNodes)
      BY <1>2 DEF AliasInv
    <3>2. CASE n \in {x, y}
      <4>1. alias'[n] = keep
        BY <1>1, <3>2
      <4> QED BY <1>1, <1>5, <3>2, <4>1
    <3>3. CASE n \notin {x, y}
      <4>1. alias'[n] = alias[n]
        BY <1>1, <3>3
      <4> QED BY <3>1, <4>1
    <3> QED BY <3>2, <3>3
  <2> QED BY <1>1, <1>6, <2>1, SameAnswers DEF AliasInv
<1>8. ASSUME NEW n \in Nodes
      PROVE  Resolve'[n] = IF Resolve[n] \in {x, y} THEN keep ELSE Resolve[n]
  BY <1>1, <1>3, <1>4, <1>6, ResolveIs, MergeMoves
<1>9. Merged(i)'
  <2>1. status'[i] = [status |-> "merged", kept |-> Least(Cluster(p))]
    BY <1>1 DEF MergeInv, StatusInv
  <2>2. Resolve'[p] = Resolve'[q]
    BY <1>2, <1>8 DEF x, y
  <2> QED BY <1>1, <2>1, <2>2, SameAnswers DEF Merged, p, q
<1>10. ASSUME NEW j \in Idx, j # i
       PROVE  status'[j] # Pending => done' /\ (Merged(j)' \/ KeptSeparate(j)')
  <2>1. status'[j] = status[j]
    BY <1>1, <1>10 DEF MergeInv, StatusInv
  <2>2. Merged(j) => Merged(j)'
    <3>1. pairs[j][1] \in Nodes /\ pairs[j][2] \in Nodes
      BY <1>2, RoundsAre
    <3>2. Resolve[pairs[j][1]] = Resolve[pairs[j][2]]
            => Resolve'[pairs[j][1]] = Resolve'[pairs[j][2]]
      BY <1>8, <3>1
    <3> QED BY <1>1, <2>1, <3>2, SameAnswers DEF Merged
  <2>3. KeptSeparate(j) => KeptSeparate(j)'
    BY <1>1, <2>1, SameAnswers DEF KeptSeparate
  <2> QED BY <1>1, <2>1, <2>2, <2>3 DEF MergeInv, StatusInv
<1>11. status' \in [Idx -> [status : {"pending", "merged", "kept_separate"}, kept : Nodes \cup {0}]]
  <2>1. Least(Cluster(p)) \in Nodes
    BY <1>1, <1>2, LeastOfCluster
  <2> QED BY <1>1, <2>1 DEF MergeInv, StatusInv
<1>12. StatusInv'
  BY <1>1, <1>9, <1>10, <1>11, SameAnswers DEF StatusInv
<1> QED BY <1>7, <1>12

LEMMA MergeStutter ==
  ASSUME MergeInv, UNCHANGED mergeVars
  PROVE  AliasInv' /\ StatusInv'
<1>1. UNCHANGED vars /\ alias' = alias /\ status' = status /\ done' = done /\ pairs' = pairs
  BY DEF mergeVars, vars
<1>2. Resolve' = Resolve
  BY <1>1 DEF Resolve
<1>3. AliasInv'
  BY <1>1, SameAnswers DEF MergeInv, AliasInv, Downward
<1>4. StatusInv'
  BY <1>1, <1>2, SameAnswers DEF MergeInv, StatusInv, Merged, KeptSeparate
<1> QED BY <1>3, <1>4

LEMMA MergeInvInit == MergeInit => MergeInv
<1> SUFFICES ASSUME MergeInit PROVE MergeInv
  OBVIOUS
<1>1. RoundsInv
  BY IInvInit DEF MergeInit, Init, RoundsInv, DeducedFromEarlierAnswers
<1>2. AliasInv
  BY JoinedReflexive DEF MergeInit, AliasInv, Downward
<1>3. StatusInv
  BY DEF MergeInit, StatusInv, Pending
<1> QED BY <1>1, <1>2, <1>3 DEF MergeInv

(* The inductive invariant holds of every reachable state.                 *)
THEOREM MergeKeepsInv == MergeSpec => []MergeInv
<1>1. MergeInv /\ [MergeNext]_mergeVars => MergeInv'
  <2> SUFFICES ASSUME MergeInv, [MergeNext]_mergeVars PROVE MergeInv'
    OBVIOUS
  <2>1. RoundsInv'
    BY RoundsStep DEF MergeInv
  <2>2. AliasInv' /\ StatusInv'
    BY AskRoundsStep, KeepSeparateStep, MergePairStep, MergeStutter
    DEF MergeNext, MergesDone
  <2> QED BY <2>1, <2>2 DEF MergeInv
<1> QED BY <1>1, MergeInvInit, PTL DEF MergeSpec

-----------------------------------------------------------------------------
(* What the invariant says of the merged graph.                            *)

\* Only the nodes of one cluster resolve to one node.
LEMMA OneRootOneCluster ==
  ASSUME MergeInv, NEW n \in Nodes, NEW m \in Nodes, Resolve[n] = Resolve[m]
  PROVE  Joined(Links, n, m)
<1>1. RoundsInv /\ AliasInv /\ PairsOK /\ Links \in SUBSET Idx
  BY RoundsAre DEF MergeInv
<1>2. /\ Joined(Links, n, Resolve[n]) /\ Joined(Links, m, Resolve[n])
      /\ Resolve[n] \in Nodes
  BY <1>1, RootInCluster
<1>3. Joined(Links, Resolve[n], m)
  BY <1>1, <1>2, JoinedSymmetric
<1> QED BY <1>2, <1>3, JoinedTransitive

\* When every pair is settled, all the nodes of a cluster do.
LEMMA OneClusterOneRoot ==
  ASSUME MergeInv, Settled, NEW n \in Nodes, NEW m \in Nodes, Joined(Links, n, m)
  PROVE  Resolve[n] = Resolve[m]
<1> DEFINE C == {k \in Nodes : Resolve[k] = Resolve[n]}
<1>1. ASSUME NEW l \in Links
      PROVE  Resolve[pairs[l][1]] = Resolve[pairs[l][2]]
  <2>1. l \in Idx /\ Joined(Links, pairs[l][1], pairs[l][2])
    BY RoundsAre, JoinedByLink DEF MergeInv
  <2>2. Merged(l)
    BY <2>1 DEF MergeInv, StatusInv, Settled, KeptSeparate
  <2> QED BY <2>2 DEF Merged
<1>2. \A l \in Links : pairs[l][1] \in Nodes /\ pairs[l][2] \in Nodes
  BY RoundsAre DEF MergeInv
<1>3. Closed(C, Links)
  BY <1>1, <1>2 DEF Closed
<1>4. C \in SUBSET Nodes /\ n \in C
  OBVIOUS
<1> HIDE DEF C
<1>5. m \in C
  BY <1>3, <1>4 DEF Joined
<1> QED BY <1>5 DEF C

LEMMA DifferentFromInvariant == MergeInv => NeverMergesDifferent
<1> SUFFICES ASSUME MergeInv, NEW i \in Idx, Answer(i, deduced) = "different",
                    Resolve[pairs[i][1]] = Resolve[pairs[i][2]]
             PROVE  FALSE
  BY DEF NeverMergesDifferent
<1>1. Joined(Asked("same"), pairs[i][1], pairs[i][2])
  BY RoundsAre, OneRootOneCluster DEF MergeInv, Links
<1>2. NoContradiction /\ DeductionsMatchClusters
  BY NoContradictionFromInvariant, DeductionsMatchFromInvariant DEF MergeInv, RoundsInv
<1>3. CASE asked[i] # "open"
  BY <1>1, <1>2, <1>3 DEF Answer, NoContradiction, Asked
<1>4. CASE asked[i] = "open"
  BY <1>1, <1>2, <1>4 DEF Answer, DeductionsMatchClusters
<1> QED BY <1>3, <1>4

LEMMA ReportFromInvariant == MergeInv => ReportMatchesGraph
<1> SUFFICES ASSUME MergeInv, Settled, NEW i \in Idx
             PROVE  IF status[i].status = "merged"
                    THEN /\ Resolve[pairs[i][1]] = status[i].kept
                         /\ Resolve[pairs[i][2]] = status[i].kept
                         /\ alias[status[i].kept] = status[i].kept
                    ELSE Resolve[pairs[i][1]] # Resolve[pairs[i][2]]
  BY DEF ReportMatchesGraph
<1> DEFINE p == pairs[i][1]
           q == pairs[i][2]
           l == Least(Cluster(p))
<1>1. RoundsInv /\ AliasInv /\ p \in Nodes /\ q \in Nodes
  BY RoundsAre DEF MergeInv
<1>2. Merged(i) \/ KeptSeparate(i)
  BY DEF MergeInv, StatusInv, Settled
<1>3. CASE Merged(i)
  <2>1. p \in AskedNodes /\ Resolve[p] = Resolve[q] /\ status[i] = [status |-> "merged", kept |-> l]
    BY <1>3 DEF Merged
  <2>2. /\ Resolve[p] \in Nodes /\ alias[Resolve[p]] = Resolve[p]
        /\ Joined(Links, p, Resolve[p]) /\ Resolve[p] \in AskedNodes
    BY <1>1, <2>1, RootInCluster
  <2>3. Resolve[p] \in Cluster(p)
    BY <2>2 DEF Cluster, Links
  <2>4. l \in Nodes /\ l \in Cluster(p) /\ l <= Resolve[p]
    BY <1>1, <2>1, <2>3, LeastOfCluster
  <2>5. Joined(Links, p, l)
    BY <2>4 DEF Cluster, Links
  <2> HIDE DEF l, p, q
  <2>6. Resolve[p] = Resolve[l] /\ Resolve[l] <= l
    BY <1>1, <2>4, <2>5, OneClusterOneRoot, RootInCluster
  <2>7. Resolve[p] = l
    <3>1. Resolve[p] \in Nat /\ l \in Nat
      BY <2>2, <2>4
    <3> QED BY <2>4, <2>6, <3>1
  <2> QED BY <2>1, <2>2, <2>7 DEF p, q
<1>4. CASE KeptSeparate(i)
  <2>1. status[i].status # "merged" /\ ~Joined(Links, p, q)
    BY <1>4 DEF KeptSeparate
  <2> QED BY <1>1, <2>1, OneRootOneCluster
<1> QED BY <1>2, <1>3, <1>4

-----------------------------------------------------------------------------
(* The theorems.                                                           *)

(* The rounds and the merges keep their types, for every list of pairs:    *)
(* a removed node's alias and a pair's kept node are nodes.                *)
THEOREM MergeTypes == MergeSpec => []MergeTypeOK
<1>1. MergeInv => MergeTypeOK
  BY DEF MergeInv, RoundsInv, IInv, AliasInv, Downward, StatusInv, MergeTypeOK
<1> QED BY <1>1, MergeKeepsInv, PTL

(* verify_merge_proposals: two nodes that were told apart, asked or        *)
(* deduced, are never merged, for every list of pairs, every verifier and  *)
(* every order of the merges.                                              *)
THEOREM DifferentNodesStayApart == MergeSpec => []NeverMergesDifferent
BY MergeKeepsInv, DifferentFromInvariant, PTL

(* The report of verify_merge_proposals is true of the merged graph: the   *)
(* nodes of a merged pair resolve to the node it names, which was never    *)
(* removed, and those of a pair kept separate to two nodes.                *)
THEOREM ReportIsTrue == MergeSpec => []ReportMatchesGraph
BY MergeKeepsInv, ReportFromInvariant, PTL

(* The merges leave what the rounds promise as it is: the specification    *)
(* with the merges implements the one of the rounds, but for its fairness. *)
THEOREM RoundsAreKept == MergeSpec => Init /\ [][Next]_vars
<1>1. MergeInit => Init
  BY DEF MergeInit
<1>2. [MergeNext]_mergeVars => [Next]_vars
  BY DEF MergeNext, AskRounds, KeepSeparate, MergePair, MergesDone, mergeVars, vars
<1> QED BY <1>1, <1>2, PTL DEF MergeSpec
=============================================================================
