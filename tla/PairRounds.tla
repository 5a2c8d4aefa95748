----------------------------- MODULE PairRounds -----------------------------
(***************************************************************************)
(* Rounds of verifier questions about which node pairs show one screen     *)
(* (merge_rounds.py).  The pairs are listed most likely one screen first.  *)
(* next_round deduces every open pair the answers decide and asks every    *)
(* open pair that the pairs before it could not decide even if all of them *)
(* were one screen; record takes the verifier's answers one by one.        *)
(*                                                                         *)
(* The code keeps components in a union-find forest; here two nodes are in *)
(* one component when no set that the links respect tells them apart.      *)
(***************************************************************************)
EXTENDS Integers, Sequences

CONSTANTS
  Nodes,      \* the node ids that proposals name
  PairLists   \* the orders of checks that _ask_merge_rounds may start from

\* A proposal that names one node twice is skipped (_merge_skip_reason).
ASSUME PairListsAssumption ==
  \A list \in PairLists :
    /\ list \in Seq(Nodes \X Nodes)
    /\ \A i \in 1..Len(list) : list[i][1] # list[i][2]

VARIABLES
  pairs,       \* the ordered pairs, fixed for the run
  asked,       \* the verifier's answer on each pair, "open" while it has none
  unanswered,  \* the pairs asked without an answer
  deduced,     \* the answer that follows from asked ones, "open" without one
  questions,   \* the current round's questions not yet recorded
  rounds,      \* how many rounds asked something
  done         \* next_round returned no question

vars == <<pairs, asked, unanswered, deduced, questions, rounds, done>>

Idx == 1..Len(pairs)
Answers == {"same", "different"}

-----------------------------------------------------------------------------
(* Components: Forest.root(a) = Forest.root(b) after joining the pairs I.  *)

Closed(C, I) == \A i \in I : pairs[i][1] \in C <=> pairs[i][2] \in C

Joined(I, a, b) == \A C \in SUBSET Nodes : a \in C /\ Closed(C, I) => b \in C

\* _decided: a "different" answer of A separates the components of pair i.
Separated(I, A, i) ==
  \E p \in A :
    \/ Joined(I, pairs[p][1], pairs[i][1]) /\ Joined(I, pairs[p][2], pairs[i][2])
    \/ Joined(I, pairs[p][1], pairs[i][2]) /\ Joined(I, pairs[p][2], pairs[i][1])

Decided(I, A, i) == Joined(I, pairs[i][1], pairs[i][2]) \/ Separated(I, A, i)

-----------------------------------------------------------------------------
Asked(a) == {i \in Idx : asked[i] = a}

\* _answer, of an assignment d of deductions.
Answer(i, d) == IF asked[i] # "open" THEN asked[i] ELSE d[i]

\* Fault: a pair asked without an answer is asked again.
OpenUntilAnswered(i, d) == Answer(i, d) = "open"

Open(i, d) == i \notin unanswered /\ Answer(i, d) = "open"

\* Fault: a pair without an answer counts as one screen.
DeductionsWithoutAnswers ==
  [i \in Idx |-> IF ~Open(i, deduced) THEN deduced[i]
                 ELSE IF Joined(Asked("same") \cup unanswered, pairs[i][1], pairs[i][2])
                 THEN "same"
                 ELSE IF Separated(Asked("same"), Asked("different"), i)
                 THEN "different" ELSE "open"]

\* _deduce: what the asked answers say of each open pair.
Deductions ==
  [i \in Idx |->
     IF ~Open(i, deduced) THEN deduced[i]
     ELSE IF Joined(Asked("same"), pairs[i][1], pairs[i][2]) THEN "same"
     ELSE IF Separated(Asked("same"), Asked("different"), i) THEN "different"
     ELSE "open"]

\* Faults: only what was answered is assumed, and the pairs after i are.
AssumedAnswered(i, d) == {j \in 1..(i - 1) : j \notin unanswered /\ Answer(j, d) = "same"}
AssumedReversed(i, d) == {j \in (i + 1)..Len(pairs) : j \notin unanswered
                                                    /\ Answer(j, d) # "different"}

\* The forest and the separations next_round holds when it reaches pair i.
Assumed(i, d) == {j \in 1..(i - 1) : j \notin unanswered /\ Answer(j, d) # "different"}
Apart(i, d) == {j \in 1..(i - 1) : j \notin unanswered /\ Answer(j, d) = "different"}

\* Fault: every open pair is asked at once.
QuestionsOnAllOpen(d) == {i \in Idx : Open(i, d)}

Questions(d) == {i \in Idx : Open(i, d) /\ ~Decided(Assumed(i, d), Apart(i, d), i)}

-----------------------------------------------------------------------------
Init ==
  /\ pairs \in PairLists
  /\ asked = [i \in Idx |-> "open"]
  /\ unanswered = {}
  /\ deduced = [i \in Idx |-> "open"]
  /\ questions = {}
  /\ rounds = 0
  /\ done = FALSE

\* Fault: the rounds go on while a pair has no answer.
NextRoundUntilAnswered ==
  /\ ~done /\ questions = {}
  /\ deduced' = Deductions
  /\ questions' = Questions(deduced')
  /\ rounds' = IF questions' = {} THEN rounds ELSE rounds + 1
  /\ done' = (questions' = {} /\ unanswered = {})
  /\ UNCHANGED <<pairs, asked, unanswered>>

NextRound ==
  /\ ~done /\ questions = {}
  /\ deduced' = Deductions
  /\ questions' = Questions(deduced')
  /\ rounds' = IF questions' = {} THEN rounds ELSE rounds + 1
  /\ done' = (questions' = {})
  /\ UNCHANGED <<pairs, asked, unanswered>>

\* The answers of a round are recorded in the order of its questions.
IsNextQuestion(i) == i \in questions /\ \A j \in questions : i <= j

RecordAnswer(i, a) ==
  /\ IsNextQuestion(i)
  /\ asked' = [asked EXCEPT ![i] = a]
  /\ questions' = questions \ {i}
  /\ UNCHANGED <<pairs, unanswered, deduced, rounds, done>>

RecordNoAnswer(i) ==
  /\ IsNextQuestion(i)
  /\ unanswered' = unanswered \cup {i}
  /\ questions' = questions \ {i}
  /\ UNCHANGED <<pairs, asked, deduced, rounds, done>>

\* verify_merge_proposals goes on to merge the clusters.
Finished == done /\ UNCHANGED vars

Next ==
  \/ NextRound
  \/ \E i \in Idx, a \in Answers : RecordAnswer(i, a)
  \/ \E i \in Idx : RecordNoAnswer(i)
  \/ Finished

\* The loop of _ask_merge_rounds is sequential code: it takes its next step.
Spec == Init /\ [][Next]_vars /\ WF_vars(Next)

-----------------------------------------------------------------------------
(* The state of the rounds.                                                *)
TypeOK ==
  /\ pairs \in Seq(Nodes \X Nodes)
  /\ asked \in [Idx -> Answers \cup {"open"}]
  /\ unanswered \subseteq Idx
  /\ deduced \in [Idx -> Answers \cup {"open"}]
  /\ questions \subseteq Idx
  /\ rounds \in Nat
  /\ done \in BOOLEAN

(* The "same" answers join the nodes into clusters, and no "different"     *)
(* answer ever falls inside one, whatever the verifier answers             *)
(* (merge_rounds.py module docstring).                                     *)
NoContradiction ==
  \A i \in Asked("different") : ~Joined(Asked("same"), pairs[i][1], pairs[i][2])

(* A pair is asked only when the answers on the pairs before it leave it   *)
(* open: the verifier is never asked what it already said by transitivity. *)
Before(i, S) == {j \in S : j < i}
AskedOnlyWhenOpen ==
  \A i \in Asked("same") \cup Asked("different") \cup unanswered \cup questions :
    ~Decided(Before(i, Asked("same")), Before(i, Asked("different")), i)

(* A deduced answer follows from answers on the pairs before it alone, so  *)
(* a deduction never overrules what a later, less likely pair was asked.   *)
DeducedFromEarlierAnswers ==
  \A i \in Idx :
    /\ deduced[i] = "same" =>
         Joined(Before(i, Asked("same")), pairs[i][1], pairs[i][2])
    /\ deduced[i] = "different" =>
         Separated(Before(i, Asked("same")), Before(i, Asked("different")), i)

(* When next_round returns no question, every pair is asked or deduced,    *)
(* never both, and a pair without an answer was not deduced instead.       *)
DoneLeavesNoPairOpen ==
  done => \A i \in Idx :
            \/ i \in unanswered /\ asked[i] = "open" /\ deduced[i] = "open"
            \/ i \notin unanswered /\ (asked[i] = "open" <=> deduced[i] \in Answers)

(* The last answers agree with their own transitive closure: a deduced     *)
(* "different" pair is in two clusters and a deduced "same" pair in one.   *)
DeductionsMatchClusters ==
  \A i \in Idx :
    deduced[i] # "open" =>
      (deduced[i] = "same" <=> Joined(Asked("same"), pairs[i][1], pairs[i][2]))

(* An answer, asked or deduced, is final, and a pair without an answer is  *)
(* neither asked again nor deduced.                                        *)
AnswersAreFinal ==
  [][\A i \in Idx :
       /\ Answer(i, deduced) # "open" => Answer(i, deduced)' = Answer(i, deduced)
       /\ i \in unanswered => i \notin questions' /\ deduced'[i] = "open"]_vars
=============================================================================
