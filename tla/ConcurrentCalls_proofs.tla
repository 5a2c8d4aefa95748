----------------------- MODULE ConcurrentCalls_proofs -----------------------
(***************************************************************************)
(* Proofs about ConcurrentCalls for every size of the batch, number of     *)
(* workers and timeout.                                                    *)
(*                                                                         *)
(* A worker changes only its own call, and leaves it within the age that   *)
(* its stage allows.  The calling thread has dealt with every input before *)
(* the one it has reached, and no step of a worker touches a call that is  *)
(* done or cancelled; so the results it applied and the failure it noted   *)
(* stay those of the calls.                                                *)
(***************************************************************************)
EXTENDS ConcurrentCalls, TLAPS, NaturalsInduction, WellFoundedInduction, FiniteSetTheorems

USE RequestsAssumption, WorkersAssumption

-----------------------------------------------------------------------------
Stages == {"queued", "cancelled", "opening", "reading", "waiting", "done"}
Results == {"none", "answered", "fallback", "raised"}
Silences == 0..Timeout
AskedCounts == 0..2
RoundCounts == 1..2
CallType ==
  [stage : Stages, age : Nat, handed : Nat, silent : Silences, wait : Nat,
   asked : AskedCounts, rounds : RoundCounts, result : Results]

\* How long the transport has had an attempt, and how old a request can be while it waits.
Within(stage, age, handed, silent, wait) ==
  /\ stage = "opening" => handed <= Timeout + 1
  /\ stage = "reading" => handed <= (Timeout + 1) + silent
  /\ stage = "waiting" => age + wait <= Budget

CallOK(c) ==
  /\ c \in CallType
  /\ c.stage \in {"queued", "cancelled", "done"} => c.age = 0
  /\ c.stage = "queued" => c.asked = 0
  /\ Within(c.stage, c.age, c.handed, c.silent, c.wait)
  /\ c.stage = "done" <=> c.result # "none"

CallsInv ==
  /\ caller \in Callers /\ Calls \subseteq 1..Inputs
  /\ call \in [Calls -> CallType] /\ \A i \in Calls : CallOK(call[i])

Settled(i) == call[i].stage \in {"done", "cancelled"}

\* The inputs before this one are dealt with.
Reached == IF phase = "cancel" THEN error ELSE next
Applied == {applied[j] : j \in DOMAIN applied}

BatchInv ==
  /\ \E n \in 0..Inputs : Calls = 1..n /\ next \in 1..(n + 1)
  /\ phase \in {"collect", "cancel", "shutdown", "ended"}
  /\ error \in Calls \cup {0} /\ cut \in {"none", "loop", "shutdown"} /\ applied \in Seq(Calls)
  /\ phase = "cancel" => error # 0 /\ next \in Calls /\ error <= next
  /\ phase = "ended" /\ cut # "shutdown" => \A i \in Calls : Settled(i)

Increasing == \A j \in 1..Len(applied) - 1 : applied[j] < applied[j + 1]
Usable == {"answered", "fallback"}

\* What the loop did with the inputs before this one, and the failure it raises.
AppliedInv ==
  /\ Increasing
  /\ Applied = {i \in Calls : i < Reached /\ call[i].result \in Usable}
FailureInv ==
  /\ error = 0 => \A i \in Calls : /\ call[i].stage # "cancelled"
                                   /\ i < next => call[i].result # "raised"
  /\ error # 0 => /\ error <= next /\ call[error].result = "raised"
                  /\ phase # "cancel" => error < next
                  /\ \A i \in Calls : i < error => call[i].result # "raised"
CollectedInv ==
  cut = "none" =>
    /\ phase \in {"shutdown", "ended"} => next \notin Calls
    /\ \A i \in Calls : i < Reached => Settled(i)
    /\ AppliedInv /\ FailureInv

WorkersInv == Cardinality(Running) <= Workers
PoolInv == CallsInv /\ BatchInv /\ CollectedInv /\ WorkersInv

-----------------------------------------------------------------------------
(* What becomes of a call: every value a step of a worker gives it.        *)

USE DEF Budget

InFlightStages == {"opening", "reading"}
WorkStages == InFlightStages \cup {"waiting"}

\* A worker leaves its call with a value of this set.
Worked == {c \in CallType : CallOK(c) /\ c.stage \in WorkStages \cup {"done"}}

LEMMA CallerIs ==
  ASSUME caller \in Callers
  PROVE  /\ caller.late \in {"fallback", "raised"} /\ caller.cut \in {"fallback", "raised"}
         /\ caller.bad \in {"fallback", "raised"}
BY DEF Callers, Batched, Caller, TakesFallback, VerifySameNode, NormalizeEdge, AuditMergeNodes,
       VerifyReplayAction, VerifyReplaySource, SelectExplorationTarget, AuditGraph,
       DescribeExecutedAction, PredictNextAction, PlanNextAction, DescribePageAndState,
       GetEmbedding

\* Every field but the result rewritten.
Moved(c, stage, age, handed, silent, wait, asked, rounds) ==
  [c EXCEPT !.stage = stage, !.age = age, !.handed = handed, !.silent = silent,
            !.wait = wait, !.asked = asked, !.rounds = rounds]

LEMMA FieldsAre ==
  ASSUME NEW c \in CallType
  PROVE  /\ c.stage \in Stages /\ c.age \in Nat /\ c.handed \in Nat /\ c.silent \in 0..Timeout
         /\ c.wait \in Nat /\ c.asked \in 0..2 /\ c.rounds \in 1..2 /\ c.result \in Results
BY DEF CallType, Silences, AskedCounts, RoundCounts

Fields(stage, age, handed, silent, wait, asked, rounds) ==
  /\ stage \in WorkStages /\ age \in Nat /\ handed \in Nat /\ silent \in 0..Timeout /\ wait \in Nat
  /\ asked \in 0..2 /\ rounds \in 1..2
  /\ Within(stage, age, handed, silent, wait)

LEMMA MovedIsWorked ==
  ASSUME NEW c \in CallType, c.result = "none", NEW stage, NEW age, NEW handed,
         NEW silent, NEW wait, NEW asked, NEW rounds,
         Fields(stage, age, handed, silent, wait, asked, rounds)
  PROVE  Moved(c, stage, age, handed, silent, wait, asked, rounds) \in Worked
<1> DEFINE d == Moved(c, stage, age, handed, silent, wait, asked, rounds)
<1>1. /\ stage \in Stages /\ silent \in Silences /\ asked \in AskedCounts
      /\ rounds \in RoundCounts /\ age \in Nat /\ handed \in Nat /\ wait \in Nat
  BY DEF Fields, WorkStages, InFlightStages, Stages, Silences, AskedCounts, RoundCounts
<1>2. /\ d \in CallType /\ d.stage = stage /\ d.age = age /\ d.handed = handed
      /\ d.silent = silent /\ d.wait = wait /\ d.result = c.result
  BY <1>1 DEF CallType, Moved
<1> HIDE DEF d
<1>3. d \in Worked
  <2>1. d.stage \notin {"queued", "cancelled", "done"} /\ d.result = "none"
    BY <1>2 DEF Fields, WorkStages, InFlightStages
  <2>2. Within(d.stage, d.age, d.handed, d.silent, d.wait) /\ d.stage \in WorkStages
    BY <1>2 DEF Fields
  <2> QED BY <1>2, <2>1, <2>2 DEF CallOK, Worked
<1> QED BY <1>3 DEF d

LEMMA NotSentIs == CallOK(NotSent) /\ NotSent.stage = "queued" /\ NotSent.result = "none"
<1>1. /\ "queued" \in Stages /\ "none" \in Results /\ 0 \in Silences /\ 0 \in AskedCounts
      /\ 1 \in RoundCounts
  BY DEF Stages, Results, Silences, AskedCounts, RoundCounts
<1>2. NotSent \in CallType
  BY <1>1 DEF NotSent, CallType
<1> QED BY <1>2 DEF NotSent, CallOK, Within

LEMMA DoneIs ==
  ASSUME NEW r \in {"answered", "fallback", "raised"}
  PROVE  Done(r) \in Worked
<1>1. "done" \in Stages /\ r \in Results
  BY DEF Stages, Results
<1>2. Done(r) \in CallType
  BY <1>1, NotSentIs DEF Done, CallOK, CallType
<1>3. Done(r).stage = "done" /\ Done(r).age = 0 /\ Done(r).result = r
  BY DEF Done, NotSent
<1> QED BY <1>2, <1>3 DEF Worked, CallOK, Within

LEMMA SentIs ==
  ASSUME NEW c \in CallType, CallOK(c), c.stage = "waiting"
  PROVE  Sent(c) \in Worked
<1>1. Sent(c) = Moved(c, "opening", c.age, 0, 0, 0, c.asked, c.rounds)
  BY DEF Sent, Moved, CallType
<1>2. c.result = "none" /\ Fields("opening", c.age, 0, 0, 0, c.asked, c.rounds)
  BY FieldsAre DEF CallOK, Fields, Within, WorkStages, InFlightStages
<1> QED BY <1>1, <1>2, MovedIsWorked

LEMMA AskedIs ==
  ASSUME NEW c \in CallType, c.asked < 2, c.result = "none"
  PROVE  Asked(c) \in Worked /\ Asked(c).stage = "opening" /\ Asked(c).result = "none"
<1>1. Asked(c) = Moved(c, "opening", 0, 0, 0, 0, c.asked + 1, c.rounds)
  BY DEF Asked, Sent, Moved, CallType
<1>2. Asked(c).stage = "opening" /\ Asked(c).result = "none"
  BY DEF Asked, Sent, CallType
<1>3. Fields("opening", 0, 0, 0, 0, c.asked + 1, c.rounds)
  BY FieldsAre DEF Fields, Within, WorkStages, InFlightStages
<1> QED BY <1>1, <1>2, <1>3, MovedIsWorked

LEMMA UsableIs ==
  ASSUME NEW c \in CallType, c.result = "none", NEW r \in {"answered", "fallback", "raised"}
  PROVE  AskedForUsable(c, r) \in Worked
BY AskedIs, DoneIs DEF AskedForUsable

LEMMA TimedOutIs ==
  ASSUME NEW c \in CallType, c.result = "none", caller \in Callers
  PROVE  TimedOut(c) \in Worked
<1>1. CASE "late" \in caller.asks /\ c.rounds = 1
  <2> DEFINE d == [c EXCEPT !.rounds = 2, !.asked = 0]
  <2>1. 2 \in RoundCounts /\ 0 \in AskedCounts
    BY DEF RoundCounts, AskedCounts
  <2>2. d \in CallType /\ d.asked = 0 /\ d.result = "none"
    BY <2>1 DEF CallType
  <2>3. TimedOut(c) = Asked(d)
    BY <1>1 DEF TimedOut
  <2> HIDE DEF d
  <2> QED BY <2>2, <2>3, AskedIs
<1>2. CASE ~("late" \in caller.asks /\ c.rounds = 1)
  BY <1>2, CallerIs, DoneIs DEF TimedOut
<1> QED BY <1>1, <1>2

LEMMA RepliedIs ==
  ASSUME NEW c \in CallType, c.result = "none", caller \in Callers, NEW reply \in Replies
  PROVE  Replied(c, reply) \in Worked
BY CallerIs, UsableIs, DoneIs DEF Replied, Replies

LEMMA ResentIs ==
  ASSUME NEW c \in CallType, c.result = "none", NEW last \in Worked, NEW d \in Resent(c, last)
  PROVE  d \in Worked
<1>1. CASE c.age >= Budget
  BY <1>1 DEF Resent
<1>2. CASE ~(c.age >= Budget)
  <2>1. PICK w \in 1..(Budget - c.age) :
          d = [c EXCEPT !.stage = "waiting", !.silent = 0, !.handed = 0, !.wait = w]
    BY <1>2 DEF Resent, WaitingFor
  <2>2. d = Moved(c, "waiting", c.age, 0, 0, w, c.asked, c.rounds)
    BY <2>1 DEF Moved, CallType
  <2>3. Fields("waiting", c.age, 0, 0, w, c.asked, c.rounds)
    BY FieldsAre DEF Fields, Within, WorkStages
  <2> QED BY <2>2, <2>3, MovedIsWorked
<1> QED BY <1>1, <1>2

LEMMA OpenIs ==
  ASSUME NEW c \in CallType, CallOK(c), c.stage \in WorkStages
  PROVE  c.result = "none"
BY FieldsAre DEF CallOK, WorkStages, InFlightStages

LEMMA TickedIs ==
  ASSUME NEW c \in CallType, CallOK(c), c.stage \in InFlightStages, c.silent < Timeout
  PROVE  Ticked(c) \in Worked
<1> DEFINE age == Later(c.age, Budget)
           handed == IF c.stage = "opening" THEN Later(c.handed, Timeout) ELSE c.handed + 1
<1>1. Ticked(c) = Moved(c, c.stage, age, handed, c.silent + 1, c.wait, c.asked, c.rounds)
  BY DEF Ticked, Moved, CallType
<1>2. Fields(c.stage, age, handed, c.silent + 1, c.wait, c.asked, c.rounds)
  BY FieldsAre DEF CallOK, Fields, Within, WorkStages, InFlightStages, Later
<1>3. c.result = "none"
  BY OpenIs DEF WorkStages
<1> QED BY <1>1, <1>2, <1>3, MovedIsWorked

\* The next operation, a redirect, and the headers, after which the body is read.
LEMMA OpeningIs ==
  ASSUME NEW c \in CallType, CallOK(c), c.stage = "opening"
  PROVE  /\ [c EXCEPT !.silent = 0] \in Worked
         /\ [c EXCEPT !.silent = 0, !.handed = 0] \in Worked
         /\ [c EXCEPT !.stage = "reading", !.silent = 0] \in Worked
<1>1. /\ [c EXCEPT !.silent = 0] = Moved(c, "opening", c.age, c.handed, 0, c.wait, c.asked, c.rounds)
      /\ [c EXCEPT !.silent = 0, !.handed = 0]
           = Moved(c, "opening", c.age, 0, 0, c.wait, c.asked, c.rounds)
      /\ [c EXCEPT !.stage = "reading", !.silent = 0]
           = Moved(c, "reading", c.age, c.handed, 0, c.wait, c.asked, c.rounds)
  BY DEF Moved, CallType
<1>2. /\ Fields("opening", c.age, c.handed, 0, c.wait, c.asked, c.rounds)
      /\ Fields("opening", c.age, 0, 0, c.wait, c.asked, c.rounds)
      /\ Fields("reading", c.age, c.handed, 0, c.wait, c.asked, c.rounds)
  BY FieldsAre DEF CallOK, Fields, Within, WorkStages, InFlightStages
<1>3. c.result = "none"
  BY OpenIs DEF WorkStages, InFlightStages
<1> QED BY <1>1, <1>2, <1>3, MovedIsWorked

LEMMA ChunkIs ==
  ASSUME NEW c \in CallType, CallOK(c), c.stage = "reading", c.handed <= Timeout
  PROVE  [c EXCEPT !.silent = 0] \in Worked
<1>1. [c EXCEPT !.silent = 0]
        = Moved(c, "reading", c.age, c.handed, 0, c.wait, c.asked, c.rounds)
  BY DEF Moved, CallType
<1>2. Fields("reading", c.age, c.handed, 0, c.wait, c.asked, c.rounds)
  BY FieldsAre DEF CallOK, Fields, Within, WorkStages, InFlightStages
<1>3. c.result = "none"
  BY OpenIs DEF WorkStages, InFlightStages
<1> QED BY <1>1, <1>2, <1>3, MovedIsWorked

LEMMA WaitedIs ==
  ASSUME NEW c \in CallType, CallOK(c), c.stage = "waiting", c.wait # 0
  PROVE  Waited(c) \in Worked
<1>1. Waited(c)
        = Moved(c, "waiting", c.age + 1, c.handed, c.silent, c.wait - 1, c.asked, c.rounds)
  BY DEF Waited, Moved, CallType
<1>2. Fields("waiting", c.age + 1, c.handed, c.silent, c.wait - 1, c.asked, c.rounds)
  BY FieldsAre DEF CallOK, Fields, Within, WorkStages
<1>3. c.result = "none"
  BY OpenIs DEF WorkStages
<1> QED BY <1>1, <1>2, <1>3, MovedIsWorked

-----------------------------------------------------------------------------
(* Every step of a worker changes its own call, to a value of Worked.      *)

ChangesOnly(i) ==
  /\ UNCHANGED caller /\ call[i].stage \in WorkStages
  /\ \E d \in Worked : call' = [call EXCEPT ![i] = d]

LEMMA WorkIs ==
  ASSUME CallsInv, NEW i \in Calls, CallStep(i)
  PROVE  ChangesOnly(i)
<1> DEFINE c == call[i]
<1>0. /\ c \in CallType /\ CallOK(c) /\ (c.stage \in WorkStages => c.result = "none")
      /\ caller \in Callers
  BY OpenIs DEF CallsInv
<1>1. CASE Tick(i)
  <2>1. Ticked(c) \in Worked
    BY <1>0, <1>1, TickedIs DEF Tick, InFlight, InFlightStages
  <2>2. call' = [call EXCEPT ![i] = Ticked(c)]
    BY <1>1 DEF Tick
  <2> QED BY <1>1, <2>1, <2>2 DEF ChangesOnly, Tick, InFlight, WorkStages, InFlightStages
<1>2. CASE Continue(i) \/ Redirect(i) \/ Headers(i)
  <2>1. c.stage = "opening" /\ c.stage \in WorkStages /\ UNCHANGED caller
    BY <1>2 DEF Continue, Redirect, Headers, WorkStages, InFlightStages
  <2>2. \/ call' = [call EXCEPT ![i] = [c EXCEPT !.silent = 0]]
        \/ call' = [call EXCEPT ![i] = [c EXCEPT !.silent = 0, !.handed = 0]]
        \/ call' = [call EXCEPT ![i] = [c EXCEPT !.stage = "reading", !.silent = 0]]
    BY <1>2 DEF Continue, Redirect, Headers
  <2> HIDE DEF c
  <2>3. /\ [c EXCEPT !.silent = 0] \in Worked
        /\ [c EXCEPT !.silent = 0, !.handed = 0] \in Worked
        /\ [c EXCEPT !.stage = "reading", !.silent = 0] \in Worked
    BY <1>0, <2>1, OpeningIs
  <2>4. \E d \in Worked : call' = [call EXCEPT ![i] = d]
    BY <2>2, <2>3
  <2> QED BY <2>1, <2>4 DEF ChangesOnly, c
<1>3. CASE Reply(i)
  <2>1. PICK reply \in Replies : call' = [call EXCEPT ![i] = Replied(c, reply)]
    BY <1>3 DEF Reply
  <2>2. UNCHANGED caller /\ c.stage = "reading" /\ c.stage \in WorkStages
    BY <1>3 DEF Reply, WorkStages, InFlightStages
  <2> HIDE DEF c
  <2>3. Replied(c, reply) \in Worked
    BY <1>0, <2>2, RepliedIs
  <2> QED BY <2>1, <2>2, <2>3 DEF ChangesOnly, c
<1>4. CASE Unreachable(i)
  <2>1. PICK d \in Resent(c, Done("raised")) : call' = [call EXCEPT ![i] = d]
    BY <1>4 DEF Unreachable
  <2>2. UNCHANGED caller /\ c.stage \in WorkStages
    BY <1>4 DEF Unreachable, InFlight, InFlightStages, WorkStages
  <2> HIDE DEF c
  <2>3. d \in Worked
    BY <1>0, <2>1, <2>2, DoneIs, ResentIs
  <2> QED BY <2>1, <2>2, <2>3 DEF ChangesOnly, c
<1>5. ASSUME AttemptTimesOut(i), c.stage \in InFlightStages, UNCHANGED caller
      PROVE  ChangesOnly(i)
  <2>1. PICK d \in Resent(c, TimedOut(c)) : call' = [call EXCEPT ![i] = d]
    BY <1>5 DEF AttemptTimesOut
  <2>2. c.stage \in WorkStages
    BY <1>5 DEF WorkStages
  <2> HIDE DEF c
  <2>3. d \in Worked
    BY <1>0, <2>1, <2>2, TimedOutIs, ResentIs
  <2> QED BY <1>5, <2>1, <2>2, <2>3 DEF ChangesOnly, c
<1>6. CASE SilentTimeout(i)
  BY <1>5, <1>6 DEF SilentTimeout, InFlight, InFlightStages
<1>7. CASE Chunk(i)
  <2>1. c.stage = "reading" /\ UNCHANGED caller
    BY <1>7 DEF Chunk
  <2>2. CASE c.handed > Timeout
    BY <1>5, <1>7, <2>1, <2>2 DEF Chunk, Chunked, InFlightStages
  <2>3. CASE ~(c.handed > Timeout)
    <3>1. call' = [call EXCEPT ![i] = [c EXCEPT !.silent = 0]]
      BY <1>7, <2>3 DEF Chunk, Chunked
    <3>2. c.handed <= Timeout
      BY <1>0, <2>3, FieldsAre
    <3>3. [c EXCEPT !.silent = 0] \in Worked
      BY <1>0, <2>1, <3>2, ChunkIs
    <3> QED BY <2>1, <3>1, <3>3 DEF ChangesOnly, WorkStages, InFlightStages
  <2> QED BY <2>2, <2>3
<1>8. CASE Wait(i)
  <2>1. c.stage = "waiting" /\ c.stage \in WorkStages /\ UNCHANGED caller
    BY <1>8 DEF Wait, WorkStages
  <2>2. CASE c.wait = 0
    <3>1. call' = [call EXCEPT ![i] = Sent(c)]
      BY <1>8, <2>2 DEF Wait
    <3> QED BY <1>0, <2>1, <3>1, SentIs DEF ChangesOnly
  <2>3. CASE c.wait # 0
    <3>1. call' = [call EXCEPT ![i] = Waited(c)]
      BY <1>8, <2>3 DEF Wait
    <3> QED BY <1>0, <2>1, <2>3, <3>1, WaitedIs DEF ChangesOnly
  <2> QED BY <2>2, <2>3
<1> QED BY <1>1, <1>2, <1>3, <1>4, <1>6, <1>7, <1>8 DEF CallStep, Progress

-----------------------------------------------------------------------------
(* What a step does to the calls.                                          *)

LEMMA LeastIs ==
  ASSUME NEW S \in SUBSET Nat, S # {}
  PROVE  Least(S) \in S /\ \A j \in S : Least(S) <= j
<1>1. PICK n \in S : \A m \in S : ~(<<m, n>> \in OpToRel(<, Nat))
  BY WFMin, NatLessThanWellFounded
<1>2. \A m \in S : ~(m < n)
  BY <1>1 DEF OpToRel
<1>3. n \in S /\ \A m \in S : n <= m
  BY <1>2
<1> QED BY <1>3 DEF Least

\* A call that is done or cancelled stays as it is.
KeepsSettled == Calls' = Calls /\ \A j \in Calls : Settled(j) => call'[j] = call[j]
CancelsNone == \A j \in Calls : call'[j].stage = "cancelled" => call[j].stage = "cancelled"

LEMMA OneCallChanges ==
  ASSUME CallsInv, NEW i \in Calls, ~Settled(i), NEW d \in CallType, CallOK(d),
         UNCHANGED caller, call' = [call EXCEPT ![i] = d]
  PROVE  /\ CallsInv' /\ KeepsSettled
         /\ call'[i] = d /\ \A j \in Calls \ {i} : call'[j] = call[j]
<1>1. call' \in [Calls -> CallType] /\ Calls' = Calls
  BY DEF CallsInv, Calls
<1>2. call'[i] = d /\ \A j \in Calls \ {i} : call'[j] = call[j]
  BY DEF CallsInv
<1>3. CallsInv'
  <2>1. \A j \in Calls : CallOK(call'[j])
    BY <1>2 DEF CallsInv
  <2>2. \A j \in Calls' : CallOK(call[j])'
    BY <1>1, <2>1 DEF CallOK
  <2> QED BY <1>1, <2>2 DEF CallsInv
<1>4. KeepsSettled
  BY <1>1, <1>2 DEF KeepsSettled
<1> QED BY <1>2, <1>3, <1>4

LEMMA QueuedIsACall ==
  ASSUME CallsInv, Queued # {}
  PROVE  Least(Queued) \in Calls /\ call[Least(Queued)].stage = "queued"
<1>1. Queued \in SUBSET Nat
  <2>1. Queued \subseteq Calls /\ Calls \subseteq 1..Inputs
    BY DEF Queued, CallsInv
  <2> QED BY <2>1
<1> QED BY <1>1, LeastIs DEF Queued

LEMMA RunningIsFinite ==
  ASSUME CallsInv
  PROVE  IsFiniteSet(Running) /\ Cardinality(Running) \in Nat
<1>1. IsFiniteSet(1..Inputs)
  BY FS_Interval
<1>2. Running \subseteq Calls /\ Calls \subseteq 1..Inputs
  BY DEF Running, CallsInv
<1> QED BY <1>1, <1>2, FS_Subset, FS_CardinalityType

LEMMA StartIs ==
  ASSUME CallsInv, Start
  PROVE  /\ CallsInv' /\ KeepsSettled /\ CancelsNone /\ \E i \in Calls : ~Settled(i)
         /\ Cardinality(Running') <= Workers
<1> DEFINE i == Least(Queued)
<1>1. i \in Calls /\ call[i].stage = "queued" /\ call[i] \in CallType /\ CallOK(call[i])
  BY QueuedIsACall DEF Start, CallsInv
<1> HIDE DEF i
<1>2. call[i].asked < 2 /\ call[i].result = "none"
  BY <1>1, FieldsAre DEF CallOK
<1>3. Asked(call[i]) \in Worked /\ Asked(call[i]).stage = "opening"
  BY <1>1, <1>2, AskedIs
<1>4. call' = [call EXCEPT ![i] = Asked(call[i])] /\ UNCHANGED caller
  BY DEF Start, i
<1>5. ~Settled(i)
  BY <1>1 DEF Settled
<1>6. /\ CallsInv' /\ KeepsSettled
      /\ call'[i] = Asked(call[i]) /\ \A j \in Calls \ {i} : call'[j] = call[j]
  BY <1>1, <1>3, <1>4, <1>5, OneCallChanges DEF Worked
<1>7. CancelsNone
  BY <1>3, <1>6 DEF CancelsNone
<1>8. Cardinality(Running') <= Workers
  <2>1. Running' = Running \cup {i} /\ i \notin Running
    BY <1>1, <1>3, <1>6 DEF Running, InFlight, KeepsSettled
  <2>2. Cardinality(Running') = Cardinality(Running) + 1
    BY <2>1, RunningIsFinite, FS_AddElement
  <2> QED BY <2>2, RunningIsFinite DEF Start
<1> QED BY <1>1, <1>5, <1>6, <1>7, <1>8

LEMMA WorkerIs ==
  ASSUME CallsInv, NEW i \in Calls, Work(i), Cardinality(Running) <= Workers
  PROVE  /\ CallsInv' /\ KeepsSettled /\ CancelsNone /\ ~Settled(i)
         /\ Cardinality(Running') <= Workers
<1>1. ChangesOnly(i)
  BY WorkIs DEF Work
<1>2. PICK d \in Worked : call' = [call EXCEPT ![i] = d]
  BY <1>1 DEF ChangesOnly
<1>3. call[i].stage \in WorkStages /\ UNCHANGED caller /\ ~Settled(i)
  BY <1>1 DEF ChangesOnly, WorkStages, InFlightStages, Settled
<1>4. /\ CallsInv' /\ KeepsSettled
      /\ call'[i] = d /\ \A j \in Calls \ {i} : call'[j] = call[j]
  BY <1>2, <1>3, OneCallChanges DEF Worked
<1>5. CancelsNone
  BY <1>4 DEF CancelsNone, Worked, WorkStages, InFlightStages
<1>6. Cardinality(Running') <= Workers
  <2>1. Running' \in SUBSET Running
    BY <1>3, <1>4 DEF Running, InFlight, KeepsSettled, WorkStages, InFlightStages
  <2>2. Cardinality(Running') <= Cardinality(Running) /\ Cardinality(Running') \in Nat
    BY <2>1, RunningIsFinite, FS_Subset, FS_CardinalityType
  <2> QED BY <2>2, RunningIsFinite
<1> QED BY <1>3, <1>4, <1>5, <1>6

LEMMA CancelIs ==
  ASSUME CallsInv, NEW i \in Calls, call' = Cancelled(i), UNCHANGED caller
  PROVE  CallsInv' /\ KeepsSettled /\ Running' = Running
<1>1. CASE call[i].stage = "queued"
  <2> DEFINE d == [call[i] EXCEPT !.stage = "cancelled"]
  <2>1. "cancelled" \in Stages /\ call[i] \in CallType /\ CallOK(call[i])
    BY DEF Stages, CallsInv
  <2>2. d \in CallType /\ d.stage = "cancelled" /\ d.age = call[i].age /\ d.result = call[i].result
    BY <2>1 DEF CallType
  <2>3. call' = [call EXCEPT ![i] = d]
    BY <1>1 DEF Cancelled
  <2> HIDE DEF d
  <2>4. CallOK(d)
    BY <1>1, <2>1, <2>2 DEF CallOK, Within
  <2>5. ~Settled(i)
    BY <1>1 DEF Settled
  <2>6. /\ CallsInv' /\ KeepsSettled
        /\ call'[i] = d /\ \A j \in Calls \ {i} : call'[j] = call[j]
    BY <2>2, <2>3, <2>4, <2>5, OneCallChanges
  <2>7. Running' = Running
    BY <1>1, <2>2, <2>6 DEF Running, InFlight, KeepsSettled
  <2> QED BY <2>6, <2>7
<1>2. CASE call[i].stage # "queued"
  <2>1. call' = [call EXCEPT ![i].stage = call[i].stage]
    BY <1>2 DEF Cancelled
  <2>2. call[i] = [call[i] EXCEPT !.stage = call[i].stage]
    BY DEF CallsInv, CallType
  <2>3. call' = call
    BY <2>1, <2>2 DEF CallsInv
  <2> QED BY <2>3 DEF CallsInv, KeepsSettled, Running, InFlight, Calls, CallOK, CallType
<1> QED BY <1>1, <1>2

-----------------------------------------------------------------------------
(* Every step of the pool keeps the invariant.                             *)

USE DEF main

LEMMA SettledIs ==
  ASSUME CallsInv, NEW i \in Calls
  PROVE  /\ Settled(i) <=> call[i].stage \notin WorkStages \cup {"queued"}
         /\ call[i].result # "none" <=> call[i].stage = "done"
         /\ call[i].result \in Results
         /\ Settled(i) <=> i \notin Running \cup Queued
BY FieldsAre DEF CallsInv, CallOK, Settled, Stages, WorkStages, InFlightStages, Running, InFlight,
                 Queued

LEMMA ReachedIs ==
  ASSUME BatchInv
  PROVE  /\ \A i \in Calls : i \in Nat /\ i # 0
         /\ next \in Nat /\ error \in Nat /\ Reached \in Nat
         /\ error = 0 => Reached = next
         /\ phase # "cancel" => Reached = next
         /\ next \notin Calls => \A i \in Calls : i < next
BY DEF BatchInv, Reached

LEMMA CallsChange ==
  ASSUME CallsInv, BatchInv, CollectedInv, CallsInv', KeepsSettled, CancelsNone,
         \E i \in Calls : ~Settled(i), UNCHANGED main
  PROVE  BatchInv' /\ CollectedInv'
<1>1. Calls' = Calls /\ \A i \in Calls : Settled(i) => call'[i] = call[i] /\ Settled(i)'
  BY DEF KeepsSettled, Settled
<1>2. BatchInv'
  BY <1>1 DEF BatchInv
<1>3. ASSUME cut = "none"
      PROVE  /\ phase \in {"shutdown", "ended"} => next \notin Calls
             /\ \A i \in Calls : i < Reached => Settled(i)'
             /\ AppliedInv' /\ FailureInv'
  <2>0. Reached' = Reached /\ Applied' = Applied
    BY DEF Reached, Applied
  <2>1. \A i \in Calls : i < Reached => Settled(i) /\ Settled(i)' /\ call'[i] = call[i]
    BY <1>1, <1>3 DEF CollectedInv
  <2>2. AppliedInv'
    BY <1>1, <1>3, <2>0, <2>1 DEF CollectedInv, AppliedInv, Increasing
  <2>3. ASSUME error = 0
        PROVE  FailureInv'
    BY <1>1, <1>3, <2>0, <2>1, <2>3, ReachedIs DEF CollectedInv, FailureInv, CancelsNone
  <2>4. ASSUME error # 0
        PROVE  FailureInv'
    <3>1. error \in Calls /\ call[error].result = "raised"
      BY <1>3, <2>4 DEF CollectedInv, FailureInv, BatchInv
    <3>2. call'[error] = call[error]
      BY <1>1, <3>1, SettledIs DEF Settled
    <3>3. \A i \in Calls : i < error => i < Reached
      BY <1>3, <2>4, ReachedIs DEF CollectedInv, FailureInv, Reached
    <3> QED BY <1>1, <1>3, <2>1, <2>4, <3>1, <3>2, <3>3 DEF CollectedInv, FailureInv
  <2> QED BY <1>1, <1>3, <2>0, <2>1, <2>2, <2>3, <2>4 DEF CollectedInv
<1>4. Reached' = Reached /\ cut' = cut /\ phase' = phase /\ next' = next
  BY DEF Reached
<1> QED BY <1>1, <1>2, <1>3, <1>4 DEF CollectedInv

\* The steps of the calling thread that change no call.
LEMMA Unchanged ==
  ASSUME CallsInv, UNCHANGED <<caller, call>>
  PROVE  /\ CallsInv' /\ Calls' = Calls /\ Running' = Running
         /\ \A i \in Calls : Settled(i)' = Settled(i)
BY DEF CallsInv, Calls, CallOK, Running, InFlight, Settled

LEMMA DoneIsAfterSettled ==
  ASSUME CallsInv, BatchInv, CollectedInv, cut = "none", phase = "collect", next \in Calls, Settled(next)
  PROVE  /\ \A i \in Calls : i < next + 1 => Settled(i)
         /\ \A i \in Calls : i < next + 1 <=> i < next \/ i = next
         /\ next + 1 \in Nat /\ \A n \in Nat : Calls = 1..n => next + 1 \in 1..(n + 1)
<1>1. \A i \in Calls : i < next => Settled(i)
  BY DEF CollectedInv, Reached
<1> QED BY <1>1, ReachedIs

LEMMA SkipStep ==
  ASSUME CallsInv, BatchInv, CollectedInv, Skip
  PROVE  BatchInv' /\ CollectedInv'
<1>1. /\ phase = "collect" /\ next \in Calls /\ call[next].stage = "cancelled" /\ next' = next + 1
      /\ UNCHANGED <<caller, call, phase, error, cut, applied>>
  BY DEF Skip
<1>2. Settled(next) /\ call[next].result \notin Usable /\ call[next].result # "raised"
  BY <1>1, SettledIs DEF Settled, Usable
<1>3. BatchInv'
  BY <1>1, Unchanged DEF BatchInv
<1>4. ASSUME cut = "none"
      PROVE  CollectedInv'
  <2>1. \A i \in Calls : i < next + 1 => Settled(i)'
    BY <1>1, <1>2, <1>4, DoneIsAfterSettled, Unchanged
  <2>2. Reached = next /\ Reached' = next + 1
    BY <1>1 DEF Reached
  <2>3. AppliedInv'
    BY <1>1, <1>2, <1>4, <2>2, DoneIsAfterSettled, Unchanged
    DEF CollectedInv, AppliedInv, Increasing, Applied
  <2>4. error # 0 /\ error < next + 1
    BY <1>1, <1>4, ReachedIs DEF CollectedInv, FailureInv
  <2>5. FailureInv'
    BY <1>1, <1>4, <2>4, Unchanged, ReachedIs DEF CollectedInv, FailureInv
  <2> QED BY <1>1, <2>1, <2>2, <2>3, <2>5, Unchanged DEF CollectedInv
<1> QED BY <1>1, <1>3, <1>4 DEF CollectedInv

LEMMA AppendIs ==
  ASSUME applied \in Seq(Calls), next \in Calls, applied' = Append(applied, next),
         \A j \in DOMAIN applied : applied[j] < next, Calls \subseteq Nat, Increasing
  PROVE  Applied' = Applied \cup {next} /\ Increasing'
<1>1. /\ Len(applied') = Len(applied) + 1 /\ applied'[Len(applied) + 1] = next
      /\ \A j \in 1..Len(applied) : applied'[j] = applied[j]
      /\ DOMAIN applied = 1..Len(applied) /\ DOMAIN applied' = 1..(Len(applied) + 1)
      /\ Len(applied) \in Nat
  OBVIOUS
<1>2. Applied' = Applied \cup {next}
  BY <1>1 DEF Applied
<1>3. Increasing'
  <2> SUFFICES ASSUME NEW j \in 1..Len(applied)
               PROVE  applied'[j] < applied'[j + 1]
    BY <1>1 DEF Increasing
  <2>1. CASE j = Len(applied)
    BY <1>1, <2>1
  <2>2. CASE j # Len(applied)
    <3> DEFINE n == Len(applied)
    <3>1. n \in Nat /\ j \in 1..n /\ j # n
      BY <1>1, <2>2
    <3> HIDE DEF n
    <3>2. j \in 1..n - 1 /\ j + 1 \in 1..n
      BY <3>1
    <3> QED BY <1>1, <3>2 DEF Increasing, n
  <2> QED BY <2>1, <2>2
<1> QED BY <1>2, <1>3

\* The input after one of the batch is the next of it or the end.
LEMMA NextIsInRange ==
  ASSUME BatchInv, next \in Calls
  PROVE  \E n \in 0..Inputs : Calls = 1..n /\ next + 1 \in 1..(n + 1)
<1>1. PICK n \in 0..Inputs : Calls = 1..n
  BY DEF BatchInv
<1>2. next + 1 \in 1..(n + 1)
  BY <1>1
<1> QED BY <1>1, <1>2

LEMMA ApplyStep ==
  ASSUME CallsInv, BatchInv, CollectedInv, Apply
  PROVE  BatchInv' /\ CollectedInv'
<1>1. /\ phase = "collect" /\ next \in Calls /\ call[next].stage = "done"
      /\ call[next].result # "raised" /\ next' = next + 1 /\ applied' = Append(applied, next)
      /\ UNCHANGED <<caller, call, phase, error, cut>>
  BY DEF Apply
<1>2. Settled(next) /\ call[next].result \in Usable
  BY <1>1, SettledIs DEF Settled, Usable, Results
<1>3. BatchInv'
  <2>1. applied' \in Seq(Calls)
    BY <1>1 DEF BatchInv
  <2>2. BatchInv /\ Calls' = Calls /\ \A i \in Calls : Settled(i)' = Settled(i)
    BY <1>1, Unchanged
  <2> QED BY <1>1, <2>1, <2>2, NextIsInRange DEF BatchInv
<1>4. ASSUME cut = "none"
      PROVE  CollectedInv'
  <2>1. \A i \in Calls : i < next + 1 => Settled(i)'
    BY <1>1, <1>2, <1>4, DoneIsAfterSettled, Unchanged
  <2>2. Reached = next /\ Reached' = next + 1
    BY <1>1 DEF Reached
  <2>3. AppliedInv'
    <3>1. \A j \in DOMAIN applied : applied[j] < next
      BY <1>4, <2>2 DEF CollectedInv, AppliedInv, Applied
    <3>2. Applied' = Applied \cup {next} /\ Increasing'
      BY <1>1, <1>4, <3>1, AppendIs, ReachedIs DEF BatchInv, CollectedInv, AppliedInv
    <3>3. Applied = {i \in Calls : i < next /\ call[i].result \in Usable}
      BY <1>4, <2>2 DEF CollectedInv, AppliedInv
    <3>4. Applied' = {i \in Calls : i < next + 1 /\ call[i].result \in Usable}
      BY <1>1, <1>2, <1>4, <3>2, <3>3, DoneIsAfterSettled
    <3> QED BY <1>1, <2>2, <3>2, <3>4, Unchanged DEF AppliedInv
  <2>4. FailureInv'
    BY <1>1, <1>2, <1>4, Unchanged, ReachedIs, DoneIsAfterSettled DEF CollectedInv, FailureInv
  <2> QED BY <1>1, <2>1, <2>2, <2>3, <2>4, Unchanged DEF CollectedInv
<1> QED BY <1>1, <1>3, <1>4 DEF CollectedInv

LEMMA FailStep ==
  ASSUME CallsInv, BatchInv, CollectedInv, Fail
  PROVE  BatchInv' /\ CollectedInv'
<1>1. /\ phase = "collect" /\ next \in Calls /\ call[next].result = "raised"
      /\ UNCHANGED <<caller, call, cut, applied>>
  BY DEF Fail
<1>2. Settled(next) /\ call[next].result \notin Usable
  BY <1>1, SettledIs DEF Settled, Usable
<1>3. CASE error = 0
  <2>1. phase' = "cancel" /\ next' = next /\ error' = next
    BY <1>3 DEF Fail, AfterFailure, FirstError
  <2>2. BatchInv'
    BY <1>1, <2>1, Unchanged, ReachedIs DEF BatchInv
  <2>3. ASSUME cut = "none"
        PROVE  CollectedInv'
    <3>1. Reached = next /\ Reached' = next /\ next # 0
      BY <1>1, <2>1, ReachedIs DEF Reached
    <3>2. AppliedInv'
      BY <1>1, <2>3, <3>1, Unchanged DEF CollectedInv, AppliedInv, Increasing, Applied
    <3>3. FailureInv'
      BY <1>1, <1>3, <2>1, <2>3, <3>1, Unchanged, ReachedIs DEF CollectedInv, FailureInv
    <3> QED BY <1>1, <2>1, <2>3, <3>1, <3>2, <3>3, Unchanged DEF CollectedInv
  <2> QED BY <1>1, <2>2, <2>3 DEF CollectedInv
<1>4. CASE error # 0
  <2>1. phase' = phase /\ next' = next + 1 /\ error' = error
    BY <1>4 DEF Fail, AfterFailure, FirstError
  <2>2. BatchInv'
    <3>1. BatchInv /\ Calls' = Calls /\ \A i \in Calls : Settled(i)' = Settled(i)
      BY <1>1, Unchanged
    <3> QED BY <1>1, <2>1, <3>1, NextIsInRange DEF BatchInv
  <2>3. ASSUME cut = "none"
        PROVE  CollectedInv'
    <3>1. Reached = next /\ Reached' = next + 1
      BY <1>1, <2>1, ReachedIs DEF Reached
    <3>2. \A i \in Calls : i < next + 1 => Settled(i)'
      BY <1>1, <1>2, <2>3, DoneIsAfterSettled, Unchanged
    <3>3. AppliedInv'
      BY <1>1, <1>2, <2>3, <3>1, DoneIsAfterSettled, Unchanged
      DEF CollectedInv, AppliedInv, Increasing, Applied
    <3>4. FailureInv'
      BY <1>1, <1>4, <2>1, <2>3, Unchanged, ReachedIs DEF CollectedInv, FailureInv
    <3> QED BY <1>1, <2>1, <3>1, <3>2, <3>3, <3>4, Unchanged DEF CollectedInv
  <2> QED BY <1>1, <2>2, <2>3 DEF CollectedInv
<1> QED BY <1>3, <1>4

LEMMA CancelRestStep ==
  ASSUME CallsInv, BatchInv, CollectedInv, CancelRest
  PROVE  CallsInv' /\ Running' = Running /\ BatchInv' /\ CollectedInv'
<1>1. /\ phase = "cancel" /\ call' = Cancelled(next)
      /\ IF next + 1 \in Calls THEN next' = next + 1 /\ phase' = phase
         ELSE next' = error + 1 /\ phase' = "collect"
      /\ UNCHANGED <<caller, error, cut, applied>>
  BY DEF CancelRest
<1>2. error # 0 /\ error \in Calls /\ next \in Calls /\ error <= next
  BY <1>1 DEF BatchInv
<1>3. CallsInv' /\ KeepsSettled /\ Running' = Running
  BY <1>1, <1>2, CancelIs
<1>4. Calls' = Calls /\ \A i \in Calls : Settled(i) => call'[i] = call[i] /\ Settled(i)'
  BY <1>3 DEF KeepsSettled, Settled
<1>5. BatchInv'
  <2>1. \E n \in 0..Inputs : Calls' = 1..n /\ next' \in 1..(n + 1)
    <3>1. PICK n \in 0..Inputs : Calls = 1..n
      BY DEF BatchInv
    <3>2. next' \in 1..(n + 1)
      BY <1>1, <1>2, <3>1
    <3> QED BY <1>4, <3>1, <3>2
  <2>2. /\ phase' \in {"collect", "cancel"} /\ error' \in Calls' \cup {0}
        /\ cut' = cut /\ applied' = applied
    BY <1>1, <1>2, <1>4
  <2>3. phase' = "cancel" => error' # 0 /\ next' \in Calls' /\ error' <= next'
    <3> SUFFICES ASSUME phase' = "cancel"
                 PROVE  error' # 0 /\ next' \in Calls' /\ error' <= next'
      OBVIOUS
    <3>1. next' = next + 1 /\ next + 1 \in Calls /\ error' = error
      BY <1>1
    <3> QED BY <1>2, <1>4, <3>1, ReachedIs
  <2> QED BY <1>4, <2>1, <2>2, <2>3 DEF BatchInv
<1>6. ASSUME cut = "none"
      PROVE  CollectedInv'
  <2>1. /\ call[error].result = "raised" /\ Reached = error
        /\ \A i \in Calls : i < error => Settled(i) /\ call[i].result # "raised"
    BY <1>1, <1>2, <1>6 DEF CollectedInv, FailureInv, Reached
  <2>2. Settled(error)
    BY <1>2, <2>1, SettledIs DEF Settled
  <2>3. Reached' \in {error, error + 1}
    BY <1>1 DEF Reached
  <2>4. \A i \in Calls : i < Reached' => i < error \/ i = error
    BY <1>2, <2>3, ReachedIs
  <2>5. \A i \in Calls : i < Reached' => Settled(i)' /\ call'[i] = call[i]
    BY <1>4, <2>1, <2>2, <2>4
  <2>6. AppliedInv'
    <3>1. Applied = {i \in Calls : i < error /\ call[i].result \in Usable}
      BY <1>6, <2>1 DEF CollectedInv, AppliedInv
    <3>2. \A i \in Calls : i < error => i < Reached'
      BY <2>3, ReachedIs
    <3>3. Applied' = {i \in Calls : i < Reached' /\ call'[i].result \in Usable}
      BY <1>1, <2>1, <2>4, <2>5, <3>1, <3>2 DEF Applied, Usable
    <3> QED BY <1>1, <1>4, <1>6, <3>3 DEF AppliedInv, CollectedInv, Increasing
  <2>7. FailureInv'
    <3>1. error < next' \/ (phase' = "cancel" /\ error <= next')
      BY <1>1, <1>2, ReachedIs
    <3>2. error <= next' /\ (phase' # "cancel" => error < next')
      BY <1>1, <1>2, <3>1, ReachedIs
    <3>3. call'[error] = call[error] /\ \A i \in Calls : i < error => call'[i] = call[i]
      BY <1>2, <1>4, <2>1, <2>2
    <3> QED BY <1>1, <1>2, <1>4, <2>1, <3>2, <3>3 DEF FailureInv
  <2> QED BY <1>1, <1>4, <2>5, <2>6, <2>7 DEF CollectedInv
<1> QED BY <1>1, <1>3, <1>5, <1>6 DEF CollectedInv

LEMMA DrainStep ==
  ASSUME CallsInv, BatchInv, CollectedInv, Drain
  PROVE  CallsInv' /\ Running' = Running /\ BatchInv' /\ CollectedInv'
<1> DEFINE i == Least(Queued)
<1>1. /\ phase = "shutdown" /\ call' = Cancelled(i) /\ UNCHANGED <<caller, main>>
      /\ i \in Calls /\ call[i].stage = "queued"
  BY QueuedIsACall DEF Drain
<1> HIDE DEF i
<1>2. CallsInv' /\ KeepsSettled /\ Running' = Running
  BY <1>1, CancelIs
<1>3. cut # "none"
  BY <1>1, ReachedIs DEF CollectedInv, Settled
<1>4. BatchInv'
  BY <1>1, <1>2 DEF BatchInv, KeepsSettled
<1> QED BY <1>1, <1>2, <1>3, <1>4 DEF CollectedInv

LEMMA LeavingStep ==
  ASSUME CallsInv, BatchInv, CollectedInv, Collected \/ Throw \/ ShutDown \/ Abandon
  PROVE  BatchInv' /\ CollectedInv'
<1>1. CASE Collected
  <2>1. BatchInv'
    BY <1>1, Unchanged DEF Collected, BatchInv
  <2>2. Reached' = Reached
    BY <1>1 DEF Collected, Reached
  <2> QED BY <1>1, <2>1, <2>2, Unchanged
          DEF Collected, CollectedInv, AppliedInv, Increasing, Applied, FailureInv
<1>2. CASE Throw
  <2>1. cut' = "loop" /\ phase' = "shutdown" /\ UNCHANGED <<caller, call, next, error, applied>>
    BY <1>2 DEF Throw
  <2> QED BY <2>1, Unchanged DEF BatchInv, CollectedInv
<1>3. CASE ShutDown
  <2>1. /\ phase = "shutdown" /\ phase' = "ended" /\ \A i \in Calls : Settled(i)
        /\ UNCHANGED <<caller, call, next, error, cut, applied>>
    BY <1>3, SettledIs DEF ShutDown, ShutDownWaited
  <2>2. BatchInv' /\ Reached' = Reached
    BY <2>1, Unchanged DEF BatchInv, Reached
  <2> QED BY <2>1, <2>2, Unchanged
          DEF CollectedInv, AppliedInv, Increasing, Applied, FailureInv
<1>4. CASE Abandon
  <2>1. cut' = "shutdown" /\ phase' = "ended" /\ UNCHANGED <<caller, call, next, error, applied>>
    BY <1>4 DEF Abandon
  <2> QED BY <2>1, Unchanged DEF BatchInv, CollectedInv
<1> QED BY <1>1, <1>2, <1>3, <1>4

-----------------------------------------------------------------------------
(* The invariant, and what follows from it.                                *)

LEMMA InitIsInv == Init => PoolInv
<1> SUFFICES ASSUME Init PROVE PoolInv
  OBVIOUS
<1>1. PICK n \in 0..Inputs : call = [i \in 1..n |-> NotSent]
  BY DEF Init, RequestsInit
<1>2. Calls = 1..n
  BY <1>1 DEF Calls
<1>3. \A i \in Calls : call[i] = NotSent
  BY <1>1, <1>2
<1>4. CallsInv
  <2>1. Calls \subseteq 1..Inputs
    BY <1>2
  <2>2. call \in [Calls -> CallType] /\ \A i \in Calls : CallOK(call[i])
    BY <1>1, <1>2, <1>3, NotSentIs DEF CallOK
  <2> QED BY <2>1, <2>2 DEF CallsInv, Init, RequestsInit
<1>5. BatchInv
  <2>1. Calls = 1..n /\ next \in 1..(n + 1)
    BY <1>2 DEF Init
  <2>2. applied \in Seq(Calls)
    BY DEF Init
  <2> QED BY <2>1, <2>2 DEF BatchInv, Init
<1>6. CollectedInv
  <2>1. Reached = 1 /\ \A i \in Calls : ~(i < 1)
    BY <1>2 DEF Init, Reached
  <2>2. AppliedInv
    BY <2>1 DEF AppliedInv, Increasing, Applied, Init
  <2>3. FailureInv
    BY <1>3, <2>1, NotSentIs DEF FailureInv, Init
  <2> QED BY <2>1, <2>2, <2>3 DEF CollectedInv, Init
<1>7. WorkersInv
  <2>1. Running = {}
    BY <1>3, NotSentIs DEF Running, InFlight
  <2> QED BY <2>1, FS_EmptySet DEF WorkersInv
<1> QED BY <1>4, <1>5, <1>6, <1>7 DEF PoolInv

LEMMA NextKeepsInv == PoolInv /\ [Next]_poolVars => PoolInv'
<1> SUFFICES ASSUME PoolInv, [Next]_poolVars PROVE PoolInv'
  OBVIOUS
<1> USE DEF PoolInv, WorkersInv
<1>1. CASE Start
  <2>1. UNCHANGED main
    BY <1>1 DEF Start
  <2> QED BY <1>1, <2>1, StartIs, CallsChange
<1>2. ASSUME NEW i \in Calls, Work(i)
      PROVE  PoolInv'
  <2>1. UNCHANGED main
    BY <1>2 DEF Work
  <2> QED BY <1>2, <2>1, WorkerIs, CallsChange
<1>3. ASSUME Skip \/ Apply \/ Fail \/ Collected \/ Throw \/ ShutDown \/ Abandon
      PROVE  PoolInv'
  <2>1. UNCHANGED <<caller, call>>
    BY <1>3 DEF Skip, Apply, Fail, Collected, Throw, ShutDown, Abandon
  <2>2. CallsInv' /\ WorkersInv'
    BY <2>1, Unchanged
  <2>3. BatchInv' /\ CollectedInv'
    BY <1>3, SkipStep, ApplyStep, FailStep, LeavingStep
  <2> QED BY <2>2, <2>3
<1>4. CASE CancelRest
  BY <1>4, CancelRestStep
<1>5. CASE Drain
  BY <1>5, DrainStep
<1>6. CASE UNCHANGED poolVars
  <2>1. UNCHANGED <<caller, call, main>>
    BY <1>6 DEF poolVars
  <2>2. CallsInv' /\ WorkersInv'
    BY <2>1, Unchanged
  <2>3. BatchInv' /\ Reached' = Reached
    BY <2>1, Unchanged DEF BatchInv, Reached
  <2>4. CollectedInv'
    BY <2>1, <2>3, Unchanged DEF CollectedInv, AppliedInv, Increasing, Applied, FailureInv
  <2> QED BY <2>2, <2>3, <2>4
<1> QED BY <1>1, <1>2, <1>3, <1>4, <1>5, <1>6 DEF Next, CallingThread, Ended

THEOREM PoolKeepsInv == Spec => []PoolInv
<1>1. Init => PoolInv
  BY InitIsInv
<1>2. PoolInv /\ [Next]_poolVars => PoolInv'
  BY NextKeepsInv
<1> QED BY <1>1, <1>2, PTL DEF Spec

(* Types: every call keeps its shape, a model is asked at most twice for   *)
(* usable output, and no more calls run than the pool has workers          *)
(* (MAX_REQUESTS_IN_FLIGHT).                                               *)
THEOREM CallTypes == Spec => []TypeOK
<1>1. PoolInv => TypeOK
  <2> SUFFICES ASSUME PoolInv PROVE TypeOK
    OBVIOUS
  <2>1. CallsTypeOK
    BY DEF PoolInv, CallsInv, CallsTypeOK, CallType, Stages, Silences, AskedCounts, RoundCounts,
           Results
  <2>2. next \in 1..Inputs + 1
    BY DEF PoolInv, BatchInv
  <2> QED BY <2>1, <2>2 DEF PoolInv, BatchInv, WorkersInv, TypeOK
<1> QED BY <1>1, PoolKeepsInv, PTL

(* Every wait of send_within_deadline is over by the deadline of its       *)
(* request, so it sends no attempt after it.                               *)
THEOREM AttemptsStartInTime == Spec => []NoAttemptAfterTheDeadline
<1>1. PoolInv => NoAttemptAfterTheDeadline
  BY DEF PoolInv, CallsInv, CallOK, Within, NoAttemptAfterTheDeadline
<1> QED BY <1>1, PoolKeepsInv, PTL

(* Once its headers have come, a response is over in bounded time, however *)
(* the provider trickles its body.                                         *)
THEOREM ResponsesAreBounded == Spec => []ResponsesEndInTime
<1>1. PoolInv => ResponsesEndInTime
  <2> SUFFICES ASSUME PoolInv, NEW i \in Calls, call[i].stage = "reading"
               PROVE  call[i].handed <= (Timeout + 1) + Timeout
    BY DEF ResponsesEndInTime
  <2>1. call[i] \in CallType /\ CallOK(call[i])
    BY DEF PoolInv, CallsInv
  <2> QED BY <2>1, FieldsAre DEF CallOK, Within
<1> QED BY <1>1, PoolKeepsInv, PTL

(* Once call_concurrently has returned or raised, no call runs or is left, *)
(* unless an interrupt cut the pool's shutdown short.                      *)
THEOREM NothingIsLeftRunning == Spec => []NothingRunsAfterwards
<1>1. PoolInv => NothingRunsAfterwards
  BY SettledIs DEF PoolInv, BatchInv, NothingRunsAfterwards, Running, Queued
<1> QED BY <1>1, PoolKeepsInv, PTL

(* A call_concurrently that is not cut short applied every result that did *)
(* not fail, in input order, and raises the failure of the first input     *)
(* that failed, whatever order the calls returned in.                      *)
THEOREM AnswersAreApplied == Spec => []EveryAnswerIsApplied
<1>1. PoolInv => EveryAnswerIsApplied
  <2> SUFFICES ASSUME PoolInv, phase = "ended", cut = "none"
               PROVE  /\ \A j \in 1..Len(applied) - 1 : applied[j] < applied[j + 1]
                      /\ {applied[j] : j \in DOMAIN applied} =
                           {i \in Calls : call[i].result \in {"answered", "fallback"}}
                      /\ error = 0 => \A i \in Calls : call[i].stage = "done"
                      /\ error # 0 => error = Least({i \in Calls : call[i].result = "raised"})
    BY DEF EveryAnswerIsApplied
  <2>1. /\ \A i \in Calls : i < next /\ i < Reached /\ Settled(i) /\ i \in Nat
        /\ AppliedInv /\ FailureInv /\ Reached = next
    BY ReachedIs DEF PoolInv, CollectedInv
  <2>2. \A j \in 1..Len(applied) - 1 : applied[j] < applied[j + 1]
    BY <2>1 DEF AppliedInv, Increasing
  <2>3. {applied[j] : j \in DOMAIN applied} =
          {i \in Calls : call[i].result \in {"answered", "fallback"}}
    BY <2>1 DEF AppliedInv, Applied, Usable
  <2>4. error = 0 => \A i \in Calls : call[i].stage = "done"
    BY <2>1 DEF FailureInv, Settled
  <2>5. ASSUME error # 0
        PROVE  error = Least({i \in Calls : call[i].result = "raised"})
    <3> DEFINE S == {i \in Calls : call[i].result = "raised"}
    <3>1. S \in SUBSET Nat /\ error \in S
      BY <2>1, <2>5 DEF FailureInv, PoolInv, BatchInv
    <3>2. \A i \in S : ~(i < error)
      BY <2>1, <2>5 DEF FailureInv
    <3> HIDE DEF S
    <3>3. Least(S) \in S /\ Least(S) <= error
      BY <3>1, LeastIs
    <3>4. Least(S) \in Nat /\ error \in Nat /\ ~(Least(S) < error)
      BY <3>1, <3>2, <3>3
    <3> HIDE DEF Least
    <3>5. Least(S) = error
      BY <3>3, <3>4
    <3> QED BY <3>5 DEF S
  <2> QED BY <2>2, <2>3, <2>4, <2>5
<1> QED BY <1>1, PoolKeepsInv, PTL
=============================================================================
