------------------------------ MODULE Requests ------------------------------
(***************************************************************************)
(* Calls of a model: send_within_deadline, call_with_retry and the         *)
(* transport that ends a response at its timeout (retrying.py), and what   *)
(* the callers in utils/vlm_utils.py make of a call that failed.           *)
(*                                                                         *)
(* Time is counted in ticks of a call's own clock; the least wait of the   *)
(* backoff is one tick.  What the provider does is a free choice, the time *)
(* it takes over the headers of its response included.                     *)
(***************************************************************************)
EXTENDS Integers

CONSTANTS
  Inputs, \* bound: the most inputs of a batch of calls
  Timeout \* request_timeout: httpx's timeout of each operation of an attempt

ASSUME RequestsAssumption == Inputs \in Nat /\ Timeout \in Nat \ {0}

VARIABLES
  caller, \* the function that makes the calls
  call    \* for each call: where it stands, and its clocks

-----------------------------------------------------------------------------
(* The callers: which failures they ask once more for, and whether a       *)
(* request that is too late, a reply that is cut off or one they cannot    *)
(* use then raises or gives them a fallback: no answer, the instruction as *)
(* it is, no issue, no choice, a wait.                                     *)
Caller(asks, late, cut, bad) == [asks |-> asks, late |-> late, cut |-> cut, bad |-> bad]
TakesFallback == Caller({}, "fallback", "fallback", "fallback")

VerifySameNode == Caller({"late"}, "fallback", "fallback", "fallback")
NormalizeEdge == TakesFallback
AuditMergeNodes == TakesFallback
VerifyReplayAction == TakesFallback
VerifyReplaySource == TakesFallback
SelectExplorationTarget == TakesFallback
AuditGraph == TakesFallback
DescribeExecutedAction == TakesFallback
PredictNextAction == Caller({"bad"}, "fallback", "fallback", "fallback")
PlanNextAction == Caller({}, "raised", "raised", "fallback")
DescribePageAndState == Caller({"bad"}, "raised", "raised", "raised")
GetEmbedding == Caller({"bad"}, "raised", "raised", "raised")

\* Only these are sent in batches; any other call is a batch of one.
Batched == {VerifySameNode, NormalizeEdge, AuditMergeNodes}
Callers == Batched \cup
  {VerifyReplayAction, VerifyReplaySource, SelectExplorationTarget, AuditGraph,
   DescribeExecutedAction, PredictNextAction, PlanNextAction, DescribePageAndState,
   GetEmbedding}

Calls == DOMAIN call
Budget == 2 * Timeout

\* stage: "queued", "cancelled", an attempt "opening" (up to the headers of its response) or
\* "reading" the body, "waiting" to send again, or "done".  age: ticks since the first attempt
\* of this request; handed: since the transport was handed the attempt, or its latest
\* redirect; silent: since the last operation of the connection; asked: the requests sent for
\* usable output; rounds: the verifier's; result: of a call that is done.  Any age after the
\* deadline, and any time the headers take after the timeout, is one tick after it.
NotSent == [stage |-> "queued", age |-> 0, handed |-> 0, silent |-> 0, wait |-> 0,
            asked |-> 0, rounds |-> 1, result |-> "none"]
Sent(c) == [c EXCEPT !.stage = "opening", !.handed = 0, !.silent = 0, !.wait = 0]
Asked(c) == [Sent(c) EXCEPT !.age = 0, !.asked = @ + 1]
Done(result) == [NotSent EXCEPT !.stage = "done", !.result = result]
InFlight(i) == call[i].stage \in {"opening", "reading"}
Running == {i \in Calls : InFlight(i) \/ call[i].stage = "waiting"}

RequestsInit ==
  /\ caller \in Callers
  /\ \E n \in 0..Inputs : /\ caller \notin Batched => n = 1
                          /\ call = [i \in 1..n |-> NotSent]

-----------------------------------------------------------------------------
(* An attempt.  httpx's timeout applies to each operation: an address it   *)
(* connects to, TLS, a write of the request, a read of the headers or of a *)
(* 1XX response before them, and a chunk of the body.                      *)
Later(ticks, last) == IF ticks <= last THEN ticks + 1 ELSE ticks
Ticked(c) ==
  [c EXCEPT !.age = Later(@, Budget), !.silent = @ + 1,
            !.handed = IF c.stage = "opening" THEN Later(@, Timeout) ELSE @ + 1]
Tick(i) ==
  /\ InFlight(i) /\ call[i].silent < Timeout
  /\ call' = [call EXCEPT ![i] = Ticked(@)] /\ UNCHANGED caller

\* The next operation before the headers are complete.
Continue(i) ==
  /\ call[i].stage = "opening"
  /\ call' = [call EXCEPT ![i].silent = 0] /\ UNCHANGED caller

\* follow_redirects: the transport is handed the next request, with a deadline of its own.
Redirect(i) ==
  /\ call[i].stage = "opening"
  /\ call' = [call EXCEPT ![i].silent = 0, ![i].handed = 0] /\ UNCHANGED caller

Headers(i) ==
  /\ call[i].stage = "opening"
  /\ call' = [call EXCEPT ![i].stage = "reading", ![i].silent = 0] /\ UNCHANGED caller

-----------------------------------------------------------------------------
(* How a request ends.                                                     *)

\* call_with_retry: one more request for output the caller cannot use.
AskedForUsable(c, last) == IF c.asked < 2 THEN Asked(c) ELSE Done(last)

\* Fault: a verifier request that times out is asked again every time.
TimedOutAgain(c) ==
  IF "late" \in caller.asks THEN Asked([c EXCEPT !.asked = 0]) ELSE Done(caller.late)

\* verify_same_node asks once more after a request that still timed out.
TimedOut(c) == IF "late" \in caller.asks /\ c.rounds = 1
               THEN Asked([c EXCEPT !.rounds = 2, !.asked = 0]) ELSE Done(caller.late)

\* A complete reply: usable; unusable to every caller (a failed generation, a response that
\* does not validate); bad for this one; cut off; or a refusal, as of a redirect too many.
Replied(c, reply) ==
  CASE reply = "usable" -> Done("answered")
    [] reply = "unusable" -> AskedForUsable(c, "raised")
    [] reply = "bad" -> IF "bad" \in caller.asks THEN AskedForUsable(c, caller.bad)
                        ELSE Done(caller.bad)
    [] reply = "cut" -> Done(caller.cut)
    [] reply = "refused" -> Done("raised")
Replies == {"usable", "unusable", "bad", "cut", "refused"}

WaitingFor(c, ticks) ==
  {[c EXCEPT !.stage = "waiting", !.silent = 0, !.handed = 0, !.wait = w] : w \in 1..ticks}

\* Fault: the wait is not cut short to end at the deadline.
ResentUncut(c, last) == IF c.age >= Budget THEN {last} ELSE WaitingFor(c, Budget)

\* After a failed attempt the request is sent again once Retry-After or the backoff, which
\* both end by the deadline, have passed; with no time left the failure propagates.
Resent(c, last) ==
  IF c.age >= Budget THEN {last}
  ELSE WaitingFor(c, Budget - c.age)

Reply(i) ==
  /\ call[i].stage = "reading"
  /\ \E reply \in Replies : call' = [call EXCEPT ![i] = Replied(@, reply)]
  /\ UNCHANGED caller

\* The connection is lost, or the answer is 429 or a 5XX status.
Unreachable(i) ==
  /\ InFlight(i)
  /\ \E c \in Resent(call[i], Done("raised")) : call' = [call EXCEPT ![i] = c]
  /\ UNCHANGED caller

AttemptTimesOut(i) ==
  \E c \in Resent(call[i], TimedOut(call[i])) : call' = [call EXCEPT ![i] = c]

SilentTimeout(i) ==
  /\ InFlight(i) /\ call[i].silent = Timeout
  /\ AttemptTimesOut(i) /\ UNCHANGED caller

\* Fault: the transport passes every chunk on.
ChunkAtAnyTime(i) == call' = [call EXCEPT ![i].silent = 0]

\* _DeadlineStream: a chunk that arrives after the timeout ends the attempt.
Chunked(i) == IF call[i].handed > Timeout THEN AttemptTimesOut(i)
              ELSE call' = [call EXCEPT ![i].silent = 0]
Chunk(i) ==
  /\ call[i].stage = "reading" /\ Chunked(i) /\ UNCHANGED caller

Waited(c) == [c EXCEPT !.wait = @ - 1, !.age = @ + 1]
Wait(i) ==
  /\ call[i].stage = "waiting"
  /\ call' = [call EXCEPT ![i] = IF @.wait = 0 THEN Sent(@) ELSE Waited(@)]
  /\ UNCHANGED caller

Progress(i) == Tick(i) \/ SilentTimeout(i) \/ Wait(i)
CallStep(i) ==
  \/ Progress(i) \/ Continue(i) \/ Headers(i) \/ Redirect(i)
  \/ Reply(i) \/ Unreachable(i) \/ Chunk(i)

-----------------------------------------------------------------------------
(* Types; a model is asked at most once more for output that is unusable.  *)
CallsTypeOK ==
  /\ caller \in Callers
  /\ Calls \subseteq 1..Inputs
  /\ call \in [Calls ->
       [stage : {"queued", "cancelled", "opening", "reading", "waiting", "done"},
        age : Nat, handed : Nat, silent : 0..Timeout, wait : Nat,
        asked : 0..2, rounds : 1..2, result : {"none", "answered", "fallback", "raised"}]]

(* No attempt starts after the deadline, twice the timeout after the first *)
(* one: the next is sent at the end of a wait that is over by then.        *)
NoAttemptAfterTheDeadline ==
  \A i \in Calls : call[i].stage = "waiting" => call[i].age + call[i].wait <= Budget

(* However the provider trickles the body of a response, reading it is     *)
(* over within one timeout of the attempt's own, or of the headers when    *)
(* they came later still.  Nothing bounds the headers.                     *)
ResponsesEndInTime ==
  \A i \in Calls : call[i].stage = "reading" => call[i].handed <= (Timeout + 1) + Timeout
=============================================================================
