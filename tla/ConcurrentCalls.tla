--------------------------- MODULE ConcurrentCalls ---------------------------
(***************************************************************************)
(* call_concurrently (utils/vlm_utils.py): a pool of worker threads makes  *)
(* the calls of Requests; the calling thread applies their results in      *)
(* input order, cancels what has not started after a failure, and raises   *)
(* the first one.  The result of a call may also fail to apply, and Ctrl-C *)
(* interrupts the calling thread, in its loop or in the pool's shutdown.   *)
(***************************************************************************)
EXTENDS Requests, Sequences, FiniteSets

CONSTANT Workers \* MAX_REQUESTS_IN_FLIGHT
ASSUME WorkersAssumption == Workers \in Nat \ {0}

VARIABLES
  phase,   \* of the calling thread: "collect", "cancel", "shutdown", "ended"
  next,    \* the input whose future it collects, or cancels
  error,   \* the input whose failure it raises; 0 when none
  cut,     \* "loop" once an apply that raised or an interrupt left it, "shutdown" once
           \* an interrupt left that
  applied  \* the inputs whose results were applied, in order

poolVars == <<caller, call, phase, next, error, cut, applied>>
main == <<phase, next, error, cut, applied>>
Least(S) == CHOOSE i \in S : \A j \in S : i <= j
Queued == {i \in Calls : call[i].stage = "queued"}

Init ==
  /\ RequestsInit
  /\ phase = "collect" /\ next = 1 /\ error = 0 /\ cut = "none" /\ applied = <<>>

-----------------------------------------------------------------------------
(* The workers, each running one call to its end.                          *)
Start ==
  /\ Queued # {} /\ Cardinality(Running) < Workers
  /\ call' = [call EXCEPT ![Least(Queued)] = Asked(@)]
  /\ UNCHANGED <<caller, main>>

Work(i) == CallStep(i) /\ UNCHANGED main

-----------------------------------------------------------------------------
(* The calling thread.                                                     *)
Cancelled(i) == [call EXCEPT ![i].stage = IF @ = "queued" THEN "cancelled" ELSE @]

\* A future that was cancelled is passed over.
Skip ==
  /\ phase = "collect" /\ next \in Calls /\ call[next].stage = "cancelled"
  /\ next' = next + 1 /\ UNCHANGED <<caller, call, phase, error, cut, applied>>

Apply ==
  /\ phase = "collect" /\ next \in Calls /\ call[next].stage = "done"
  /\ call[next].result # "raised"
  /\ applied' = Append(applied, next) /\ next' = next + 1
  /\ UNCHANGED <<caller, call, phase, error, cut>>

\* Fault: the last failure is the one raised.
FirstErrorIsTheLast == next

FirstError == IF error = 0 THEN next ELSE error

\* Fault: the loop ends at the first failure.
AfterFailureStops == phase' = "shutdown" /\ UNCHANGED next

\* Of the calls after the first failure, those that have not begun are cancelled, and the
\* others collected.
AfterFailure == IF error = 0 THEN phase' = "cancel" /\ UNCHANGED next
                ELSE next' = next + 1 /\ UNCHANGED phase

Fail ==
  /\ phase = "collect" /\ next \in Calls /\ call[next].result = "raised"
  /\ AfterFailure /\ error' = FirstError
  /\ UNCHANGED <<caller, call, cut, applied>>

\* The futures are cancelled one by one, while the workers go on taking queued ones.
CancelRest ==
  /\ phase = "cancel"
  /\ call' = Cancelled(next)
  /\ IF next + 1 \in Calls THEN next' = next + 1 /\ UNCHANGED phase
     ELSE next' = error + 1 /\ phase' = "collect"
  /\ UNCHANGED <<caller, error, cut, applied>>

Collected ==
  /\ phase = "collect" /\ next \notin Calls
  /\ phase' = "shutdown" /\ UNCHANGED <<caller, call, next, error, cut, applied>>

\* apply raises, or Ctrl-C interrupts the loop, which leads to the shutdown.
Throw ==
  /\ phase \in {"collect", "cancel"}
  /\ phase' = "shutdown" /\ cut' = "loop"
  /\ UNCHANGED <<caller, call, next, error, applied>>

\* Fault: the pool is left without waiting for its workers.
ShutDownAtOnce == Queued = {}

\* pool.shutdown(cancel_futures=True) drains the queue, then waits for the workers.
ShutDownWaited == Queued = {} /\ Running = {}

Drain ==
  /\ phase = "shutdown" /\ Queued # {}
  /\ call' = Cancelled(Least(Queued)) /\ UNCHANGED <<caller, main>>

ShutDown ==
  /\ phase = "shutdown" /\ ShutDownWaited
  /\ phase' = "ended" /\ UNCHANGED <<caller, call, next, error, cut, applied>>

\* Ctrl-C, the first or another, interrupts the shutdown: what is left in the queue stays
\* there, and the workers run on.
Abandon ==
  /\ phase = "shutdown" /\ phase' = "ended" /\ cut' = "shutdown"
  /\ UNCHANGED <<caller, call, next, error, applied>>

CallingThread == Skip \/ Apply \/ Fail \/ CancelRest \/ Collected \/ Drain \/ ShutDown

Ended == phase = "ended" /\ UNCHANGED poolVars

Next == Start \/ (\E i \in Calls : Work(i)) \/ CallingThread \/ Throw \/ Abandon \/ Ended

\* The threads run; time passes for every call; neither headers, replies nor Ctrl-C need to
\* come.
Spec ==
  /\ Init /\ [][Next]_poolVars
  /\ WF_poolVars(Start) /\ WF_poolVars(CallingThread)
  /\ \A i \in 1..Inputs : WF_poolVars(i \in Calls /\ Progress(i) /\ UNCHANGED main)

-----------------------------------------------------------------------------
(* Types; a model is asked at most once more for output that is unusable.  *)
TypeOK ==
  /\ CallsTypeOK
  /\ phase \in {"collect", "cancel", "shutdown", "ended"}
  /\ next \in 1..Inputs + 1 /\ error \in Calls \cup {0}
  /\ cut \in {"none", "loop", "shutdown"} /\ applied \in Seq(Calls)
  /\ Cardinality(Running) <= Workers

(* Whatever order the calls return in, what a call_concurrently that was   *)
(* not cut short applied is each result that did not fail, once, in input  *)
(* order, and it raises the failure of the first input that failed.        *)
EveryAnswerIsApplied ==
  phase = "ended" /\ cut = "none" =>
    /\ \A j \in 1..Len(applied) - 1 : applied[j] < applied[j + 1]
    /\ {applied[j] : j \in DOMAIN applied} =
         {i \in Calls : call[i].result \in {"answered", "fallback"}}
    /\ error = 0 => \A i \in Calls : call[i].stage = "done"
    /\ error # 0 => error = Least({i \in Calls : call[i].result = "raised"})

(* Nothing is sent, billed or counted behind the caller's back: once       *)
(* call_concurrently has returned, or raised for a call, an apply or an    *)
(* interrupt of its loop, no call runs or is left.  Only an interrupt of   *)
(* the shutdown itself leaves some.                                        *)
NothingRunsAfterwards == phase = "ended" /\ cut # "shutdown" => Running = {} /\ Queued = {}

(* It returns, or raises, however the provider behaves, provided that it   *)
(* sends neither headers nor redirects for ever.                           *)
HeadersEnd == \A i \in 1..Inputs : []<>(i \in Calls => call[i].stage # "opening")
BatchEnds == HeadersEnd => <>(phase = "ended")
=============================================================================
