--------------------------- MODULE FailureMonitor ---------------------------
(***************************************************************************)
(* The failure evidence collector (failure_monitor.py): the main thread    *)
(* takes a baseline capture, starts a daemon thread that captures every    *)
(* minute, and at the end of the run joins it, takes a final capture and   *)
(* writes the report.  A capture reads the device, publishes each source   *)
(* file, then its manifest, then the report.  A file is written beside its *)
(* name and renamed under the publication lock, unless the session closed. *)
(***************************************************************************)
EXTENDS Integers

CONSTANTS
  Limit,      \* CAPTURE_LIMIT
  Sources,    \* how many source files a capture publishes
  Outcomes    \* how the run inside the monitor can end

ASSUME MonitorAssumption ==
  /\ Limit \in Nat \ {0, 1} /\ Sources \in Nat
  /\ "running" \notin Outcomes /\ "none" \notin Outcomes

VARIABLES
  at,          \* where each thread is
  task,        \* what each thread captures or writes
  part,        \* the part of it a thread is writing
  stop,        \* _stop
  closed,      \* _closed
  lock,        \* _publication
  captures,    \* _captures
  error,       \* whether _error is set
  outcome,     \* how the run ended, "running" before
  files,       \* the published files of captures: each capture's parts
  phases,      \* the phase each manifest names
  report       \* report.json: its outcome, capture count and error

session == <<stop, closed, outcome>>
counters == <<captures, error>>
published == <<files, phases, report>>
vars == <<at, task, part, session, lock, counters, published>>

Threads == {"main", "poll"}
Manifest == Sources + 1
Report == Sources + 2
NoReport == [outcome |-> "none", captures |-> 0, error |-> FALSE]

Goes(t, from, to) == at[t] = from /\ at' = [at EXCEPT ![t] = to]

-----------------------------------------------------------------------------
Init ==
  /\ at = [main |-> "begin", poll |-> "off"]
  /\ task = [main |-> "baseline", poll |-> "periodic"]
  /\ part = [t \in Threads |-> 0]
  /\ stop = FALSE /\ closed = FALSE /\ outcome = "running" /\ lock = "none"
  /\ captures = 0 /\ error = FALSE
  /\ files = [c \in 0..(Limit - 1) |-> {}]
  /\ phases = [c \in 0..(Limit - 1) |-> "none"] /\ report = NoReport

\* Where the threads go when thread t is done with its task, well or not.
AfterTask(t, ok) ==
  CASE t = "poll" -> [at EXCEPT !.poll = IF ok THEN "wait" ELSE "ended"]
    [] task[t] = "baseline" -> [main |-> "work", poll |-> IF ok THEN "wait" ELSE "off"]
    [] task[t] = "final" -> [at EXCEPT !.main = "report"]
    [] task[t] = "report" -> [at EXCEPT !.main = "close"]

\* _safe_capture: a capture that raises sets the error; the last report's is logged.
TaskEnds(t, ok) ==
  /\ at' = AfterTask(t, ok)
  /\ error' = (error \/ (~ok /\ task[t] # "report"))

-----------------------------------------------------------------------------
(* capture, on either thread.                                              *)

BeginCapture(t) ==
  IF captures >= Limit \/ closed
  THEN at' = AfterTask(t, TRUE) /\ UNCHANGED part
  ELSE at' = [at EXCEPT ![t] = "read"] /\ part' = [part EXCEPT ![t] = 1]

ReadSources(t) ==
  /\ at[t] = "read"
  /\ IF closed THEN at' = AfterTask(t, TRUE) ELSE at' = [at EXCEPT ![t] = "stage"]
  /\ UNCHANGED <<task, part, session, lock, counters, published>>

\* _publish: the staging file, the lock, the check, the rename.
Stage(t) ==
  /\ Goes(t, "stage", "staged")
  /\ UNCHANGED <<task, part, session, lock, counters, published>>

\* Fault: the session is checked without the lock.
LockUnheld(t) ==
  /\ Goes(t, "staged", "locked")
  /\ UNCHANGED <<task, part, session, lock, counters, published>>

Lock(t) ==
  /\ lock = "none"
  /\ Goes(t, "staged", "locked") /\ lock' = t
  /\ UNCHANGED <<task, part, session, counters, published>>

FindClosed(t) ==
  /\ at[t] = "locked" /\ closed
  /\ at' = AfterTask(t, TRUE) /\ lock' = "none"
  /\ UNCHANGED <<task, part, session, counters, published>>

FindOpen(t) ==
  /\ ~closed /\ Goes(t, "locked", "rename")
  /\ UNCHANGED <<task, part, session, lock, counters, published>>

\* A source file or the manifest, which counts the capture.
Rename(t) ==
  /\ Goes(t, "rename", "stage") /\ lock' = "none"
  /\ part[t] <= Manifest
  /\ part' = [part EXCEPT ![t] = @ + 1]
  /\ files' = [files EXCEPT ![captures] = @ \cup {part[t]}]
  /\ phases' = IF part[t] = Manifest THEN [phases EXCEPT ![captures] = task[t]] ELSE phases
  /\ captures' = IF part[t] = Manifest THEN captures + 1 ELSE captures
  /\ UNCHANGED <<task, session, error, report>>

\* _report
RenameReport(t) ==
  /\ at[t] = "rename" /\ part[t] = Report
  /\ TaskEnds(t, TRUE) /\ lock' = "none"
  /\ report' = [outcome |-> IF task[t] = "report" THEN outcome ELSE "running",
                captures |-> captures, error |-> error]
  /\ UNCHANGED <<task, part, session, captures, files, phases>>

\* Fault: a file that cannot be written is left out of the capture.
FailSkippingTheFile(t) ==
  /\ at[t] = "stage" /\ part[t] < Manifest
  /\ part' = [part EXCEPT ![t] = @ + 1]
  /\ UNCHANGED <<at, task, session, lock, counters, published>>

\* Reading the device, staging or renaming a file raises.
Fail(t) ==
  /\ at[t] \in {"read", "stage", "rename"}
  /\ TaskEnds(t, FALSE) /\ lock' = IF lock = t THEN "none" ELSE lock
  /\ UNCHANGED <<task, part, session, captures, published>>

-----------------------------------------------------------------------------
(* The two threads around it.                                              *)

Enter ==
  /\ at["main"] = "begin"
  /\ BeginCapture("main")
  /\ UNCHANGED <<task, session, lock, counters, published>>

\* Fault: the last slot is not kept for the final capture.
PollWakesToTheLimit ==
  /\ at["poll"] = "wait" /\ ~stop
  /\ IF captures >= Limit
     THEN at' = [at EXCEPT !.poll = "ended"] /\ UNCHANGED part
     ELSE BeginCapture("poll")
  /\ UNCHANGED <<task, session, lock, counters, published>>

PollWakes ==
  /\ at["poll"] = "wait" /\ ~stop
  /\ IF captures >= Limit - 1
     THEN at' = [at EXCEPT !.poll = "ended"] /\ UNCHANGED part
     ELSE BeginCapture("poll")
  /\ UNCHANGED <<task, session, lock, counters, published>>

PollStops ==
  /\ stop /\ Goes("poll", "wait", "ended")
  /\ UNCHANGED <<task, part, session, lock, counters, published>>

Alive == at["poll"] \notin {"off", "ended"}

EndRun(how) ==
  /\ Goes("main", "work", "join")
  /\ stop' = TRUE /\ outcome' = how
  /\ UNCHANGED <<task, part, closed, lock, counters, published>>

Joined ==
  /\ at["main"] = "join" /\ ~Alive
  /\ task' = [task EXCEPT !.main = IF error THEN "report" ELSE "final"]
  /\ at' = [at EXCEPT !.main = IF error THEN "report" ELSE "final"]
  /\ UNCHANGED <<part, session, lock, counters, published>>

\* Fault: the join waits for the thread however long it takes.
JoinWaits ==
  /\ Alive /\ at["main"] = "join" /\ UNCHANGED vars

JoinTimesOut ==
  /\ Alive /\ Goes("main", "join", "close")
  /\ UNCHANGED <<task, part, session, lock, counters, published>>

FinalCapture ==
  /\ at["main"] = "final"
  /\ BeginCapture("main")
  /\ UNCHANGED <<task, session, lock, counters, published>>

WriteReport ==
  /\ Goes("main", "report", "stage")
  /\ task' = [task EXCEPT !.main = "report"] /\ part' = [part EXCEPT !.main = Report]
  /\ UNCHANGED <<session, lock, counters, published>>

Close ==
  /\ lock = "none" /\ Goes("main", "close", "left") /\ closed' = TRUE
  /\ UNCHANGED <<task, part, stop, outcome, lock, counters, published>>

Over == at["main"] = "left" /\ ~Alive /\ UNCHANGED vars

-----------------------------------------------------------------------------
\* What t does once it has the sources, each a call that returns or raises.
Write(t) == Stage(t) \/ Lock(t) \/ FindClosed(t) \/ FindOpen(t) \/ Rename(t) \/ RenameReport(t)

Main ==
  \/ Enter \/ \E how \in Outcomes : EndRun(how)
  \/ Joined \/ JoinTimesOut \/ FinalCapture \/ WriteReport \/ Close
  \/ ReadSources("main") \/ Write("main") \/ Fail("main")

Poll == PollWakes \/ PollStops \/ ReadSources("poll") \/ Write("poll") \/ Fail("poll")

Next == Main \/ Poll \/ Over

\* The main thread's read has a deadline; the poll thread's may outlast the join, but
\* a file operation under the lock returns.
Spec == Init /\ [][Next]_vars /\ WF_vars(Main) /\ WF_vars(Write("poll"))

-----------------------------------------------------------------------------
(* The state of the threads and of the session's directory.                *)
TypeOK ==
  /\ at["main"] \in {"begin", "read", "stage", "staged", "locked", "rename", "work", "join",
                     "final", "report", "close", "left"}
  /\ at["poll"] \in {"off", "wait", "read", "stage", "staged", "locked", "rename", "ended"}
  /\ DOMAIN at = Threads
  /\ task \in [main : {"baseline", "final", "report"}, poll : {"periodic"}]
  /\ part \in [Threads -> 0..Report]
  /\ stop \in BOOLEAN /\ closed \in BOOLEAN /\ lock \in Threads \cup {"none"}
  /\ captures \in 0..Limit /\ error \in BOOLEAN /\ outcome \in Outcomes \cup {"running"}
  /\ files \in [0..(Limit - 1) -> SUBSET (1..Manifest)]
  /\ phases \in [0..(Limit - 1) -> {"none", "baseline", "periodic", "final"}]
  /\ report \in [outcome : Outcomes \cup {"running", "none"}, captures : 0..Limit,
                 error : BOOLEAN]

(* Whenever the host dies, report.json counts only captures whose manifest *)
(* and source files are all there, whichever thread wrote it and whatever  *)
(* failed in between.                                                      *)
ReportCountsWholeCaptures ==
  \A c \in 0..(report.captures - 1) : files[c] = 1..Manifest

(* A report that says how the run ended is written after the collector     *)
(* ended, counts every capture and shows a collection error; without one   *)
(* the last capture is the final one, however many polls came before       *)
(* (README: "reserving its last slot for shutdown").                       *)
FinalReportIsComplete ==
  report.outcome \in Outcomes =>
    /\ ~Alive /\ report = [outcome |-> outcome, captures |-> captures, error |-> error]
    /\ ~error => captures > 0 /\ phases[captures - 1] = "final"

(* Once __exit__ closed the session, nothing is published: a capture that  *)
(* outlasted the join leaves its directory as the report describes it.     *)
NothingPublishedAfterClose == [][closed => UNCHANGED published]_vars

(* The end of the run is never held up for good by the collector: __exit__ *)
(* returns even when a read of the poll thread does not.                   *)
ExitReturns == at["main"] = "join" ~> at["main"] = "left"
=============================================================================
