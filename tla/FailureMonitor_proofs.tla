----------------------- MODULE FailureMonitor_proofs -----------------------
(***************************************************************************)
(* Proofs about FailureMonitor for every capture limit, every number of    *)
(* source files and every way a run can end.                               *)
(*                                                                         *)
(* Three facts carry the proof.  The lock is held by exactly the thread    *)
(* that is between Lock and its rename or release, and nobody renames in a *)
(* closed session.  The two threads never capture at once: the poll thread *)
(* lives only while the main thread works, joins it or gave the join up.   *)
(* And the parts of the capture in progress are on disk in order, so the   *)
(* manifest, which counts the capture, is published last.                  *)
(***************************************************************************)
EXTENDS FailureMonitor, TLAPS

USE MonitorAssumption

-----------------------------------------------------------------------------
(* The inductive invariant.                                                *)

Busy(t) == at[t] \in {"read", "stage", "staged", "locked", "rename"}
Capturing(t) == Busy(t) /\ part[t] \in 1..Manifest

\* Who holds the lock; a rename happens in an open session.
LockIsHeld ==
  \A t \in Threads : /\ lock = t <=> at[t] \in {"locked", "rename"}
                     /\ at[t] = "rename" => ~closed

\* What the main thread does last depends on what it did before.
MainTakesTurns ==
  /\ closed <=> at["main"] = "left"
  /\ at["main"] \in {"join", "final", "report", "close", "left"} => stop
  /\ task["main"] # "baseline" => stop
  /\ at["main"] \in {"begin", "work", "join"} => task["main"] = "baseline"
  /\ at["main"] = "begin" => captures = 0 /\ ~error
  /\ at["main"] = "final" => task["main"] = "final" /\ ~error
  /\ Busy("main") => task["main"] = "report" \/ ~error

\* While the poll thread is alive the main thread captures nothing.
PollIsAlone ==
  /\ Alive => /\ at["main"] \in {"work", "join", "close", "left"}
              /\ task["main"] = "baseline" /\ ~error
  /\ at["main"] = "begin" \/ (Busy("main") /\ task["main"] = "baseline") => at["poll"] = "off"

\* A capture in progress has a slot left, and the final one always has.
PartsInOrder ==
  \A t \in Threads : Busy(t) =>
    /\ part[t] \in 1..Report
    /\ at[t] = "read" => part[t] = 1
    /\ task[t] = "report" => part[t] = Report
    /\ part[t] \in 1..Manifest => captures < IF task[t] = "final" THEN Limit ELSE Limit - 1
    /\ task[t] = "baseline" /\ part[t] \in 1..Manifest => captures = 0
    /\ task[t] = "final" /\ part[t] = Report => captures > 0 /\ phases[captures - 1] = "final"

SlotIsKept == at["main"] = "final" \/ task["main"] = "baseline" => captures < Limit

\* Counted captures are whole, the one in progress has the parts before the current one.
FilesFollow ==
  \A c \in 0..(Limit - 1) :
    /\ c < captures => files[c] = 1..Manifest
    /\ c > captures => files[c] = {}
    /\ c = captures => \A t \in Threads : Capturing(t) => files[c] = 1..(part[t] - 1)
    /\ c = captures /\ ~error /\ ~closed /\ (\A t \in Threads : ~Capturing(t)) => files[c] = {}

\* The report on disk is never ahead of the captures, nor final before the end.
ReportFollows ==
  /\ report.captures <= captures
  /\ at["main"] = "report" \/ (Busy("main") /\ task["main"] = "report") =>
       error \/ (captures > 0 /\ phases[captures - 1] = "final")
  /\ report.outcome \in Outcomes =>
       task["main"] = "report" /\ at["main"] \in {"close", "left"}

MonitorInv ==
  /\ TypeOK /\ LockIsHeld /\ MainTakesTurns /\ PollIsAlone /\ PartsInOrder /\ SlotIsKept
  /\ FilesFollow /\ ReportFollows /\ FinalReportIsComplete


-----------------------------------------------------------------------------
USE DEF session, counters, published, Threads, Manifest, Report

LEMMA MonitorInit == Init => MonitorInv
<1> SUFFICES ASSUME Init PROVE MonitorInv
  OBVIOUS
<1> USE DEF Init, Busy, Capturing, Alive, NoReport
<1>1. TypeOK
  <2>1. error \in BOOLEAN /\ stop \in BOOLEAN /\ closed \in BOOLEAN
    OBVIOUS
  <2>2. outcome \in Outcomes \cup {"running"} /\ captures \in 0..Limit
    OBVIOUS
  <2> QED BY <2>1, <2>2 DEF TypeOK
<1>2. LockIsHeld /\ MainTakesTurns /\ PollIsAlone
  BY DEF LockIsHeld, MainTakesTurns, PollIsAlone
<1>3. PartsInOrder /\ SlotIsKept /\ FilesFollow
  BY DEF PartsInOrder, SlotIsKept, FilesFollow
<1>4. ReportFollows /\ FinalReportIsComplete
  BY DEF ReportFollows, FinalReportIsComplete
<1> QED BY <1>1, <1>2, <1>3, <1>4 DEF MonitorInv


\* Where the threads are once thread t is done with its task: t itself, and the poll
\* thread that the end of the baseline starts or not.
ThreadsAfter(t, pollThen, pollStarts) ==
  /\ DOMAIN at' = Threads
  /\ t = "poll" => at'["main"] = at["main"] /\ at'["poll"] = pollThen
  /\ t = "main" /\ task["main"] = "baseline" => at'["main"] = "work" /\ at'["poll"] = pollStarts
  /\ t = "main" /\ task["main"] = "final" => at'["main"] = "report" /\ at'["poll"] = at["poll"]
  /\ t = "main" /\ task["main"] = "report" => at'["main"] = "close" /\ at'["poll"] = at["poll"]

LEMMA TaskDone ==
  ASSUME TypeOK, NEW t \in Threads, at' = AfterTask(t, TRUE)
  PROVE  ThreadsAfter(t, "wait", "wait")
BY SMTT(20) DEF AfterTask, TypeOK, ThreadsAfter

LEMMA TaskFailed ==
  ASSUME TypeOK, NEW t \in Threads, at' = AfterTask(t, FALSE)
  PROVE  ThreadsAfter(t, "ended", "off")
BY SMTT(20) DEF AfterTask, TypeOK, ThreadsAfter

(* Steps that end a task.                                                  *)

LEMMA FailStep ==
  ASSUME MonitorInv, NEW t \in Threads, Fail(t)
  PROVE  MonitorInv'
<1>t. TypeOK
  BY DEF MonitorInv
<1>a. at' = AfterTask(t, FALSE)
  BY DEF Fail, TaskEnds
<1>c. ThreadsAfter(t, "ended", "off")
  BY <1>a, <1>t, TaskFailed
<1>e. error' \in BOOLEAN /\ (error' <=> error \/ task[t] # "report")
  BY DEF Fail, TaskEnds
<1>f. /\ at[t] \in {"read", "stage", "rename"}
      /\ lock' = IF lock = t THEN "none" ELSE lock
      /\ UNCHANGED <<task, part, session, captures, published>>
  BY DEF Fail
<1> USE <1>c, <1>e, <1>f DEF MonitorInv, TypeOK, PollIsAlone, PartsInOrder, Alive, Busy,
            ThreadsAfter
<1>1. TypeOK'
  BY SMTT(20)
<1>2. LockIsHeld' /\ MainTakesTurns' /\ PollIsAlone'
  BY SMTT(20) DEF LockIsHeld, MainTakesTurns
<1>3. PartsInOrder' /\ SlotIsKept'
  BY SMTT(20) DEF MainTakesTurns, SlotIsKept
<1>4. FilesFollow'
  BY SMTT(20) DEF LockIsHeld, MainTakesTurns, FilesFollow, Capturing
<1>5. ReportFollows' /\ FinalReportIsComplete'
  BY SMTT(20) DEF MainTakesTurns, ReportFollows, FinalReportIsComplete
<1> QED BY <1>1, <1>2, <1>3, <1>4, <1>5

LEMMA FindClosedStep ==
  ASSUME MonitorInv, NEW t \in Threads, FindClosed(t)
  PROVE  MonitorInv'
<1>t. TypeOK
  BY DEF MonitorInv
<1>a. at' = AfterTask(t, TRUE)
  BY DEF FindClosed
<1>c. ThreadsAfter(t, "wait", "wait")
  BY <1>a, <1>t, TaskDone
<1>f. /\ at[t] = "locked" /\ closed /\ lock' = "none"
      /\ UNCHANGED <<task, part, session, counters, published>>
  BY DEF FindClosed
<1> USE <1>c, <1>f DEF MonitorInv, TypeOK, PollIsAlone, PartsInOrder, Alive, Busy,
            ThreadsAfter
<1>1. TypeOK'
  BY SMTT(20)
<1>2. LockIsHeld' /\ MainTakesTurns' /\ PollIsAlone'
  BY SMTT(20) DEF LockIsHeld, MainTakesTurns
<1>3. PartsInOrder' /\ SlotIsKept'
  BY SMTT(20) DEF MainTakesTurns, SlotIsKept
<1>4. FilesFollow'
  BY SMTT(20) DEF LockIsHeld, MainTakesTurns, FilesFollow, Capturing
<1>5. ReportFollows' /\ FinalReportIsComplete'
  BY SMTT(20) DEF MainTakesTurns, ReportFollows, FinalReportIsComplete
<1> QED BY <1>1, <1>2, <1>3, <1>4, <1>5

LEMMA ReportPublishedStep ==
  ASSUME MonitorInv, NEW t \in Threads, RenameReport(t)
  PROVE  MonitorInv'
<1>t. TypeOK
  BY DEF MonitorInv
<1>a. at' = AfterTask(t, TRUE)
  BY DEF RenameReport, TaskEnds
<1>c. ThreadsAfter(t, "wait", "wait")
  BY <1>a, <1>t, TaskDone
<1>e. error' = error
  BY DEF RenameReport, TaskEnds, MonitorInv, TypeOK
<1>f. /\ at[t] = "rename" /\ part[t] = Report /\ lock' = "none"
      /\ report' = [outcome |-> IF task[t] = "report" THEN outcome ELSE "running",
                    captures |-> captures, error |-> error]
      /\ UNCHANGED <<task, part, session, captures, files, phases>>
  BY DEF RenameReport
<1> USE <1>c, <1>e, <1>f DEF MonitorInv, TypeOK, PollIsAlone, PartsInOrder, Alive, Busy,
            ThreadsAfter
<1>1. TypeOK'
  BY SMTT(20)
<1>2. LockIsHeld' /\ MainTakesTurns' /\ PollIsAlone'
  BY SMTT(20) DEF LockIsHeld, MainTakesTurns
<1>3. PartsInOrder' /\ SlotIsKept'
  BY SMTT(20) DEF MainTakesTurns, SlotIsKept
<1>4. FilesFollow'
  BY SMTT(20) DEF LockIsHeld, MainTakesTurns, FilesFollow, Capturing
<1>5. ReportFollows' /\ FinalReportIsComplete'
  BY SMTT(20) DEF MainTakesTurns, ReportFollows, FinalReportIsComplete
<1> QED BY <1>1, <1>2, <1>3, <1>4, <1>5

LEMMA ReadClosedStep ==
  ASSUME MonitorInv, NEW t \in Threads, ReadSources(t), closed
  PROVE  MonitorInv'
<1>t. TypeOK
  BY DEF MonitorInv
<1>a. at' = AfterTask(t, TRUE)
  BY DEF ReadSources
<1>c. ThreadsAfter(t, "wait", "wait")
  BY <1>a, <1>t, TaskDone
<1>f. /\ at[t] = "read"
      /\ UNCHANGED <<task, part, session, lock, counters, published>>
  BY DEF ReadSources
<1> USE <1>c, <1>f DEF MonitorInv, TypeOK, PollIsAlone, PartsInOrder, Alive, Busy,
            ThreadsAfter
<1>1. TypeOK'
  BY SMTT(20)
<1>2. LockIsHeld' /\ MainTakesTurns' /\ PollIsAlone'
  BY SMTT(20) DEF LockIsHeld, MainTakesTurns
<1>3. PartsInOrder' /\ SlotIsKept'
  BY SMTT(20) DEF MainTakesTurns, SlotIsKept
<1>4. FilesFollow'
  BY SMTT(20) DEF LockIsHeld, MainTakesTurns, FilesFollow, Capturing
<1>5. ReportFollows' /\ FinalReportIsComplete'
  BY SMTT(20) DEF MainTakesTurns, ReportFollows, FinalReportIsComplete
<1> QED BY <1>1, <1>2, <1>3, <1>4, <1>5

-----------------------------------------------------------------------------
(* Steps of a capture.                                                     *)

LEMMA ReadOpenStep ==
  ASSUME MonitorInv, NEW t \in Threads, ReadSources(t), ~closed
  PROVE  MonitorInv'
<1> USE DEF ReadSources, MonitorInv, TypeOK, PollIsAlone, PartsInOrder, Alive, Busy
<1>1. TypeOK'
  BY SMTT(20)
<1>2. LockIsHeld' /\ MainTakesTurns' /\ PollIsAlone'
  BY SMTT(20) DEF LockIsHeld, MainTakesTurns
<1>3. PartsInOrder' /\ SlotIsKept'
  BY SMTT(20) DEF MainTakesTurns, SlotIsKept
<1>4. FilesFollow'
  BY SMTT(20) DEF LockIsHeld, MainTakesTurns, FilesFollow, Capturing
<1>5. ReportFollows' /\ FinalReportIsComplete'
  BY SMTT(20) DEF MainTakesTurns, ReportFollows, FinalReportIsComplete
<1> QED BY <1>1, <1>2, <1>3, <1>4, <1>5

LEMMA StageStep ==
  ASSUME MonitorInv, NEW t \in Threads, Stage(t)
  PROVE  MonitorInv'
<1> USE DEF MonitorInv, TypeOK, PollIsAlone, PartsInOrder, Alive, Busy, Stage, Goes
<1>1. TypeOK'
  BY SMTT(20)
<1>2. LockIsHeld' /\ MainTakesTurns' /\ PollIsAlone'
  BY SMTT(20) DEF LockIsHeld, MainTakesTurns
<1>3. PartsInOrder' /\ SlotIsKept'
  BY SMTT(20) DEF MainTakesTurns, SlotIsKept
<1>4. FilesFollow'
  BY SMTT(20) DEF LockIsHeld, MainTakesTurns, FilesFollow, Capturing
<1>5. ReportFollows' /\ FinalReportIsComplete'
  BY SMTT(20) DEF MainTakesTurns, ReportFollows, FinalReportIsComplete
<1> QED BY <1>1, <1>2, <1>3, <1>4, <1>5

LEMMA LockStep ==
  ASSUME MonitorInv, NEW t \in Threads, Lock(t)
  PROVE  MonitorInv'
<1> USE DEF MonitorInv, TypeOK, PollIsAlone, PartsInOrder, Alive, Busy, Lock, Goes
<1>1. TypeOK'
  BY SMTT(20)
<1>2. LockIsHeld' /\ MainTakesTurns' /\ PollIsAlone'
  BY SMTT(20) DEF LockIsHeld, MainTakesTurns
<1>3. PartsInOrder' /\ SlotIsKept'
  BY SMTT(20) DEF MainTakesTurns, SlotIsKept
<1>4. FilesFollow'
  BY SMTT(20) DEF LockIsHeld, MainTakesTurns, FilesFollow, Capturing
<1>5. ReportFollows' /\ FinalReportIsComplete'
  BY SMTT(20) DEF MainTakesTurns, ReportFollows, FinalReportIsComplete
<1> QED BY <1>1, <1>2, <1>3, <1>4, <1>5

LEMMA FindOpenStep ==
  ASSUME MonitorInv, NEW t \in Threads, FindOpen(t)
  PROVE  MonitorInv'
<1> USE DEF MonitorInv, TypeOK, PollIsAlone, PartsInOrder, Alive, Busy, FindOpen, Goes
<1>1. TypeOK'
  BY SMTT(20)
<1>2. LockIsHeld' /\ MainTakesTurns' /\ PollIsAlone'
  BY SMTT(20) DEF LockIsHeld, MainTakesTurns
<1>3. PartsInOrder' /\ SlotIsKept'
  BY SMTT(20) DEF MainTakesTurns, SlotIsKept
<1>4. FilesFollow'
  BY SMTT(20) DEF LockIsHeld, MainTakesTurns, FilesFollow, Capturing
<1>5. ReportFollows' /\ FinalReportIsComplete'
  BY SMTT(20) DEF MainTakesTurns, ReportFollows, FinalReportIsComplete
<1> QED BY <1>1, <1>2, <1>3, <1>4, <1>5

LEMMA RenameStep ==
  ASSUME MonitorInv, NEW t \in Threads, Rename(t)
  PROVE  MonitorInv'
<1> USE DEF MonitorInv, TypeOK, PollIsAlone, PartsInOrder, Alive, Busy, Rename, Goes
<1>1. TypeOK'
  BY SMTT(20)
<1>2. LockIsHeld' /\ MainTakesTurns' /\ PollIsAlone'
  BY SMTT(20) DEF LockIsHeld, MainTakesTurns
<1>3. PartsInOrder' /\ SlotIsKept'
  BY SMTT(20) DEF MainTakesTurns, SlotIsKept
<1>4. FilesFollow'
  <2>1. /\ captures \in 0..(Limit - 1) /\ part[t] \in 1..Manifest
        /\ part'[t] = part[t] + 1 /\ at'[t] = "stage"
        /\ \A u \in Threads \ {t} : ~Busy(u) /\ ~Busy(u)'
    BY SMTT(20) DEF MainTakesTurns
  <2>2. files[captures] = 1..(part[t] - 1)
    BY <2>1 DEF FilesFollow, Capturing
  <2>3. /\ files'[captures] = 1..part[t]
        /\ \A c \in 0..(Limit - 1) : c # captures => files'[c] = files[c]
    BY <2>1, <2>2
  <2>4. CASE part[t] = Manifest
    <3>1. captures' = captures + 1 /\ \A u \in Threads : ~Capturing(u)'
      BY <2>1, <2>4 DEF Capturing
    <3>2. FilesFollow /\ Sources \in Nat /\ Limit \in Nat /\ part[t] \in Nat
      BY <2>4
    <3> HIDE DEF MonitorInv, TypeOK, PollIsAlone, PartsInOrder, Alive, Busy, Rename
    <3> QED BY <2>1, <2>3, <2>4, <3>1, <3>2 DEF FilesFollow
  <2>5. CASE part[t] < Manifest
    <3>1. /\ captures' = captures /\ Capturing(t)'
          /\ \A u \in Threads : Capturing(u)' => u = t
      BY <2>1, <2>5 DEF Capturing
    <3>2. FilesFollow /\ part[t] \in Nat
      BY <2>1
    <3> HIDE DEF MonitorInv, TypeOK, PollIsAlone, PartsInOrder, Alive, Busy, Rename
    <3> QED BY <2>1, <2>3, <3>1, <3>2 DEF FilesFollow
  <2> QED BY <2>1, <2>4, <2>5
<1>5. ReportFollows' /\ FinalReportIsComplete'
  BY SMTT(20) DEF MainTakesTurns, ReportFollows, FinalReportIsComplete
<1> QED BY <1>1, <1>2, <1>3, <1>4, <1>5

-----------------------------------------------------------------------------
(* Steps around the captures.                                              *)

LEMMA PollStopsStep ==
  ASSUME MonitorInv, PollStops
  PROVE  MonitorInv'
<1> USE DEF MonitorInv, TypeOK, PollIsAlone, PartsInOrder, Alive, Busy, PollStops, Goes
<1>1. TypeOK'
  BY SMTT(20)
<1>2. LockIsHeld' /\ MainTakesTurns' /\ PollIsAlone'
  BY SMTT(20) DEF LockIsHeld, MainTakesTurns
<1>3. PartsInOrder' /\ SlotIsKept'
  BY SMTT(20) DEF MainTakesTurns, SlotIsKept
<1>4. FilesFollow'
  BY SMTT(20) DEF LockIsHeld, MainTakesTurns, FilesFollow, Capturing
<1>5. ReportFollows' /\ FinalReportIsComplete'
  BY SMTT(20) DEF MainTakesTurns, ReportFollows, FinalReportIsComplete
<1> QED BY <1>1, <1>2, <1>3, <1>4, <1>5

LEMMA JoinedStep ==
  ASSUME MonitorInv, Joined
  PROVE  MonitorInv'
<1> USE DEF MonitorInv, TypeOK, PollIsAlone, PartsInOrder, Alive, Busy, Joined, Goes
<1>1. TypeOK'
  BY SMTT(20)
<1>2. LockIsHeld' /\ MainTakesTurns' /\ PollIsAlone'
  BY SMTT(20) DEF LockIsHeld, MainTakesTurns
<1>3. PartsInOrder' /\ SlotIsKept'
  BY SMTT(20) DEF MainTakesTurns, SlotIsKept
<1>4. FilesFollow'
  BY SMTT(20) DEF LockIsHeld, MainTakesTurns, FilesFollow, Capturing
<1>5. ReportFollows' /\ FinalReportIsComplete'
  BY SMTT(20) DEF MainTakesTurns, ReportFollows, FinalReportIsComplete
<1> QED BY <1>1, <1>2, <1>3, <1>4, <1>5

LEMMA JoinTimesOutStep ==
  ASSUME MonitorInv, JoinTimesOut
  PROVE  MonitorInv'
<1> USE DEF MonitorInv, TypeOK, PollIsAlone, PartsInOrder, Alive, Busy, JoinTimesOut, Goes
<1>1. TypeOK'
  BY SMTT(20)
<1>2. LockIsHeld' /\ MainTakesTurns' /\ PollIsAlone'
  BY SMTT(20) DEF LockIsHeld, MainTakesTurns
<1>3. PartsInOrder' /\ SlotIsKept'
  BY SMTT(20) DEF MainTakesTurns, SlotIsKept
<1>4. FilesFollow'
  BY SMTT(20) DEF LockIsHeld, MainTakesTurns, FilesFollow, Capturing
<1>5. ReportFollows' /\ FinalReportIsComplete'
  BY SMTT(20) DEF MainTakesTurns, ReportFollows, FinalReportIsComplete
<1> QED BY <1>1, <1>2, <1>3, <1>4, <1>5

LEMMA WriteReportStep ==
  ASSUME MonitorInv, WriteReport
  PROVE  MonitorInv'
<1> USE DEF MonitorInv, TypeOK, PollIsAlone, PartsInOrder, Alive, Busy, WriteReport, Goes
<1>1. TypeOK'
  BY SMTT(20)
<1>2. LockIsHeld' /\ MainTakesTurns' /\ PollIsAlone'
  BY SMTT(20) DEF LockIsHeld, MainTakesTurns
<1>3. PartsInOrder' /\ SlotIsKept'
  BY SMTT(20) DEF MainTakesTurns, SlotIsKept
<1>4. FilesFollow'
  BY SMTT(20) DEF LockIsHeld, MainTakesTurns, FilesFollow, Capturing
<1>5. ReportFollows' /\ FinalReportIsComplete'
  BY SMTT(20) DEF MainTakesTurns, ReportFollows, FinalReportIsComplete
<1> QED BY <1>1, <1>2, <1>3, <1>4, <1>5

LEMMA CloseStep ==
  ASSUME MonitorInv, Close
  PROVE  MonitorInv'
<1> USE DEF MonitorInv, TypeOK, PollIsAlone, PartsInOrder, Alive, Busy, Close, Goes
<1>1. TypeOK'
  BY SMTT(20)
<1>2. LockIsHeld' /\ MainTakesTurns' /\ PollIsAlone'
  BY SMTT(20) DEF LockIsHeld, MainTakesTurns
<1>3. PartsInOrder' /\ SlotIsKept'
  BY SMTT(20) DEF MainTakesTurns, SlotIsKept
<1>4. FilesFollow'
  BY SMTT(20) DEF LockIsHeld, MainTakesTurns, FilesFollow, Capturing
<1>5. ReportFollows' /\ FinalReportIsComplete'
  BY SMTT(20) DEF MainTakesTurns, ReportFollows, FinalReportIsComplete
<1> QED BY <1>1, <1>2, <1>3, <1>4, <1>5

LEMMA EndRunStep ==
  ASSUME MonitorInv, NEW how \in Outcomes, EndRun(how)
  PROVE  MonitorInv'
<1> USE DEF MonitorInv, TypeOK, PollIsAlone, PartsInOrder, Alive, Busy, EndRun, Goes
<1>1. TypeOK'
  BY SMTT(20)
<1>2. LockIsHeld' /\ MainTakesTurns' /\ PollIsAlone'
  BY SMTT(20) DEF LockIsHeld, MainTakesTurns
<1>3. PartsInOrder' /\ SlotIsKept'
  BY SMTT(20) DEF MainTakesTurns, SlotIsKept
<1>4. FilesFollow'
  BY SMTT(20) DEF LockIsHeld, MainTakesTurns, FilesFollow, Capturing
<1>5. ReportFollows' /\ FinalReportIsComplete'
  BY SMTT(20) DEF MainTakesTurns, ReportFollows, FinalReportIsComplete
<1> QED BY <1>1, <1>2, <1>3, <1>4, <1>5

LEMMA EnterStep ==
  ASSUME MonitorInv, Enter
  PROVE  MonitorInv'
<1>a. at["main"] = "begin" /\ captures < Limit /\ ~closed
      /\ ~(captures >= Limit \/ closed)
  BY DEF Enter, MonitorInv, TypeOK, MainTakesTurns, SlotIsKept
<1>b. /\ at' = [at EXCEPT !["main"] = "read"] /\ part' = [part EXCEPT !["main"] = 1]
      /\ UNCHANGED <<task, session, lock, counters, published>>
  BY <1>a, Zenon DEF Enter, BeginCapture
<1> USE <1>a, <1>b DEF MonitorInv, TypeOK, PollIsAlone, PartsInOrder, Alive, Busy
<1>1. TypeOK'
  BY SMTT(20)
<1>2. LockIsHeld' /\ MainTakesTurns' /\ PollIsAlone'
  BY SMTT(20) DEF LockIsHeld, MainTakesTurns
<1>3. PartsInOrder' /\ SlotIsKept'
  BY SMTT(20) DEF MainTakesTurns, SlotIsKept
<1>4. FilesFollow'
  BY SMTT(20) DEF LockIsHeld, MainTakesTurns, FilesFollow, Capturing
<1>5. ReportFollows' /\ FinalReportIsComplete'
  BY SMTT(20) DEF MainTakesTurns, ReportFollows, FinalReportIsComplete
<1> QED BY <1>1, <1>2, <1>3, <1>4, <1>5

LEMMA FinalCaptureStep ==
  ASSUME MonitorInv, FinalCapture
  PROVE  MonitorInv'
<1>a. at["main"] = "final" /\ captures < Limit /\ ~closed
      /\ ~(captures >= Limit \/ closed)
  BY DEF FinalCapture, MonitorInv, TypeOK, MainTakesTurns, SlotIsKept
<1>b. /\ at' = [at EXCEPT !["main"] = "read"] /\ part' = [part EXCEPT !["main"] = 1]
      /\ UNCHANGED <<task, session, lock, counters, published>>
  BY <1>a, Zenon DEF FinalCapture, BeginCapture
<1> USE <1>a, <1>b DEF MonitorInv, TypeOK, PollIsAlone, PartsInOrder, Alive, Busy
<1>1. TypeOK'
  BY SMTT(20)
<1>2. LockIsHeld' /\ MainTakesTurns' /\ PollIsAlone'
  BY SMTT(20) DEF LockIsHeld, MainTakesTurns
<1>3. PartsInOrder' /\ SlotIsKept'
  BY SMTT(20) DEF MainTakesTurns, SlotIsKept
<1>4. FilesFollow'
  BY SMTT(20) DEF LockIsHeld, MainTakesTurns, FilesFollow, Capturing
<1>5. ReportFollows' /\ FinalReportIsComplete'
  BY SMTT(20) DEF MainTakesTurns, ReportFollows, FinalReportIsComplete
<1> QED BY <1>1, <1>2, <1>3, <1>4, <1>5

LEMMA PollEndsStep ==
  ASSUME MonitorInv, PollWakes, captures >= Limit - 1
  PROVE  MonitorInv'
<1> USE DEF MonitorInv, TypeOK, PollIsAlone, PartsInOrder, Alive, Busy, PollWakes
<1>1. TypeOK'
  BY SMTT(20)
<1>2. LockIsHeld' /\ MainTakesTurns' /\ PollIsAlone'
  BY SMTT(20) DEF LockIsHeld, MainTakesTurns
<1>3. PartsInOrder' /\ SlotIsKept'
  BY SMTT(20) DEF MainTakesTurns, SlotIsKept
<1>4. FilesFollow'
  BY SMTT(20) DEF LockIsHeld, MainTakesTurns, FilesFollow, Capturing
<1>5. ReportFollows' /\ FinalReportIsComplete'
  BY SMTT(20) DEF MainTakesTurns, ReportFollows, FinalReportIsComplete
<1> QED BY <1>1, <1>2, <1>3, <1>4, <1>5

LEMMA PollCapturesStep ==
  ASSUME MonitorInv, PollWakes, captures < Limit - 1
  PROVE  MonitorInv'
<1>a. at["poll"] = "wait" /\ ~closed /\ ~(captures >= Limit - 1)
      /\ ~(captures >= Limit \/ closed)
  BY DEF PollWakes, MonitorInv, TypeOK, MainTakesTurns
<1>b. /\ at' = [at EXCEPT !["poll"] = "read"] /\ part' = [part EXCEPT !["poll"] = 1]
      /\ UNCHANGED <<task, session, lock, counters, published>>
  BY <1>a, Zenon DEF PollWakes, BeginCapture
<1> USE <1>a, <1>b DEF MonitorInv, TypeOK, PollIsAlone, PartsInOrder, Alive, Busy
<1>1. TypeOK'
  BY SMTT(20)
<1>2. LockIsHeld' /\ MainTakesTurns' /\ PollIsAlone'
  BY SMTT(20) DEF LockIsHeld, MainTakesTurns
<1>3. PartsInOrder' /\ SlotIsKept'
  BY SMTT(20) DEF MainTakesTurns, SlotIsKept
<1>4. FilesFollow'
  BY SMTT(20) DEF LockIsHeld, MainTakesTurns, FilesFollow, Capturing
<1>5. ReportFollows' /\ FinalReportIsComplete'
  BY SMTT(20) DEF MainTakesTurns, ReportFollows, FinalReportIsComplete
<1> QED BY <1>1, <1>2, <1>3, <1>4, <1>5

-----------------------------------------------------------------------------
LEMMA MonitorStep == MonitorInv /\ [Next]_vars => MonitorInv'
<1> SUFFICES ASSUME MonitorInv, [Next]_vars
             PROVE  MonitorInv'
  OBVIOUS
<1>1. ASSUME NEW t \in Threads, ReadSources(t) \/ Write(t) \/ Fail(t)
      PROVE  MonitorInv'
  BY <1>1, ReadClosedStep, ReadOpenStep, StageStep, LockStep, FindClosedStep, FindOpenStep,
     RenameStep, ReportPublishedStep, FailStep DEF Write
<1>2. CASE Enter \/ FinalCapture \/ WriteReport \/ Close
  BY <1>2, EnterStep, FinalCaptureStep, WriteReportStep, CloseStep
<1>3. CASE Joined \/ JoinTimesOut \/ \E how \in Outcomes : EndRun(how)
  BY <1>3, JoinedStep, JoinTimesOutStep, EndRunStep
<1>4. CASE PollStops
  BY <1>4, PollStopsStep
<1>5. CASE PollWakes
  <2>1. captures >= Limit - 1 \/ captures < Limit - 1
    BY DEF MonitorInv, TypeOK
  <2> QED BY <1>5, <2>1, PollEndsStep, PollCapturesStep
<1>6. CASE UNCHANGED vars
  BY <1>6 DEF vars, MonitorInv, TypeOK, LockIsHeld, MainTakesTurns, PollIsAlone, PartsInOrder,
              SlotIsKept, FilesFollow, ReportFollows, FinalReportIsComplete, Alive, Busy,
              Capturing
<1> QED BY <1>1, <1>2, <1>3, <1>4, <1>5, <1>6 DEF Next, Main, Poll, Over

LEMMA MonitorInvariant == Spec => []MonitorInv
<1>1. Init => MonitorInv
  BY MonitorInit
<1>2. MonitorInv /\ [Next]_vars => MonitorInv'
  BY MonitorStep
<1> QED BY <1>1, <1>2, PTL DEF Spec

(* Every variable of the collector (failure_monitor.py) stays in its type. *)
THEOREM MonitorTypes == Spec => []TypeOK
<1>1. MonitorInv => TypeOK
  BY DEF MonitorInv
<1> QED BY <1>1, MonitorInvariant, PTL

(* Whenever the host dies, report.json counts only captures of which every *)
(* source file and the manifest are published, for every interleaving of   *)
(* the two threads that run capture and _publish.                          *)
THEOREM CapturesAreWhole == Spec => []ReportCountsWholeCaptures
<1>1. MonitorInv => ReportCountsWholeCaptures
  <2> SUFFICES ASSUME MonitorInv, NEW c \in 0..(report.captures - 1)
               PROVE  files[c] = 1..Manifest
    BY DEF ReportCountsWholeCaptures
  <2>1. report.captures <= captures /\ captures \in 0..Limit /\ report.captures \in 0..Limit
    BY DEF MonitorInv, TypeOK, ReportFollows
  <2>2. c \in 0..(Limit - 1) /\ c < captures
    BY <2>1
  <2> QED BY <2>2 DEF MonitorInv, FilesFollow
<1> QED BY <1>1, MonitorInvariant, PTL

(* The report __exit__ leaves behind, which names how the run ended, is    *)
(* complete: the collector has ended, its counts and its error are the     *)
(* last ones, and without an error the last capture is the final one, for  *)
(* which the poll thread always leaves a slot.                             *)
THEOREM FinalReportComplete == Spec => []FinalReportIsComplete
<1>1. MonitorInv => FinalReportIsComplete
  BY DEF MonitorInv
<1> QED BY <1>1, MonitorInvariant, PTL

(* Once __exit__ closed the session no thread publishes a file, a manifest *)
(* or a report, however late its read of the device returns.               *)
THEOREM ClosedSessionIsQuiet == Spec => NothingPublishedAfterClose
<1>1. MonitorInv /\ [Next]_vars => [closed => UNCHANGED published]_vars
  <2> SUFFICES ASSUME MonitorInv, Next, closed
               PROVE  UNCHANGED published
    OBVIOUS
  <2>1. ASSUME NEW t \in Threads
        PROVE  ~Rename(t) /\ ~RenameReport(t)
    BY DEF MonitorInv, LockIsHeld, Rename, RenameReport, Goes
  <2>2. ASSUME NEW t \in Threads, ReadSources(t) \/ Write(t) \/ Fail(t)
        PROVE  UNCHANGED published
    BY <2>1, <2>2 DEF ReadSources, Write, Stage, Lock, FindClosed, FindOpen, Fail
  <2>3. CASE \/ Enter \/ FinalCapture \/ WriteReport \/ Close \/ Joined \/ JoinTimesOut
             \/ PollStops \/ PollWakes \/ Over \/ \E how \in Outcomes : EndRun(how)
    BY <2>3 DEF Enter, FinalCapture, WriteReport, Close, Joined, JoinTimesOut, PollStops,
                PollWakes, Over, EndRun, vars
  <2> QED BY <2>2, <2>3 DEF Next, Main, Poll
<1> QED BY <1>1, MonitorInvariant, PTL DEF Spec, NothingPublishedAfterClose
=============================================================================
