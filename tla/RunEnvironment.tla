--------------------------- MODULE RunEnvironment ---------------------------
(***************************************************************************)
(* RunEnvironment (run_environment.py): the display baseline that a graph  *)
(* keeps in its sidecar across runs, the display changes recorded there,   *)
(* and the restoration that ends a run (display_state.py).                 *)
(*                                                                         *)
(* Of the settings there are the size and the font scale, which have a     *)
(* restoration command, and the night flags, which have none.  What an     *)
(* input does to the display is there when the next capture is taken.      *)
(***************************************************************************)
EXTENDS Integers, Sequences

CONSTANTS
  MaxRuns,   \* bound: how often the program is started
  MaxChanges \* bound: how often the app changes a display setting

ASSUME EnvironmentAssumption == MaxRuns \in Nat /\ MaxChanges \in Nat

VARIABLES
  display,  \* the device's display settings
  native,   \* whether the app has turned the screen
  late,     \* whether a font write that follows a display reset is still to come
  report,   \* the sidecar on disk
  proc,     \* where the run is
  lastSeen, \* _last_display and _last_native
  todo,     \* restoration commands still to be executed
  final,    \* the last capture of the cleanup
  runs,     \* starts so far
  changes,  \* settings changed so far
  original, \* history: the display before the first run
  changed   \* history: whether an app changed it since it was last seen restored

deviceVars == <<display, native, late, changes, changed>>
environmentVars == <<deviceVars, report, proc, lastSeen, todo, final, runs, original>>

-----------------------------------------------------------------------------
Settings == {"size", "font", "flag"}
Display == [Settings -> {0, 1}]
DefaultFont == 0
RestorationCommands == <<"size", "font">>
CurrentScreen == [display |-> display, native |-> native]
NoDisplay == [s \in Settings |-> 2]
NoScreen == [display |-> NoDisplay, native |-> FALSE]
NoReport == [lifecycle |-> "none"]

\* changed_restoration_commands: those for the settings that still differ.
ChangedCommands(baseline, current) ==
  SelectSeq(RestorationCommands, LAMBDA s : baseline[s] # current[s])

-----------------------------------------------------------------------------
(* The sidecar.  change: the last of its changes, and whether the change   *)
(* names the observation that showed it.                                   *)
NewReport ==
  [baseline |-> display, lifecycle |-> "active", pending |-> RestorationCommands,
   actual |-> NoDisplay, change |-> NoScreen, named |-> FALSE]
Active(r) == [r EXCEPT !.lifecycle = "active", !.pending = RestorationCommands]

\* Fault: a resumed run takes the display it finds as its baseline.
EnteredAnew == NewReport

\* Fault: the sidecar of an earlier run is left as that run ended it.
EnteredUnmarked == IF report = NoReport THEN NewReport ELSE report

\* __enter__; saved before anything is sent to the device.
Entered == IF report = NoReport THEN NewReport ELSE Active(report)

\* Fault: only a display other than the baseline counts as a change.
NotedAgainstBaseline(records) ==
  IF lastSeen = CurrentScreen \/ display = report.baseline THEN report
  ELSE [report EXCEPT !.change = CurrentScreen, !.named = records]

\* get_state and record_observation: a screen unlike the last one is appended to the changes,
\* and named once its observation is recorded.
Noted(records) ==
  IF lastSeen = CurrentScreen THEN report
  ELSE [report EXCEPT !.change = CurrentScreen, !.named = records]

\* Fault: the display is restored unless a capture shows that it is not.
RestoredUnlessSeen == final \in {NoDisplay, report.baseline}

Restored == final = report.baseline

\* What the cleanup leaves: how it ended, and the commands left to the operator.
Reported ==
  [report EXCEPT !.lifecycle = IF Restored THEN "restored" ELSE "pending",
                 !.pending = IF Restored THEN <<>> ELSE RestorationCommands,
                 !.actual = final]

-----------------------------------------------------------------------------
(* The run.                                                                *)
EnvironmentInit ==
  /\ display \in {d \in Display : d["size"] = 0 /\ d["flag"] = 0}
  /\ original = display /\ native = FALSE /\ late = FALSE
  /\ report = NoReport /\ proc = "off" /\ lastSeen = NoScreen /\ todo = <<>>
  /\ final = NoDisplay /\ runs = 0 /\ changes = 0 /\ changed = FALSE

\* A write that follows the last run's restoration has come before the next run starts.
Enter ==
  /\ proc = "off" /\ runs < MaxRuns /\ ~late
  /\ runs' = runs + 1 /\ proc' = "startup"
  /\ report' = Entered
  /\ UNCHANGED <<deviceVars, lastSeen, todo, final, original>>

\* A screenshot and the display are captured; the run ends when the observation cannot be
\* recorded.
Observe ==
  /\ proc = "running"
  /\ \E records \in BOOLEAN :
       /\ report' = Noted(records)
       /\ proc' = IF records THEN proc ELSE "cleanup"
  /\ lastSeen' = CurrentScreen
  /\ UNCHANGED <<deviceVars, todo, final, runs, original>>

\* An input to the app turns the screen or changes a setting.
Affect ==
  /\ proc = "running"
  /\ \/ native' = ~native /\ UNCHANGED <<display, changes, changed>>
     \/ /\ changes < MaxChanges /\ changes' = changes + 1 /\ changed' = TRUE
        /\ \E s \in Settings : display' = [display EXCEPT ![s] = 1 - @]
        /\ UNCHANGED native
  /\ UNCHANGED <<late, report, proc, lastSeen, todo, final, runs, original>>

\* The exploration ends, with an error or without.
Finish ==
  /\ proc = "running" /\ proc' = "cleanup"
  /\ UNCHANGED <<deviceVars, report, lastSeen, todo, final, runs, original>>

\* The program is gone, with all that is not in the sidecar.
Leaves == proc' = "off" /\ lastSeen' = NoScreen /\ todo' = <<>> /\ final' = NoDisplay

-----------------------------------------------------------------------------
(* _cleanup.  Each call can fail, at the deadline all that follow do.      *)
CleanupUnchanged == UNCHANGED <<native, changes, changed, lastSeen, runs, original>>

Begin ==
  /\ proc = "cleanup" /\ proc' = "restore" /\ todo' = RestorationCommands
  /\ UNCHANGED <<display, late, report, final>> /\ CleanupUnchanged

\* A command is applied, or fails and may have been applied all the same; the reset of the
\* size is followed by a write of the default font scale.
Command ==
  /\ proc \in {"restore", "retry"} /\ todo # <<>>
  /\ \/ UNCHANGED <<display, late>>
     \/ /\ display' = [display EXCEPT ![Head(todo)] = report.baseline[Head(todo)]]
        /\ late' \in IF Head(todo) = "size" THEN BOOLEAN ELSE {late}
  /\ todo' = Tail(todo)
  /\ UNCHANGED <<report, proc, final>> /\ CleanupUnchanged

\* The verification; differences that have a command get one more try, in time.
Verify ==
  /\ proc = "restore" /\ todo = <<>>
  /\ final' \in {display, NoDisplay}
  /\ \/ proc' = "report" /\ UNCHANGED todo
     \/ /\ final' = display /\ display # report.baseline
        /\ ChangedCommands(report.baseline, display) # <<>>
        /\ proc' = "retry" /\ todo' = ChangedCommands(report.baseline, display)
  /\ UNCHANGED <<display, late, report>> /\ CleanupUnchanged

VerifyAgain ==
  /\ proc = "retry" /\ todo = <<>>
  /\ final' \in {display, NoDisplay} /\ proc' = "report"
  /\ UNCHANGED <<display, late, report, todo>> /\ CleanupUnchanged

\* The sidecar is written; when that fails the active one stays.
Report ==
  /\ proc = "report" /\ Leaves
  /\ \/ /\ report' = Reported
        /\ changed' = (changed /\ final # original)
     \/ UNCHANGED <<report, changed>>
  /\ UNCHANGED <<display, native, late, changes, runs, original>>

LateWrite ==
  /\ late /\ late' = FALSE
  /\ display' \in {display, [display EXCEPT !["font"] = DefaultFont]}
  /\ UNCHANGED <<native, changes, changed, report, proc, lastSeen, todo, final, runs, original>>

Crash ==
  /\ proc # "off" /\ Leaves
  /\ UNCHANGED <<deviceVars, report, runs, original>>

CleanupStep == Begin \/ Command \/ Verify \/ VerifyAgain \/ Report

-----------------------------------------------------------------------------
(* Types: what every variable holds.                                       *)
DisplaysSeen == Display \cup {NoDisplay}
Reports == {NoReport} \cup
  [baseline : Display, lifecycle : {"active", "pending", "restored"},
   pending : {<<>>, RestorationCommands}, actual : DisplaysSeen,
   change : [display : DisplaysSeen, native : BOOLEAN], named : BOOLEAN]
EnvironmentTypeOK ==
  /\ display \in Display /\ original \in Display /\ final \in DisplaysSeen
  /\ native \in BOOLEAN /\ late \in BOOLEAN /\ changed \in BOOLEAN
  /\ report \in Reports /\ lastSeen \in [display : DisplaysSeen, native : BOOLEAN]
  /\ proc \in {"off", "startup", "running", "cleanup", "restore", "retry", "report"}
  /\ todo \in {<<>>, <<"size">>, <<"font">>, RestorationCommands}
  /\ runs \in 0 .. MaxRuns /\ changes \in 0 .. MaxChanges

(* However many runs crashed with the display changed, a sidecar that says *)
(* "restored" was written after a capture of the display that the first    *)
(* run found.                                                              *)
RestoredIsTheFirstDisplay == report.lifecycle = "restored" => report.actual = original

(* A display an app has changed and no cleanup has seen restored has its   *)
(* restoration commands in the sidecar, whenever the program dies.         *)
ChangedDisplayHasARecoverySource ==
  changed => report.lifecycle \in {"active", "pending"} /\ report.pending = RestorationCommands

(* Once a run has seen the display, the last change of the sidecar is that *)
(* display with its observation, whatever the runs before it recorded.     *)
LastChangeIsTheDisplaySeen ==
  proc = "running" /\ lastSeen # NoScreen => report.change = lastSeen /\ report.named
=============================================================================
