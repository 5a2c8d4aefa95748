------------------------ MODULE DeviceSession_proofs ------------------------
(***************************************************************************)
(* Proofs about DeviceSession for any number of runs, crashes and display  *)
(* changes, and for every limit of an outage.                              *)
(*                                                                         *)
(* The display: from the first start on the sidecar holds the display the  *)
(* first run found, and while a run is on it is active with all its        *)
(* restoration commands.  The startup: a phase that looked at the screen   *)
(* again knows what the device shows, and what is left of its episode is   *)
(* the limit less what it has waited.                                      *)
(***************************************************************************)
EXTENDS DeviceSession, TLAPS

USE EnvironmentAssumption, RecoveryAssumption

-----------------------------------------------------------------------------
(* The inductive invariant: of the display, then of the startup.           *)

\* The sidecar while a run is on, and what it says when none is.
SidecarInv ==
  /\ report = NoReport => proc = "off" /\ display = original /\ ~late /\ ~changed
  /\ report # NoReport => report.baseline = original
  /\ proc # "off" => report.lifecycle = "active"
  /\ report.lifecycle = "active" => report.pending = RestorationCommands
  /\ RestoredIsTheFirstDisplay /\ ChangedDisplayHasARecoverySource

\* What a run has seen of the display before it is running, and then.
SeenInv ==
  /\ proc \in {"off", "startup"} => lastSeen = NoScreen
  /\ LastChangeIsTheDisplaySeen

\* EnvironmentTypeOK without the commands left and the bounds of the runs.
EnvTypes ==
  /\ display \in Display /\ original \in Display /\ final \in DisplaysSeen
  /\ native \in BOOLEAN /\ late \in BOOLEAN /\ changed \in BOOLEAN
  /\ report \in Reports /\ lastSeen \in [display : DisplaysSeen, native : BOOLEAN]
  /\ proc \in {"off", "startup", "running", "cleanup", "restore", "retry", "report"}

EnvironmentInv == EnvTypes /\ SidecarInv /\ SeenInv

\* What a phase knows of the device before it sends its input, again or for the first time.
InputInv ==
  /\ ~twice
  /\ step = "operate" => IF state = NoState THEN ~acted ELSE state = shown
  /\ phase = "recents" /\ acted => shown \in Recents
  /\ phase = "clear" => shown = IF acted THEN "home" ELSE "clear"
  /\ phase = "scroll" => swipes < Swipes

\* An episode counts what the phase has waited since it opened.
EpisodeInv ==
  /\ episode.open => waited + episode.left = Limit
  /\ ~episode.open => waited = 0 /\ episode.left = Limit /\ ~episode.confirmed
  /\ doubted = IF episode.confirmed THEN 1 ELSE 0
  /\ step # "operate" => episode.open

RecoveryInv == RecoveryTypeOK /\ InputInv /\ EpisodeInv
SessionInv == EnvironmentInv /\ RecoveryInv

-----------------------------------------------------------------------------
(* What the sidecar holds.                                                 *)

USE DEF deviceVars, Settings, NoReport

FullReports ==
  [baseline : Display, lifecycle : {"active", "pending", "restored"},
   pending : {<<>>, RestorationCommands}, actual : DisplaysSeen,
   change : [display : DisplaysSeen, native : BOOLEAN], named : BOOLEAN]

LEMMA SidecarIsFull ==
  ASSUME NEW r \in Reports
  PROVE  /\ r # NoReport => r \in FullReports
         /\ r.lifecycle # "none" <=> r # NoReport
BY DEF Reports, FullReports

LEMMA FullIsSidecar ==
  ASSUME NEW r \in FullReports
  PROVE  r \in Reports /\ r # NoReport
<1>1. r \in Reports
  BY DEF Reports, FullReports
<1>2. r.lifecycle # "none"
  BY DEF FullReports
<1> QED BY <1>1, <1>2

\* What __enter__, an observation and the cleanup write.
LEMMA NewReportIs ==
  ASSUME display \in Display
  PROVE  /\ NewReport \in FullReports /\ NewReport.baseline = display
         /\ NewReport.lifecycle = "active" /\ NewReport.pending = RestorationCommands
BY DEF NewReport, FullReports, NoScreen, DisplaysSeen

LEMMA ActiveIs ==
  ASSUME NEW r \in FullReports
  PROVE  /\ Active(r) \in FullReports /\ Active(r).baseline = r.baseline
         /\ Active(r).lifecycle = "active" /\ Active(r).pending = RestorationCommands
BY DEF Active, FullReports

LEMMA NotedIs ==
  ASSUME report \in FullReports, display \in Display, native \in BOOLEAN, NEW records \in BOOLEAN
  PROVE  /\ Noted(records) \in FullReports /\ Noted(records).baseline = report.baseline
         /\ Noted(records).lifecycle = report.lifecycle
         /\ Noted(records).pending = report.pending
         /\ lastSeen = CurrentScreen => Noted(records) = report
         /\ lastSeen # CurrentScreen => /\ Noted(records).change = CurrentScreen
                                        /\ Noted(records).named = records
BY DEF Noted, FullReports, CurrentScreen, DisplaysSeen

LEMMA ReportedIs ==
  ASSUME report \in FullReports, final \in DisplaysSeen
  PROVE  /\ Reported \in FullReports /\ Reported.baseline = report.baseline
         /\ Reported.actual = final
         /\ Restored => Reported.lifecycle = "restored" /\ Reported.pending = <<>>
         /\ ~Restored => /\ Reported.lifecycle = "pending"
                         /\ Reported.pending = RestorationCommands
BY DEF Reported, FullReports

LEMMA NoDisplayIsNone == NoDisplay \notin Display
<1>1. "size" \in Settings /\ NoDisplay["size"] = 2
  BY DEF NoDisplay
<1> QED BY <1>1 DEF Display

-----------------------------------------------------------------------------
(* Every step of the run environment keeps the invariant of the display.   *)

LEMMA EnterStep ==
  ASSUME EnvironmentInv, Enter
  PROVE  EnvironmentInv'
<1> USE DEF EnvironmentInv, EnvTypes
<1>1. /\ report' = IF report = NoReport THEN NewReport ELSE Active(report)
      /\ proc = "off" /\ proc' = "startup" /\ ~late
      /\ UNCHANGED <<display, native, late, changes, changed, lastSeen, final, original>>
  BY DEF Enter, Entered
<1>2. /\ report' \in FullReports /\ report'.baseline = original
      /\ report'.lifecycle = "active" /\ report'.pending = RestorationCommands
  BY <1>1, NewReportIs, ActiveIs, SidecarIsFull DEF SidecarInv
<1>3. EnvTypes'
  BY <1>1, <1>2, FullIsSidecar
<1>4. SidecarInv'
  BY <1>1, <1>2, FullIsSidecar
  DEF SidecarInv, RestoredIsTheFirstDisplay, ChangedDisplayHasARecoverySource
<1>5. SeenInv'
  BY <1>1 DEF SeenInv, LastChangeIsTheDisplaySeen
<1> QED BY <1>3, <1>4, <1>5

LEMMA ObserveStep ==
  ASSUME EnvironmentInv, Observe
  PROVE  EnvironmentInv'
<1> USE DEF EnvironmentInv, EnvTypes
<1>1. PICK records \in BOOLEAN : report' = Noted(records) /\ proc' = IF records THEN proc ELSE "cleanup"
  BY DEF Observe
<1>2. /\ proc = "running" /\ lastSeen' = CurrentScreen
      /\ UNCHANGED <<display, native, late, changes, changed, final, original>>
  BY DEF Observe
<1>3. report \in FullReports /\ report.lifecycle = "active"
  BY <1>2, SidecarIsFull DEF SidecarInv
<1>4. /\ report' \in FullReports /\ report'.baseline = report.baseline
      /\ report'.lifecycle = "active" /\ report'.pending = report.pending
  BY <1>1, <1>3, NotedIs
<1>5. CurrentScreen \in [display : DisplaysSeen, native : BOOLEAN] /\ CurrentScreen # NoScreen
  BY NoDisplayIsNone DEF CurrentScreen, NoScreen, DisplaysSeen
<1>6. EnvTypes'
  BY <1>1, <1>2, <1>4, <1>5, FullIsSidecar
<1>7. SidecarInv'
  BY <1>1, <1>2, <1>3, <1>4, FullIsSidecar
  DEF SidecarInv, RestoredIsTheFirstDisplay, ChangedDisplayHasARecoverySource
<1>8. SeenInv'
  <2> SUFFICES ASSUME proc' = "running"
               PROVE  report'.change = lastSeen' /\ report'.named
    BY <1>1, <1>2 DEF SeenInv, LastChangeIsTheDisplaySeen
  <2>1. records = TRUE
    BY <1>1
  <2>2. CASE lastSeen = CurrentScreen
    BY <1>1, <1>2, <1>3, <1>5, <2>2, NotedIs DEF SeenInv, LastChangeIsTheDisplaySeen
  <2>3. CASE lastSeen # CurrentScreen
    BY <1>1, <1>2, <1>3, <2>1, <2>3, NotedIs
  <2> QED BY <2>2, <2>3
<1> QED BY <1>6, <1>7, <1>8

LEMMA AffectStep ==
  ASSUME EnvironmentInv, Affect
  PROVE  EnvironmentInv'
<1> USE DEF EnvironmentInv, EnvTypes
<1>1. display' \in Display
  <2>1. ASSUME NEW t \in Settings, display' = [display EXCEPT ![t] = 1 - @]
        PROVE  display' \in Display
    BY <2>1 DEF Display
  <2> QED BY <2>1 DEF Affect
<1>2. native' \in BOOLEAN /\ changed' \in BOOLEAN
  BY DEF Affect
<1>3. /\ proc = "running" /\ proc' = proc /\ report.lifecycle = "active"
      /\ UNCHANGED <<late, report, lastSeen, final, original>>
  BY DEF Affect, SidecarInv
<1>4. EnvTypes'
  BY <1>1, <1>2, <1>3
<1>5. SidecarInv' /\ SeenInv'
  BY <1>3 DEF SidecarInv, RestoredIsTheFirstDisplay, ChangedDisplayHasARecoverySource,
      SeenInv,
              LastChangeIsTheDisplaySeen
<1> QED BY <1>4, <1>5

LEMMA FinishStep ==
  ASSUME EnvironmentInv, Finish
  PROVE  EnvironmentInv'
<1> USE SidecarIsFull DEF EnvironmentInv, EnvTypes, Finish
<1>1. EnvTypes'
  BY SMTT(20) DEF SidecarInv, Reports, FullReports, Display, DisplaysSeen, NoScreen
<1>2. SidecarInv'
  BY SMTT(20) DEF SidecarInv, FullReports, RestoredIsTheFirstDisplay,
      ChangedDisplayHasARecoverySource
<1>3. SeenInv'
  BY SMTT(20) DEF SeenInv, SidecarInv, FullReports, LastChangeIsTheDisplaySeen, NoScreen,
      DisplaysSeen
<1> QED BY <1>1, <1>2, <1>3

LEMMA BeginStep ==
  ASSUME EnvironmentInv, Begin
  PROVE  EnvironmentInv'
<1> USE SidecarIsFull DEF EnvironmentInv, EnvTypes, Begin, CleanupUnchanged
<1>1. EnvTypes'
  BY SMTT(20) DEF SidecarInv, Reports, FullReports, Display, DisplaysSeen, NoScreen
<1>2. SidecarInv'
  BY SMTT(20) DEF SidecarInv, FullReports, RestoredIsTheFirstDisplay,
      ChangedDisplayHasARecoverySource
<1>3. SeenInv'
  BY SMTT(20) DEF SeenInv, SidecarInv, FullReports, LastChangeIsTheDisplaySeen, NoScreen,
      DisplaysSeen
<1> QED BY <1>1, <1>2, <1>3

LEMMA CommandStep ==
  ASSUME EnvironmentInv, Command
  PROVE  EnvironmentInv'
<1> USE SidecarIsFull DEF EnvironmentInv, EnvTypes, Command, CleanupUnchanged
<1>1. EnvTypes'
  BY SMTT(20) DEF SidecarInv, Reports, FullReports, Display, DisplaysSeen, NoScreen
<1>2. SidecarInv'
  BY SMTT(20) DEF SidecarInv, FullReports, RestoredIsTheFirstDisplay,
      ChangedDisplayHasARecoverySource
<1>3. SeenInv'
  BY SMTT(20) DEF SeenInv, SidecarInv, FullReports, LastChangeIsTheDisplaySeen, NoScreen,
      DisplaysSeen
<1> QED BY <1>1, <1>2, <1>3

LEMMA VerifyStep ==
  ASSUME EnvironmentInv, Verify \/ VerifyAgain
  PROVE  EnvironmentInv'
<1> USE SidecarIsFull DEF EnvironmentInv, EnvTypes, Verify, VerifyAgain, CleanupUnchanged
<1>1. EnvTypes'
  BY SMTT(20) DEF SidecarInv, Reports, FullReports, Display, DisplaysSeen, NoScreen
<1>2. SidecarInv'
  BY SMTT(20) DEF SidecarInv, FullReports, RestoredIsTheFirstDisplay,
      ChangedDisplayHasARecoverySource
<1>3. SeenInv'
  BY SMTT(20) DEF SeenInv, SidecarInv, FullReports, LastChangeIsTheDisplaySeen, NoScreen,
      DisplaysSeen
<1> QED BY <1>1, <1>2, <1>3

LEMMA ReportStep ==
  ASSUME EnvironmentInv, Report
  PROVE  EnvironmentInv'
<1> USE DEF EnvironmentInv, EnvTypes
<1>1. /\ proc = "report" /\ proc' = "off" /\ lastSeen' = NoScreen /\ final' = NoDisplay
      /\ UNCHANGED <<display, native, late, changes, original>>
  BY DEF Report, Leaves
<1>2. /\ report \in FullReports /\ report.lifecycle = "active" /\ report # NoReport
      /\ report.pending = RestorationCommands /\ report.baseline = original
  BY <1>1, SidecarIsFull DEF SidecarInv
<1>3. NoScreen \in [display : DisplaysSeen, native : BOOLEAN] /\ NoDisplay \in DisplaysSeen
  BY DEF NoScreen, DisplaysSeen
<1>4. SeenInv'
  BY <1>1 DEF SeenInv, LastChangeIsTheDisplaySeen
<1>5. CASE UNCHANGED <<report, changed>>
  BY <1>1, <1>2, <1>3, <1>4, <1>5
  DEF SidecarInv, RestoredIsTheFirstDisplay, ChangedDisplayHasARecoverySource
<1>6. CASE report' = Reported /\ changed' = (changed /\ final # original)
  <2>1. report' \in FullReports /\ report'.baseline = original /\ report'.actual = final
    BY <1>2, <1>6, ReportedIs
  <2>2. report' \in Reports /\ report' # NoReport
    BY <2>1, FullIsSidecar
  <2>3. changed' \in BOOLEAN /\ (changed' => final # original)
    BY <1>6
  <2>4. CASE Restored
    <3>1. report'.lifecycle = "restored" /\ final = original
      BY <1>2, <1>6, <2>4, ReportedIs DEF Restored
    <3> QED BY <1>1, <1>3, <1>4, <2>1, <2>2, <2>3, <3>1
        DEF SidecarInv, RestoredIsTheFirstDisplay, ChangedDisplayHasARecoverySource
  <2>5. CASE ~Restored
    <3>1. report'.lifecycle = "pending" /\ report'.pending = RestorationCommands
      BY <1>2, <1>6, <2>5, ReportedIs
    <3> QED BY <1>1, <1>3, <1>4, <2>1, <2>2, <2>3, <3>1
        DEF SidecarInv, RestoredIsTheFirstDisplay, ChangedDisplayHasARecoverySource
  <2> QED BY <2>4, <2>5
<1> QED BY <1>5, <1>6 DEF Report

LEMMA LateWriteStep ==
  ASSUME EnvironmentInv, LateWrite
  PROVE  EnvironmentInv'
<1> USE DEF EnvironmentInv, EnvTypes
<1>1. display' \in Display
  BY DEF LateWrite, Display, DefaultFont
<1>2. /\ late /\ late' = FALSE
      /\ UNCHANGED <<native, changed, report, proc, lastSeen, final, original>>
  BY DEF LateWrite
<1>3. EnvTypes'
  BY <1>1, <1>2
<1>4. SidecarInv' /\ SeenInv'
  BY <1>2 DEF SidecarInv, RestoredIsTheFirstDisplay, ChangedDisplayHasARecoverySource,
      SeenInv,
              LastChangeIsTheDisplaySeen
<1> QED BY <1>3, <1>4

LEMMA CrashStep ==
  ASSUME EnvironmentInv, Crash
  PROVE  EnvironmentInv'
<1> USE SidecarIsFull DEF EnvironmentInv, EnvTypes, Crash, Leaves
<1>1. EnvTypes'
  BY SMTT(20) DEF SidecarInv, Reports, FullReports, Display, DisplaysSeen, NoScreen
<1>2. SidecarInv'
  BY SMTT(20) DEF SidecarInv, FullReports, RestoredIsTheFirstDisplay,
      ChangedDisplayHasARecoverySource
<1>3. SeenInv'
  BY SMTT(20) DEF SeenInv, SidecarInv, FullReports, LastChangeIsTheDisplaySeen, NoScreen,
      DisplaysSeen
<1> QED BY <1>1, <1>2, <1>3

-----------------------------------------------------------------------------
(* The episode of a phase, and every step of the startup.                  *)

USE DEF Phases, Recents, Screens, NoState, NotFollowed, Inputs

LEMMA EpisodeFields ==
  ASSUME RecoveryTypeOK
  PROVE  episode.left \in 0 .. Limit /\ episode.open \in BOOLEAN /\ episode.confirmed \in BOOLEAN
BY DEF RecoveryTypeOK

LEMMA SpentIs ==
  ASSUME RecoveryTypeOK, NEW t \in 0 .. episode.left
  PROVE  /\ Spent(t) \in [open : BOOLEAN, left : 0 .. Limit, confirmed : BOOLEAN]
         /\ Spent(t).left = episode.left - t
         /\ Spent(t).open = episode.open /\ Spent(t).confirmed = episode.confirmed
BY DEF RecoveryTypeOK, Spent

LEMMA TimedOutIs ==
  ASSUME RecoveryTypeOK, EpisodeInv, NEW t \in 1 .. episode.left, NEW w,
         w = IF episode.open THEN Waited(t) ELSE 0
  PROVE  /\ TimedOut(t) \in [open : BOOLEAN, left : 0 .. Limit, confirmed : BOOLEAN]
         /\ TimedOut(t).open /\ TimedOut(t).confirmed = episode.confirmed
         /\ w \in 0 .. Limit /\ w + TimedOut(t).left = Limit
<1>1. CASE episode.open
  <2>1. TimedOut(t) = Spent(t) /\ w = Waited(t) /\ t \in 0 .. episode.left
    BY <1>1, EpisodeFields DEF TimedOut
  <2>2. waited \in 0 .. Limit + 1 /\ waited + episode.left = Limit
    BY <1>1 DEF RecoveryTypeOK, EpisodeInv
  <2>3. w = waited + t
    BY <2>1, <2>2, EpisodeFields DEF Waited
  <2>4. /\ Spent(t) \in [open : BOOLEAN, left : 0 .. Limit, confirmed : BOOLEAN]
        /\ Spent(t).left = episode.left - t
        /\ Spent(t).open = episode.open /\ Spent(t).confirmed = episode.confirmed
    BY <2>1, SpentIs
  <2>5. w \in 0 .. Limit /\ w + Spent(t).left = Limit
    BY <2>2, <2>3, <2>4, EpisodeFields
  <2> QED BY <1>1, <2>1, <2>4, <2>5
<1>2. CASE ~episode.open
  <2>1. TimedOut(t) = Episode(TRUE, Limit, FALSE)
    BY <1>2 DEF TimedOut
  <2>2. w = 0 /\ episode.confirmed = FALSE
    BY <1>2, EpisodeFields, SMTT(30) DEF EpisodeInv
  <2>3. /\ TimedOut(t) \in [open : BOOLEAN, left : 0 .. Limit, confirmed : BOOLEAN]
        /\ TimedOut(t).open /\ TimedOut(t).left = Limit /\ TimedOut(t).confirmed = FALSE
    BY <2>1 DEF Episode
  <2>4. TimedOut(t).confirmed = episode.confirmed
    BY <2>2, <2>3, Zenon
  <2>5. w \in 0 .. Limit /\ w + TimedOut(t).left = Limit
    BY <2>2, <2>3
  <2> QED BY <2>3, <2>4, <2>5, Zenon
<1> QED BY <1>1, <1>2

LEMMA NoEpisodeIs ==
  /\ NoEpisode \in [open : BOOLEAN, left : 0 .. Limit, confirmed : BOOLEAN]
  /\ NoEpisode.left = Limit /\ NoEpisode.open = FALSE /\ NoEpisode.confirmed = FALSE
BY DEF NoEpisode, Episode

LEMMA EndRecovery ==
  ASSUME RecoveryInv, NEW end \in {"started", "failed"}, EndsAs(end)
  PROVE  RecoveryInv'
<1> USE NoEpisodeIs DEF RecoveryInv, EndsAs
<1>1. RecoveryTypeOK'
  <2>1. /\ episode' \in [open : BOOLEAN, left : 0 .. Limit, confirmed : BOOLEAN]
        /\ acted' \in BOOLEAN /\ twice' \in BOOLEAN
    BY DEF RecoveryTypeOK, EpisodeInv
  <2>2. /\ phase' \in Phases \cup {"started", "failed"}
        /\ step' \in {"operate", "probe", "read", "sleep"}
        /\ state' \in Screens \cup {NoState} /\ seen' \in Screens \cup {NoState}
        /\ shown' \in Screens
        /\ swipes' \in 0 .. Swipes
    BY SMTT(20) DEF RecoveryTypeOK, InputInv
  <2>3. waited' \in 0 .. Limit + 1 /\ doubted' \in Nat
    BY SMTT(20) DEF RecoveryTypeOK, EpisodeInv
  <2> QED BY <2>1, <2>2, <2>3 DEF RecoveryTypeOK
<1>2. InputInv'
  BY SMTT(20) DEF RecoveryTypeOK, InputInv
<1>3. EpisodeInv'
  BY SMTT(20) DEF RecoveryTypeOK, EpisodeInv
<1> QED BY <1>1, <1>2, <1>3

LEMMA OperateRecovery ==
  ASSUME RecoveryInv, Operate
  PROVE  RecoveryInv'
<1> USE NoEpisodeIs DEF RecoveryInv, Operate, Doing, Arrives, Reached, Sends, Following
<1>1. RecoveryTypeOK'
  <2>1. /\ episode' \in [open : BOOLEAN, left : 0 .. Limit, confirmed : BOOLEAN]
        /\ acted' \in BOOLEAN /\ twice' \in BOOLEAN
    BY DEF RecoveryTypeOK, EpisodeInv
  <2>2. /\ phase' \in Phases \cup {"started", "failed"}
        /\ step' \in {"operate", "probe", "read", "sleep"}
        /\ state' \in Screens \cup {NoState} /\ seen' \in Screens \cup {NoState}
        /\ shown' \in Screens
        /\ swipes' \in 0 .. Swipes
    BY SMTT(20) DEF RecoveryTypeOK, InputInv
  <2>3. waited' \in 0 .. Limit + 1 /\ doubted' \in Nat
    BY SMTT(20) DEF RecoveryTypeOK, EpisodeInv
  <2> QED BY <2>1, <2>2, <2>3 DEF RecoveryTypeOK
<1>2. InputInv'
  BY SMTT(20) DEF RecoveryTypeOK, InputInv
<1>3. EpisodeInv'
  BY SMTT(20) DEF RecoveryTypeOK, EpisodeInv
<1> QED BY <1>1, <1>2, <1>3

LEMMA ProbeRecovery ==
  ASSUME RecoveryInv, NEW t \in 0 .. episode.left, Probe, Spends(t)
  PROVE  RecoveryInv'
<1> USE SpentIs, EpisodeFields DEF RecoveryInv, Probe, Doing, InTime, Spends,
    WaitUnchanged, Waited
<1>1. RecoveryTypeOK'
  BY SMTT(20) DEF RecoveryTypeOK, InputInv
<1>2. InputInv'
  BY SMTT(20) DEF RecoveryTypeOK, InputInv
<1>3. EpisodeInv'
  BY SMTT(20) DEF RecoveryTypeOK, EpisodeInv
<1> QED BY <1>1, <1>2, <1>3

LEMMA RecoverRecovery ==
  ASSUME RecoveryInv, NEW t \in 0 .. episode.left - 1, Recover, Spends(t)
  PROVE  RecoveryInv'
<1> USE SpentIs, EpisodeFields DEF RecoveryInv, Recover, Doing, InTime, Spends,
    WaitUnchanged, Waited
<1>1. RecoveryTypeOK'
  BY SMTT(20) DEF RecoveryTypeOK, InputInv
<1>2. InputInv'
  BY SMTT(20) DEF RecoveryTypeOK, InputInv
<1>3. EpisodeInv'
  BY SMTT(20) DEF RecoveryTypeOK, EpisodeInv
<1> QED BY <1>1, <1>2, <1>3

LEMMA ReadTimesOutRecovery ==
  ASSUME RecoveryInv, NEW t \in 0 .. episode.left, ReadTimesOut, Spends(t)
  PROVE  RecoveryInv'
<1> USE SpentIs, EpisodeFields DEF RecoveryInv, ReadTimesOut, Doing, InTime, Spends,
    WaitUnchanged, Waited
<1>1. RecoveryTypeOK'
  BY SMTT(20) DEF RecoveryTypeOK, InputInv
<1>2. InputInv'
  BY SMTT(20) DEF RecoveryTypeOK, InputInv
<1>3. EpisodeInv'
  BY SMTT(20) DEF RecoveryTypeOK, EpisodeInv
<1> QED BY <1>1, <1>2, <1>3

LEMMA ReadFailsRecovery ==
  ASSUME RecoveryInv, ReadFails
  PROVE  RecoveryInv'
<1> USE EpisodeFields DEF RecoveryInv, ReadFails, Doing, InTime, WaitUnchanged
<1>1. RecoveryTypeOK'
  <2>1. /\ episode' \in [open : BOOLEAN, left : 0 .. Limit, confirmed : BOOLEAN]
        /\ acted' \in BOOLEAN /\ twice' \in BOOLEAN
    BY DEF RecoveryTypeOK, EpisodeInv
  <2>2. /\ phase' \in Phases \cup {"started", "failed"}
        /\ step' \in {"operate", "probe", "read", "sleep"}
        /\ state' \in Screens \cup {NoState} /\ seen' \in Screens \cup {NoState}
        /\ shown' \in Screens
        /\ swipes' \in 0 .. Swipes
    BY SMTT(20) DEF RecoveryTypeOK, InputInv
  <2>3. waited' \in 0 .. Limit + 1 /\ doubted' \in Nat
    BY SMTT(20) DEF RecoveryTypeOK, EpisodeInv
  <2> QED BY <2>1, <2>2, <2>3 DEF RecoveryTypeOK
<1>2. InputInv'
  BY SMTT(20) DEF RecoveryTypeOK, InputInv
<1>3. EpisodeInv'
  BY SMTT(20) DEF RecoveryTypeOK, EpisodeInv
<1> QED BY <1>1, <1>2, <1>3

LEMMA SleepRecovery ==
  ASSUME RecoveryInv, Sleep
  PROVE  RecoveryInv'
<1> USE SpentIs, EpisodeFields DEF RecoveryInv, Sleep, Doing, InTime, Spends,
    WaitUnchanged, Waited
<1>1. RecoveryTypeOK'
  <2>1. /\ episode' \in [open : BOOLEAN, left : 0 .. Limit, confirmed : BOOLEAN]
        /\ acted' \in BOOLEAN /\ twice' \in BOOLEAN
    BY DEF RecoveryTypeOK, EpisodeInv
  <2>2. /\ phase' \in Phases \cup {"started", "failed"}
        /\ step' \in {"operate", "probe", "read", "sleep"}
        /\ state' \in Screens \cup {NoState} /\ seen' \in Screens \cup {NoState}
        /\ shown' \in Screens
        /\ swipes' \in 0 .. Swipes
    BY SMTT(20) DEF RecoveryTypeOK, InputInv
  <2>3. waited' \in 0 .. Limit + 1 /\ doubted' \in Nat
    BY SMTT(20) DEF RecoveryTypeOK, EpisodeInv
  <2> QED BY <2>1, <2>2, <2>3 DEF RecoveryTypeOK
<1>2. InputInv'
  BY SMTT(20) DEF RecoveryTypeOK, InputInv
<1>3. EpisodeInv'
  BY SMTT(20) DEF RecoveryTypeOK, EpisodeInv
<1> QED BY <1>1, <1>2, <1>3

LEMMA OperateTimesOutRecovery ==
  ASSUME RecoveryInv, OperateTimesOut
  PROVE  RecoveryInv'
<1> USE TimedOutIs, EpisodeFields DEF RecoveryInv, OperateTimesOut, Doing, Arrives,
    Reached, Sends, TakesEffect
<1>1. RecoveryTypeOK'
  BY SMTT(20) DEF RecoveryTypeOK, InputInv
<1>2. InputInv'
  BY SMTT(20) DEF RecoveryTypeOK, InputInv
<1>3. EpisodeInv'
  BY SMTT(20) DEF RecoveryTypeOK, EpisodeInv
<1> QED BY <1>1, <1>2, <1>3

LEMMA RecoverySteps == RecoveryInv /\ RecoveryStep => RecoveryInv'
<1> SUFFICES ASSUME RecoveryInv, RecoveryStep
             PROVE  RecoveryInv'
  OBVIOUS
<1>1. CASE Launched \/ OperateFails \/ Unreachable \/ ReadStops
  BY <1>1, EndRecovery DEF Launched, OperateFails, Unreachable, ReadStops
<1>2. CASE Operate \/ OperateTimesOut
  BY <1>2, OperateRecovery, OperateTimesOutRecovery
<1>3. CASE Probe
  BY <1>3, ProbeRecovery DEF Probe
<1>4. CASE Recover
  BY <1>4, RecoverRecovery DEF Recover
<1>5. CASE ReadTimesOut
  BY <1>5, ReadTimesOutRecovery DEF ReadTimesOut
<1>6. CASE ReadFails \/ Sleep
  BY <1>6, ReadFailsRecovery, SleepRecovery
<1> QED BY <1>1, <1>2, <1>3, <1>4, <1>5, <1>6 DEF RecoveryStep

\* The phases of a startup begin as they do at RecoveryInit.
LEMMA FreshRecovery ==
  /\ RecoveryInit => RecoveryInv
  /\ RecoveryReset => RecoveryInv'
<1>1. ASSUME RecoveryInit
      PROVE  RecoveryInv
  <2>1. episode \in [open : BOOLEAN, left : 0 .. Limit, confirmed : BOOLEAN]
        /\ acted \in BOOLEAN /\ twice \in BOOLEAN
    BY <1>1, NoEpisodeIs DEF RecoveryInit
  <2>2. RecoveryTypeOK
    BY <1>1, <2>1 DEF RecoveryInit, RecoveryTypeOK
  <2>3. InputInv /\ EpisodeInv
    BY <1>1, NoEpisodeIs DEF RecoveryInit, InputInv, EpisodeInv
  <2> QED BY <2>2, <2>3 DEF RecoveryInv
<1>2. ASSUME RecoveryReset
      PROVE  RecoveryInv'
  <2>1. episode' \in [open : BOOLEAN, left : 0 .. Limit, confirmed : BOOLEAN]
        /\ acted' \in BOOLEAN /\ twice' \in BOOLEAN
    BY <1>2, NoEpisodeIs DEF RecoveryReset
  <2>2. RecoveryTypeOK'
    BY <1>2, <2>1 DEF RecoveryReset, RecoveryTypeOK
  <2>3. InputInv' /\ EpisodeInv'
    BY <1>2, NoEpisodeIs DEF RecoveryReset, InputInv, EpisodeInv
  <2> QED BY <2>2, <2>3 DEF RecoveryInv
<1> QED BY <1>1, <1>2

-----------------------------------------------------------------------------
LEMMA SessionInit == Init => SessionInv
<1> SUFFICES ASSUME Init
             PROVE  EnvironmentInv /\ RecoveryInv
  BY DEF SessionInv
<1>1. RecoveryInv
  BY FreshRecovery DEF Init
<1>2. EnvTypes
  BY DEF Init, EnvironmentInit, EnvTypes, Reports, DisplaysSeen, NoScreen
<1>3. SidecarInv /\ SeenInv
  BY DEF Init, EnvironmentInit, SidecarInv, SeenInv, RestoredIsTheFirstDisplay,
         ChangedDisplayHasARecoverySource, LastChangeIsTheDisplaySeen
<1> QED BY <1>1, <1>2, <1>3 DEF EnvironmentInv

\* The startup touches the display only in where the run goes on.
LEMMA StartupStep ==
  ASSUME EnvironmentInv, Startup
  PROVE  EnvironmentInv'
<1>1. /\ proc = "startup" /\ proc' \in {"startup", "running", "cleanup"}
      /\ UNCHANGED <<deviceVars, report, lastSeen, final, original>>
  BY DEF Startup
<1> QED BY <1>1 DEF EnvironmentInv, EnvTypes, SidecarInv, SeenInv, RestoredIsTheFirstDisplay,
                    ChangedDisplayHasARecoverySource, LastChangeIsTheDisplaySeen

LEMMA SessionStep == SessionInv /\ [Next]_sessionVars => SessionInv'
<1> SUFFICES ASSUME EnvironmentInv, RecoveryInv, [Next]_sessionVars
             PROVE  EnvironmentInv' /\ RecoveryInv'
  BY DEF SessionInv
<1>1. ASSUME UNCHANGED recoveryVars
      PROVE  RecoveryInv'
  BY <1>1 DEF recoveryVars, RecoveryInv, RecoveryTypeOK, InputInv, EpisodeInv
<1>2. CASE Starts \/ Killed
  BY <1>2, EnterStep, CrashStep, FreshRecovery DEF Starts, Killed
<1>3. CASE Startup
  BY <1>3, StartupStep, RecoverySteps DEF Startup
<1>4. CASE Explores
  BY <1>1, <1>4, ObserveStep, AffectStep, FinishStep DEF Explores
<1>5. CASE CleansUp
  BY <1>1, <1>5, BeginStep, CommandStep, VerifyStep, ReportStep DEF CleansUp, CleanupStep
<1>6. CASE Settles
  BY <1>1, <1>6, LateWriteStep DEF Settles
<1>7. CASE UNCHANGED sessionVars
  BY <1>1, <1>7 DEF sessionVars, environmentVars, EnvironmentInv, EnvTypes, SidecarInv, SeenInv,
                    RestoredIsTheFirstDisplay, ChangedDisplayHasARecoverySource,
                    LastChangeIsTheDisplaySeen
<1> QED BY <1>2, <1>3, <1>4, <1>5, <1>6, <1>7 DEF Next, Ends

LEMMA SessionInvariant == Spec => []SessionInv
<1>1. Init => SessionInv
  BY SessionInit
<1>2. SessionInv /\ [Next]_sessionVars => SessionInv'
  BY SessionStep
<1> QED BY <1>1, <1>2, PTL DEF Spec

(* A sidecar that says "restored" was written after a capture of the       *)
(* display the first run found, however many runs crashed with the display *)
(* changed (RunEnvironment.__enter__ keeps the baseline of the sidecar).   *)
THEOREM RestoredToTheFirst == Spec => []RestoredIsTheFirstDisplay
<1>1. SessionInv => RestoredIsTheFirstDisplay
  BY DEF SessionInv, EnvironmentInv, SidecarInv
<1> QED BY <1>1, SessionInvariant, PTL

(* A display the app changed and no cleanup has seen restored has all its  *)
(* restoration commands in the sidecar, wherever the program dies.         *)
THEOREM ChangesAreRecoverable == Spec => []ChangedDisplayHasARecoverySource
<1>1. SessionInv => ChangedDisplayHasARecoverySource
  BY DEF SessionInv, EnvironmentInv, SidecarInv
<1> QED BY <1>1, SessionInvariant, PTL

(* Once a run has seen the display, the last change in the sidecar is that *)
(* display, with its observation (get_state and record_observation).       *)
THEOREM LastChangeIsSeen == Spec => []LastChangeIsTheDisplaySeen
<1>1. SessionInv => LastChangeIsTheDisplaySeen
  BY DEF SessionInv, EnvironmentInv, SeenInv
<1> QED BY <1>1, SessionInvariant, PTL

(* Every variable of the startup and of its recovery stays in its type.    *)
THEOREM RecoveryTypes == Spec => []RecoveryTypeOK
<1>1. SessionInv => RecoveryTypeOK
  BY DEF SessionInv, RecoveryInv
<1> QED BY <1>1, SessionInvariant, PTL

(* No key, tap or swipe of the startup reaches the device again once it    *)
(* has taken effect, whatever the device showed at the start, however the  *)
(* calls time out and whatever the recovered screen shows (open_recents,   *)
(* clear_recents and StartupRecovery.input look at it first).              *)
THEOREM InputsHaveOneEffect == Spec => []InputsTakeEffectOnce
<1>1. SessionInv => InputsTakeEffectOnce
  BY DEF SessionInv, RecoveryInv, InputInv, InputsTakeEffectOnce
<1> QED BY <1>1, SessionInvariant, PTL

(* All the outages of one startup phase together wait no longer than       *)
(* unreachable_limit, and pass over one unclassified failure at most       *)
(* (RecoveryEpisode: one deadline and one confirmation).                   *)
THEOREM OneLimitPerPhase == Spec => []OneEpisodePerPhase
<1>1. SessionInv => OneEpisodePerPhase
  <2> SUFFICES ASSUME RecoveryInv
               PROVE  waited <= Limit /\ doubted <= 1
    BY DEF SessionInv, OneEpisodePerPhase
  <2>1. doubted <= 1
    BY DEF RecoveryInv, EpisodeInv
  <2>2. waited <= Limit
    BY EpisodeFields DEF RecoveryInv, RecoveryTypeOK, EpisodeInv
  <2> QED BY <2>1, <2>2
<1> QED BY <1>1, SessionInvariant, PTL
=============================================================================
