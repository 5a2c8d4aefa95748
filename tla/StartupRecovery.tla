-------------------------- MODULE StartupRecovery ---------------------------
(***************************************************************************)
(* The startup of a run on a device that may stop answering: the phases of *)
(* terminate_all_apps, grant_runtime_permissions and launch_app, each      *)
(* inside StartupRecovery.run, and wait_for_device_state (device.py).      *)
(*                                                                         *)
(* A call that times out may have reached the device.  Time is counted in  *)
(* intervals of the wait (_CHECK_INTERVAL_SECONDS): a call that returns    *)
(* may take any of the time left, one that times out at least an interval. *)
(***************************************************************************)
EXTENDS Integers

CONSTANTS
  Limit, \* unreachable_limit: what the outages of one phase may take
  Swipes \* _CLEAR_ALL_SWIPES

ASSUME RecoveryAssumption == Limit \in Nat \ {0} /\ Swipes \in Nat

VARIABLES
  phase,   \* the startup phase, or how the startup ended
  step,    \* what StartupRecovery.run is doing in it
  state,   \* the screen recovered after a timeout of this phase
  episode, \* the recovery episode of this phase
  seen,    \* what the last look at the recent apps showed
  swipes,  \* swipes so far
  shown,   \* what the device shows during a startup
  acted,   \* history: whether this phase's input has reached the device and taken effect
  twice,   \* history: whether some phase's input reached it after that
  waited,  \* history: the time this phase has waited since it first timed out
  doubted  \* history: the unclassified failures this phase has passed over

recoveryVars ==
  <<phase, step, state, episode, seen, swipes, shown, acted, twice, waited, doubted>>

-----------------------------------------------------------------------------
(* The device.  "list": recent apps with Clear all out of sight.           *)
Recents == {"list", "clear", "empty"}
Screens == Recents \cup {"elsewhere", "home", "app"}
NoState == "none"

\* Between startups; each begins on any screen, the recent apps of a killed run included.
NotFollowed == "elsewhere"

Phases == {"recents", "look", "scroll", "clear", "home", "grants", "resolve", "launch"}
\* The inputs that do something else when they are sent again; Home does not.
Inputs == {"recents", "scroll", "clear"}

\* What the device may show once the phase's input has reached it; the key of the recent apps
\* closes them when they are open.
Reached ==
  CASE phase = "recents" -> IF shown \in Recents THEN {"elsewhere"} ELSE Recents
    [] phase = "scroll"  -> IF shown = "list" THEN {"list", "clear"} ELSE {shown}
    [] phase = "clear"   -> IF shown = "clear" THEN {"home"} ELSE {shown}
    [] phase = "home"    -> {"home"}
    [] phase = "launch"  -> {"app"}
    [] OTHER             -> {shown}

\* What the key is pressed for is recent apps that are open.
TakesEffect == phase = "recents" => shown \notin Recents

\* Fault: the screen recovered after a timeout is not looked at.
SendsAgain == TRUE

\* Whether the phase sends its input or command, given the screen recovered, if any.
Sends ==
  CASE phase = "recents" -> state \notin Recents
    [] phase = "scroll"  -> state = NoState
    [] phase = "clear"   -> state \in {NoState, "clear"}
    [] phase = "launch"  -> state # "app"
    [] OTHER             -> TRUE

\* The phase that follows, when the last look found look.
Following(look) ==
  CASE phase \in {"recents", "scroll"} -> "look"
    [] phase = "look" -> IF look = "clear" THEN "clear"
                         ELSE IF look = "empty" \/ swipes = Swipes THEN "home" ELSE "scroll"
    [] phase \in {"clear", "home"} -> "grants"
    [] phase = "grants" -> "resolve"
    [] phase = "resolve" -> "launch"

\* The phases with calls whose exit code is checked; keys, taps and swipes are not.
MayFail == {"look", "grants", "resolve", "launch"}

-----------------------------------------------------------------------------
(* One episode per phase.                                                  *)
Episode(open, left, confirmed) == [open |-> open, left |-> left, confirmed |-> confirmed]
NoEpisode == Episode(FALSE, Limit, FALSE)
\* Counted to the first interval past the limit.
Waited(t) == IF waited + t > Limit THEN Limit + 1 ELSE waited + t
Spent(t) == [episode EXCEPT !.left = @ - t]

\* Fault: every timeout opens an episode of its own.
TimedOutAnew(t) == Episode(TRUE, Limit, episode.confirmed)

\* The episode after a timeout of t intervals: the first one of the phase opens it.
TimedOut(t) == IF episode.open THEN Spent(t) ELSE Episode(TRUE, Limit, FALSE)

\* The check before each operation, probe and sleep, and after each result.
InTime == ~episode.open \/ episode.left > 0

RecoveryInit ==
  /\ phase = "recents" /\ step = "operate" /\ state = NoState /\ episode = NoEpisode
  /\ seen = NoState /\ swipes = 0 /\ shown = NotFollowed
  /\ acted = FALSE /\ twice = FALSE /\ waited = 0 /\ doubted = 0

Doing(s) == phase \in Phases /\ step = s

\* The input reaches the device, or not.
Arrives(reaches) ==
  /\ shown' \in IF reaches THEN Reached ELSE {shown}
  /\ twice' = (twice \/ (reaches /\ acted /\ phase \in Inputs))

Spends(t) ==
  /\ episode' = Spent(t)
  /\ waited' = Waited(t)

\* The startup is over, and with it what its phases knew.
EndsAs(end) ==
  /\ phase' = end /\ step' = "operate" /\ state' = NoState /\ episode' = NoEpisode
  /\ seen' = NoState /\ swipes' = 0 /\ shown' = NotFollowed
  /\ acted' = FALSE /\ waited' = 0 /\ doubted' = 0
  /\ UNCHANGED twice

\* The operation returns in time, and the next phase begins.
Operate ==
  /\ Doing("operate") /\ InTime /\ phase # "launch"
  /\ Arrives(Sends)
  /\ seen' = IF phase = "look" THEN shown ELSE seen
  /\ swipes' = IF phase = "scroll" THEN swipes + 1 ELSE swipes
  /\ phase' = Following(seen')
  /\ state' = NoState /\ episode' = NoEpisode
  /\ acted' = FALSE /\ waited' = 0 /\ doubted' = 0
  /\ UNCHANGED step

Launched == Doing("operate") /\ InTime /\ phase = "launch" /\ EndsAs("started")

\* An adb command exits with an error, which ends the startup.
OperateFails == Doing("operate") /\ InTime /\ phase \in MayFail /\ EndsAs("failed")

\* A call times out; what it sent may have reached the device.
OperateTimesOut ==
  /\ Doing("operate") /\ InTime /\ Sends
  /\ \E t \in 1 .. episode.left :
       /\ episode' = TimedOut(t)
       /\ waited' = IF episode.open THEN Waited(t) ELSE 0
  /\ \E reaches \in BOOLEAN : /\ Arrives(reaches)
                               /\ acted' = (acted \/ (reaches /\ TakesEffect))
  /\ step' = "probe"
  /\ UNCHANGED <<phase, state, seen, swipes, doubted>>

\* DeviceUnreachableError: the deadline has passed, before a call or when it returns.
Unreachable ==
  /\ phase \in Phases
  /\ ~InTime \/ (Doing("operate") /\ episode.open)
  /\ EndsAs("failed")

-----------------------------------------------------------------------------
(* wait_for_device_state, inside the episode.                              *)
WaitUnchanged == UNCHANGED <<seen, swipes, shown, acted, twice>>

Probe ==
  /\ Doing("probe") /\ InTime
  /\ \E t \in 0 .. episode.left : Spends(t)
  /\ step' \in {"read", "sleep"}
  /\ UNCHANGED <<phase, state, doubted>> /\ WaitUnchanged

\* The observation succeeds; a read that starts after the deadline cannot.
Recover ==
  /\ Doing("read") /\ InTime
  /\ \E t \in 0 .. episode.left - 1 : Spends(t)
  /\ state' = shown /\ step' = "operate"
  /\ UNCHANGED <<phase, doubted>> /\ WaitUnchanged

ReadTimesOut ==
  /\ Doing("read")
  /\ \E t \in 0 .. episode.left : (t > 0 \/ ~InTime) /\ Spends(t)
  /\ step' = "sleep"
  /\ UNCHANGED <<phase, state, doubted>> /\ WaitUnchanged

\* _recovery_read_failure: the read exits with an error that is worth another read; with an
\* unclassified one, for which the episode has one confirmation; or with one that stops.
ReadFails ==
  /\ Doing("read") /\ InTime
  /\ \/ UNCHANGED <<episode, doubted>>
     \/ /\ ~episode.confirmed /\ episode' = [episode EXCEPT !.confirmed = TRUE]
        /\ doubted' = doubted + 1
  /\ step' = "sleep"
  /\ UNCHANGED <<phase, state, waited>> /\ WaitUnchanged

ReadStops == Doing("read") /\ InTime /\ EndsAs("failed")

Sleep ==
  /\ Doing("sleep") /\ InTime
  /\ Spends(1) /\ step' = "probe"
  /\ UNCHANGED <<phase, state, doubted>> /\ WaitUnchanged

RecoveryStep ==
  \/ Operate \/ Launched \/ OperateFails \/ OperateTimesOut \/ Unreachable
  \/ Probe \/ Recover \/ ReadTimesOut \/ ReadFails \/ ReadStops \/ Sleep

-----------------------------------------------------------------------------
RecoveryTypeOK ==
  /\ phase \in Phases \cup {"started", "failed"}
  /\ step \in {"operate", "probe", "read", "sleep"}
  /\ state \in Screens \cup {NoState} /\ seen \in Screens \cup {NoState} /\ shown \in Screens
  /\ episode \in [open : BOOLEAN, left : 0 .. Limit, confirmed : BOOLEAN]
  /\ swipes \in 0 .. Swipes /\ acted \in BOOLEAN /\ twice \in BOOLEAN
  /\ waited \in 0 .. Limit + 1 /\ doubted \in Nat

(* Whatever the device showed when the program started and however its    *)
(* call timed out, no key, tap or swipe of the startup reaches the device  *)
(* again once it has taken effect: another key would close the recent apps *)
(* again, and another tap hit what took their place.  Home, which is sent  *)
(* again after every timeout, shows the home screen each time.             *)
InputsTakeEffectOnce == ~twice

(* The outages of one phase, however many, wait unreachable_limit in all,  *)
(* and together pass over one unclassified failure.                        *)
OneEpisodePerPhase == waited <= Limit /\ doubted <= 1
=============================================================================
