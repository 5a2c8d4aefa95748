--------------------------- MODULE DeviceSession ----------------------------
(***************************************************************************)
(* A run on the device, as the command line starts it (cli.py): the run    *)
(* environment is entered, the device is brought to the app through        *)
(* outages, the app is explored, and the display is restored however the   *)
(* startup or the exploration ended; or the program is killed at any step  *)
(* and started again.                                                      *)
(***************************************************************************)
EXTENDS RunEnvironment, StartupRecovery

sessionVars == <<environmentVars, recoveryVars>>

\* All that the program knew is gone, and the device shows what it showed or any other screen.
RecoveryReset ==
  /\ phase' = "recents" /\ step' = "operate" /\ state' = NoState /\ episode' = NoEpisode
  /\ seen' = NoState /\ swipes' = 0 /\ shown' \in Screens
  /\ acted' = FALSE /\ twice' = FALSE /\ waited' = 0 /\ doubted' = 0

Init == EnvironmentInit /\ RecoveryInit

\* The startup ends the run, or hands the device to the exploration.
Startup ==
  /\ proc = "startup" /\ RecoveryStep
  /\ proc' = CASE phase' = "started" -> "running"
               [] phase' = "failed" -> "cleanup"
               [] OTHER -> "startup"
  /\ UNCHANGED <<deviceVars, report, lastSeen, todo, final, runs, original>>

Starts == Enter /\ RecoveryReset
Explores == (Observe \/ Affect \/ Finish) /\ UNCHANGED recoveryVars
CleansUp == CleanupStep /\ UNCHANGED recoveryVars
Settles == LateWrite /\ UNCHANGED recoveryVars
Killed == Crash /\ RecoveryReset /\ shown' = NotFollowed

\* The program may end for good: after its last run, or when it is not started again.
Ends == proc = "off" /\ UNCHANGED sessionVars

Next == Starts \/ Startup \/ Explores \/ CleansUp \/ Settles \/ Killed \/ Ends

\* Every wait and every device call of a startup or a cleanup has a limit; the exploration
\* may go on.
Spec == Init /\ [][Next]_sessionVars /\ WF_sessionVars(Startup) /\ WF_sessionVars(CleansUp)

-----------------------------------------------------------------------------
(* Unless it is killed, a run that has begun to bring the device to the    *)
(* app, or to restore it, gets it there or comes to its end, however often *)
(* the device stops answering.                                             *)
SessionEnds == proc \in {"startup", "cleanup"} ~> proc \in {"running", "off"}
=============================================================================
