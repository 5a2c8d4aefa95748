----------------------------- MODULE GraphBuild -----------------------------
(***************************************************************************)
(* A build (commands/build.py): the graph of GraphEdges made again from    *)
(* the match and transition records of a step log, with screens identified *)
(* and nodes merged anew, beside the exploration that writes such a log.   *)
(*                                                                         *)
(* A behaviour is one or the other.  In a build the variables of           *)
(* GraphEdges are those of the graph it makes: screens are the screenshots *)
(* the log has, a wait's and those of a later run among them, the position *)
(* is the node of the screenshot matched last, and a transition is read    *)
(* with the match of the screen it led to, which the log puts before it.   *)
(***************************************************************************)
EXTENDS GraphEdges

\* _Run: trail_head, the latest match, and whether that is in _arrivals.
VARIABLE run

buildVars == <<vars, run>>
NoHead == 0 \* None

BuildInit == Init /\ run = [head |-> NoHead, match |-> 1, arrival |-> FALSE]

\* _match: only a replay that found the node it expected arrives in a known state.
Match(n, s, known) ==
  /\ phase = "build" /\ AnotherStep /\ (known => n # Outside) /\ Identify(n, s)
  /\ run' = [run EXCEPT !.match = Latest, !.arrival = known]
  /\ UNCHANGED <<edges, log, trail, covered>>

\* Fault: the trail of the step before is continued wherever this one starts.
ContinuedTrail == IF run.head # NoHead THEN trail
                  ELSE Begun(at.node, screens[run.match].state, run.arrival, NoObservation)

\* A step that does not start where the trail was left begins it again, with no observation
\* that a setup could start from.
StartedTrail == IF run.head = run.match THEN trail
                ELSE Begun(at.node, screens[run.match].state, run.arrival, NoObservation)

\* _transition, with the match of the screen it led to.
BuildStep(action, n, s) ==
  /\ phase = "build" /\ TakeStep(StartedTrail, action, n, s, NoObservation)
  /\ run' = [head |-> Latest, match |-> Latest, arrival |-> FALSE]

\* The screen outside is matched or visited, and then the one the run came back to.
BuildStepOutside(action, n, s) ==
  /\ phase = "build" /\ LeaveApp(StartedTrail, action, n, s)
  /\ trail' = StartedTrail
  /\ run' = [head |-> NoHead, match |-> Latest + 1, arrival |-> FALSE]

Build ==
  \E s \in States :
    \/ \E a \in Actions, n \in Screens : BuildStep(a, n, s)
    \/ \E n \in Screens \cup {Outside} :
         \/ \E a \in Actions : BuildStepOutside(a, n, s)
         \/ \E known \in BOOLEAN : Match(n, s, known)

BuildNext == Build \/ (Next /\ UNCHANGED run)

BuildSpec == BuildInit /\ [][BuildNext]_buildVars
=============================================================================
