# A TLA+ model of Android-App-Graph

Android-App-Graph explores an Android app on a device, step by step, and records
what it sees as a graph: a node per screen, an edge per action. A run takes hours,
talks to a device and to models that both fail, is killed and started again, and
everything it learned is in a handful of files. The modules here model the parts of
the program where the order of events matters, check them with TLC on small
instances, and prove with TLAPS, for instances of any size, every safety property the runs check.

Paths below are relative to `src/src/android_app_graph/`; "README" is `src/README.md`.

## The system

| Component | State it keeps | Operations | What is hard |
| --- | --- | --- | --- |
| Exploration loop (`kobe.py`) | the position (node, observation), the saved step count, the setup trail, the history | `explore`, `_explore_step` and each way a step ends, the coverage checkpoint, the continuation, the recovery | device calls that time out anywhere; a node merged away under the loop; what is counted and saved before what |
| Navigation history (`navigation_history.py`) | the last eight transitions over known edges | `record`, `clear`, `feedback` | discontinuities nobody clears |
| Setup trail (`utils/graph_manager.py`) | the node arrived at, the actions since | `begin`, `step`, `setup` | kept beside the position, advanced by other calls |
| Replay (`kobe.py`, `commands/audit.py`) | none of its own; counts misses on nodes | `navigate_to_node`, `_replay_to`, `_retry_edge` | inputs that lead elsewhere, interruptions, time-outs |
| Graph (`utils/graph_manager.py`) | nodes and members, edges with aligned per-action lists, aliases of merged nodes | `identify_state`, `add_edge`, `merge_nodes`, `split_members`, `move_member` | stale ids, shifted lists, actions that must follow their members |
| Graph files (`graph_files.py`, `utils/graph_manager.py`) | graph, identify file, text vectors, image vectors | `save_graph`, `load_graph`, `append_json_line` | no transaction spans the files |
| Step log (`step_log.py`) | an image and a record per screenshot, event records | `get_state`, `_write_record` | numbers used again after a crash |
| Merge rounds (`merge_rounds.py`) | the ordered pairs, answers, deductions | `next_round`, `record`, `clusters` | deduction must never contradict an answer |
| Audit (`commands/audit.py`) | the audited graph and its reports | merge verification, member checks, re-exploration | ids computed before the changes they direct |
| Builder (`commands/build.py`) | a graph built from a step log | `match`, `transition` | order of records |
| Requests (`retrying.py`), concurrent calls (`utils/vlm_utils.py`) | deadlines; a pool of workers | `send_within_deadline`, `call_concurrently` | deadlines shared by retries; partial failure of a batch |
| Recovery (`device.py`) | a deadline and one confirmation per episode | `wait_for_device_state`, `StartupRecovery` | an episode over several outages |
| Run environment (`run_environment.py`) | the display baseline and a report | `__enter__`, `prepare_action`, `_cleanup` | baseline across crashed runs |
| Failure monitor (`failure_monitor.py`) | captures, report, a thread and a lock | `capture`, `_publish`, `__exit__` | a thread that outlasts its join |

The loop calls the device, identifies each screen in the graph, saves after each step,
and at a checkpoint lets the audit's merge verification change the graph under it. The
failure monitor runs on a thread beside it and shares only the directory it writes to.
The restart script (`scripts/run_explore.sh`) starts a run again on what the last one saved.

What makes each component correct:

- exploration: every turn counts one step and is saved; the position is a node of the
  graph and the history one walk that ends there; the run ends;
- rounds and merges: an answer is never contradicted, never asked for twice, and the graph
  after the merges is what the answers say;
- files: what any crash leaves loads, and every file speaks of the same screenshots;
- edges: every action is where its transitions took it, whatever was merged, split or
  moved, and a setup recorded with it leads to its screen, in an exploration and in a build;
- replays: the run goes on from the screen that is really shown, and no node is tried for ever;
- requests: no attempt starts after its deadline, no body is read past its timeout, each answer
  is used once, nothing runs on behind the caller;
- device and display: no startup input takes effect twice, no wait outlasts its limit, the first
  display is the one restored;
- monitor: the report describes the files beside it, and the run's end is not held up.

## The modules

| Module | Models | Lines it stands for |
| --- | --- | --- |
| `PairRounds` | the rounds of questions about node pairs | `merge_rounds.py`, the loop that asks them |
| `MergeClusters` | extends it: the pairs in the order proposed, merged by the answers | `verify_merge_proposals`, `_merge_clusters`, `merge_nodes` |
| `Explore` | the loop, checkpoint, continuation, outages, restarts | `kobe.py`, `navigation_history.py` |
| `GraphStore` | the files and the order they are written in | `identify_state`, `save_graph`, `load_graph`, `graph_files.py`, `step_log.py` |
| `FailureMonitor` | two threads, the lock, captures and the report | `failure_monitor.py` |
| `SetupTrail` | operators: where the device was sent from, and the setup read off it | `SetupTrail`, `_spans_in_force` |
| `TransitionGraph` | the abstract specification of the edges: an action is on an edge exactly when a transition took it there | |
| `GraphEdges` | extends `SetupTrail`: nodes, members, edges and log through exploration, system feedback, merges, splits and moves; implements `TransitionGraph` | `add_edge`, `merge_nodes`, `_relocate`, `member_checks`, `check_members` |
| `GraphBuild` | extends `GraphEdges`: either such an exploration, or the build of a graph from the records of a log | `commands/build.py` |
| `Replay` | replays of an exploration run and of an audit that retries edges | `_replay_to`, `find_path`, `re_explore_issues` and what they call |
| `Requests` | one model call: attempts, deadline, retries, and its caller's fallback | `retrying.py`, the callers in `utils/vlm_utils.py` |
| `ConcurrentCalls` | extends `Requests`: the pool of workers and the calling thread | `call_concurrently` |
| `StartupRecovery` | the startup phases on a device that stops answering | `StartupRecovery`, `wait_for_device_state`, `terminate_all_apps`, `launch_app` |
| `RunEnvironment` | the display, its sidecar and the cleanup, over several runs | `run_environment.py`, `display_state.py` |
| `DeviceSession` | extends `RunEnvironment` and `StartupRecovery`: a run as the command line starts it, killed and started again | `cli.py` |
| `MergeClusters_proofs` | proofs: what the rounds answer and deduce, what the merges and their results are | |
| `Explore_proofs` | proofs: the steps counted and saved, the position, the history | |
| `Replay_proofs` | proofs: where a replay leaves the run, and what it sends where | |
| `GraphStore_proofs` | proofs: what the files hold after any crash | |
| `ConcurrentCalls_proofs` | proofs: the deadlines of requests, and the batch | |
| `GraphBuild_proofs` | proofs: what explorations, builds and audits keep of edges and setups, and the refinement of `TransitionGraph` | |
| `DeviceSession_proofs` | proofs: the startup's inputs and waits, the display and its sidecar | |
| `FailureMonitor_proofs` | proofs: the captures, the report and the close | |
| `MC...` | the constants of a run | |

An operator whose comment starts with "Fault" is not part of the model. It is a plausible
mistake in the definition that follows it; put in its place, it makes TLC report
the property that is meant to catch it. `PROJECT.json` pairs each with its property.

### PairRounds and MergeClusters

`pairs` is the list `PairRounds` was constructed with; `asked`, `unanswered` and
`deduced` are the fields of that name, with "open" for a missing key. `questions` is what
the last `next_round` returned and has not been recorded. `NextRound` is one
call of `next_round`, with the `_deduce` it begins with; `RecordAnswer` and
`RecordNoAnswer` are `record` in the loop of `_ask_merge_rounds`.

The forest of the code is a union-find structure; the model says instead that two nodes are
joined by a set of pairs when no set of nodes that respects those pairs
separates them. This is the same relation, it needs no recursion, and proofs can use it.
The basis of a deduction (`_path`) explains it in the report and decides nothing.

`MergeClusters` keeps `alias`, the map that `resolve_node_id` follows, and `status`,
the result each pair's check gets. The rounds take the pairs most alike first; the merges
take them in the order they were proposed, so the model settles them in any order.

### Explore

`pc` is where `explore` is between two calls that can be interrupted, `then` where it goes
on after `save_graph`. One action per way a step ends: `WaitStep` (`_wait_at`),
`UnsupportedStep`, `OverlayStep`, `InAppStep`, `ExternalAppEdge` to
`IdentifyAfterExternalApp`, `WebStep` to `LeftWebPage`, `StartContinuation` to `Continued`
or `ContinuationStayed`. Those that call `_continue_after` go on at "check", where
`NoCheckpoint`, `CheckpointStays` or `CheckpointChooses` follows; the others go on at
"loop", as in the code. `Outage` is an adb call that times out, `Recovered`
what `_explore_step_through_outage` does about it, `Interrupted` and `Unreachable` the
handlers of `explore`, `Killed` a process that dies, `Rerun` the next start.

The environment chooses what a screen is identified as (any node that is not merged away,
existing or new, or the one node of outside web pages), what is planned, which nodes an
audit merges (any map of the nodes that are left to lower-numbered ones that is its own closure) and where
a replay ends. Two simplifications stand behind the history: the recorded pixels are
the Boolean `same_screen`, and the check that `feedback` makes
before a plan is made again, with the same current screen, by the `record` of that step.

`turns` and `ordinary` are observations: the loop never reads them.

### GraphStore

A screenshot gets a number, an image and a record (`WriteImage`, `WriteRecord`), is placed
in one of the five ways of `identify_state` (`Place`), and leaves a line in the identify
file (`BeginAppend`, `EndAppend`, with a torn line in between). `SaveTexts`,
`SaveNodes` and `SaveVectors` are the three replacements of `save_graph`, each atomic because
of `_write_atomically`. `Start` is the next process: it loads the graph when
there is one, which `Loadable` must allow, and computes missing image vectors.
`Interrupt` is an exception that reaches a handler of `explore`; the handler saves too.
A content of a file is the number of the screenshot it shows.

`InterruptsInIdentify` says whether such an exception may also strike inside `identify_state`,
and `TearsCharacters` whether an append may be killed inside a character of several bytes: the
tail of the identify file is then "split", not just "torn". Without either the saved graph always loads; with either it
does not (see Findings), and `SavedGraphLoads`, which the runs check with `TearsCharacters`, excepts the split tail.

### FailureMonitor

`at` is where each of the two threads is, `task` what it captures or writes, `part` the
file of the capture it has come to. `Stage`, `Lock`, `FindClosed` or `FindOpen`, and
`Rename` are the lines of `_publish`; `Fail` is any of its file operations, or the reading
of the device, raising. `EndRun` to `Close` are `__exit__`, with both outcomes of
the join. An exception in `__enter__` that is not an `Exception`, a Ctrl-C during the
baseline, leaves the monitor before it started anything and is not modelled.

### SetupTrail, GraphEdges, TransitionGraph and GraphBuild

An edge is a record of its aligned lists (`actions`, `setups`, `anchors`, `sources`,
`alternatives`); `AddEdge` is `add_edge` with `_retain_preparation`, `Rewired` is
`_rewire_edges` in its order of incoming, outgoing and loop, `Reassigned` is
`_reassign_actions` with `_drop_actions`. An entry is a pair of its edge and its index; `Entries` puts a set of them
in the order of the code (`Before`) into lists, counting for each how many come before it. A setup is the exploration steps it sends again, so
that `SetupsLeadToTheirAction` can say where each of them started and ended. Observations
are numbered as they were taken; `log` is the list of transition records. Actions of
exploration are `Step`, `StepOutside` (another app or a web page, both shown as node 0),
`OverlayStep` (system feedback covered the input: the position moves, the trail does not), `Wait` and `Arrive` (a
replay, a recovery or a start). Any of them may leave the position on node 0, that of outside web
pages; a step from there is logged, but `add_edge` refuses its edge (`Record`). `Merge` may come between
any two of them; `BeginChecks` to `EndChecks` are an audit, with the groups it tells apart chosen freely
within what `plan_member_checks` makes of them.

`screens` and `covered` are observations for the properties: what each screenshot was identified as, and which ones were
identified after system feedback. `SetupsLeadToTheirAction` asks of every recorded setup that its steps join up, from the
arrival it is anchored at to its action, over screens of one node in one state. It excepts setups with such a
screenshot between the two; `EverySetupIsInForce` does not, and is violated (see Findings).

What a graph promises is in `TransitionGraph`: a log of transitions between nodes, and the
relation of source, action and target. `Take` adds a transition, `Regroup` moves
screens between nodes; in both the relation afterwards is what the log gives.
`EdgesAreTheTransitions` maps `GraphEdges` to it, with every log record's
screens resolved to the nodes that now list them, and the union of the edges as the relation.

A behaviour of `GraphBuild` is an exploration or a build (`phase`). A build reads match and transition records in
the order of the log: `Match` is a match record by itself (a start, a recovery, a replay, with or without the node it
expected), `BuildStep` and `BuildStepOutside` a transition record with the match of the screen it led to, and
`Wait` a screenshot no record matches. Its screens are identified anew, so nothing ties them to the exploration that wrote
the log, and it merges after any record, so nothing is claimed of where exploration and build merge: the
exploration counts waits towards its checkpoints, the build counts transitions only. What is checked is that the graph
a build makes keeps the same promises: `run` is `_Run`, and `StartedTrail` when its trail goes on or begins again.

`JoinRepeated` says whether a merge, split or move may bring two entries of the same action
together on one edge. Without it the edges are the transitions; with it they are not (see Findings), but
`NoTransitionIsLost` still holds, as is proved: an action may be left on an edge, never missing from one.

### Replay

`purpose` is what a replay is for: "continue" and "resume" of an exploration run, "visit",
"retry", "correct" and "return" of an audit. `pc` is where it stands, `path` the edge actions
left, `front` the screen the device shows and `position` the node the run takes it to be.
`Open` restarts the app and plans once, from the screen it opened on or else from the start node;
each action is prepared (`Prepare`, `SendSetup`, `Inapplicable`), checked (`Unverified`), sent
(`SendAction`) and identified; it may be `Interrupted` by another app, `Rejected`, or fail
in another way (`FailedNavigation` for exploration, `Blocked` for an audit). "Another app" differs: exploration leaves any app that is in
front; an audit leaves system surfaces only, and identifies another ordinary app as a node (`Other`, in `Identifiable`). It
goes on from there: setups without an anchor are sent, anchored ones and the action itself only where their recorded source
was shown by the same app (`SameOwner`). `Arrive`,
`ArriveVisit`, `ArriveRetry`, `Corrected` and `ArriveReturn` are what is made of where it ended. A
path minimises the inputs sent, as `find_path` does with its weights; ties are free choices.

### Requests and ConcurrentCalls

Each caller in `utils/vlm_utils.py` is a record: the failures it asks once more for, and what it
makes of a reply that is late, cut off or bad. `call[i]` is the state of one call
with its clocks: `age` since the first attempt of the request, `handed` since `DeadlineTransport` was handed
the attempt, or its latest redirect, `silent` since the last operation of the connection. Until the headers are
complete (`opening`), each operation has the timeout to itself: an address, TLS, a write, a read of header bytes
(`Continue`), and a redirect a deadline of its own (`Redirect`). Only the body (`reading`) is under the transport's deadline
(`Chunked`). Time is in ticks of a call; the clocks of different calls are independent, as
only each call's own deadline is compared. `ConcurrentCalls` adds the workers (`Start`) and the calling
thread: `Apply`, `Fail`, `CancelRest`, `Throw` (an apply that raises, or Ctrl-C in the loop), `Drain`, `ShutDown`, and
`Abandon` (Ctrl-C in the shutdown, after which workers run on).

### StartupRecovery, RunEnvironment and DeviceSession

`phase` is a call of `StartupRecovery.run`, `step` what it is doing: operating, probing,
reading the recovered state, sleeping. A call that times out may or may not have reached the
device (`Arrives`); an input that did is visible by the time the recovered screen is read.
`episode` is the deadline and the one confirmation shared by all outages of a phase; `state` the
screen recovered, from which the phase decides whether to send again (`Sends`). A startup begins on any screen. If a killed
run left the recent apps open, the key that is to open them closes them: it has not taken effect (`TakesEffect`),
and is sent again only as long as it has not. Home is sent again after every time-out, and is not among the `Inputs` that
`InputsTakeEffectOnce` speaks of: on the home screen it changes nothing.

`RunEnvironment` has the display (size, font scale and a flag without a restoration
command), the sidecar on disk (`report`) and the cleanup: `Begin`, `Command`, `Verify`,
`VerifyAgain`, `Report`, each of which may fail, with `Crash` anywhere. A reset of the size may be followed
by a late write of the font scale (`LateWrite`), assumed over before the next start.

`DeviceSession` composes the two in the order of `cli.py`: the environment is entered before the
device is touched, and left however the startup or the exploration ended.

## What the runs check

| Run | Instance | Shows |
| --- | --- | --- |
| `merge_clusters` | every order of up to four pairs of four nodes, up to three with a pair named twice | the rounds contradict nothing, ask nothing decided and end; no merge joins nodes told apart; each result names the node the graph keeps |
| `explore` | three nodes, five steps, checkpoints at the second and the fourth, a history of two, one restart | one step per turn, one step lost at most, a live position, an unbroken history, an end |
| `graph_store` | three ids, four screenshots, three starts, killed anywhere | what is saved loads, unless a line was torn inside a character; lines speak of their screenshots; members have vectors |
| `failure_monitor` | four captures of three source files | the report counts whole captures; nothing is published after the close; the exit returns |
| `graph_build` | two actions, two states, three nodes and the outside, five screenshots, audits of up to four | in explorations, builds and audits, what is saved loads; no transition is lost; setups lead to their action, but for system feedback; the edges are the transitions (refinement) |
| `replay` | three nodes, the web node, another app and the outside, two edge actions of three kinds of preparation | the run goes on from the screen shown; nothing recorded is sent outside, but by an audit that opened there; edges are corrected from their source; missed nodes wait; replays end |
| `model_calls` | all twelve callers, up to three inputs, two workers, a timeout of one tick | no attempt starts late and no body is read for ever; each answer is applied once and in order; the first failure is raised; nothing is left running, but by an interrupted shutdown; the batch ends if headers do |
| `device_session` | two starts, a display change in each, a limit of two intervals, one swipe | the first display is the one restored, and can always be; no input arrives again once it took effect; one episode per phase; the session ends |
| `stale_duplicate`, `setup_after_overlay`, `torn_line`, `interrupted_identify` | the same modules, smaller | a statement of the repository's own documentation that the code's behaviour violates |

Each module with variables of its own states a type invariant (`TypeOK`, or a name of its own where modules are
composed). They were checked while the models were written and are proved, but for those of `GraphEdges` and `GraphBuild`, of which
`LoadsInv` has what the properties need, and the commands a cleanup still has to do (`todo` of `RunEnvironment`). So the
runs' time goes to the properties above.

### Bounds

- *Nodes and pairs.* Four nodes carry every way two separations and a chain of
  three joins can meet. Nodes are numbers, of which only the order matters; the first pair of
  `MCMergeClusters` is one of the four that put them on every side of the first answer. Lists of five and six
  pairs are covered by the proofs of `PairRounds`.
- *Steps.* `MaxSteps = 5` with `Interval = 2` has two checkpoints, so that the second can merge into,
  or out of, what the first merged, and a step after it that is the last. `HistoryLimit` is 8 in the code; with 2 the
  third step drops the oldest transition of the walk.
  `BackPresses` is how often a web page is left by Back before the app is restarted: 1 has both.
- *Restarts.* Two starts let a run resume what a dead one saved; three, in
  `GraphStore`, let it be resumed after a crash of the resumed run.
- *Screenshots.* In `graph_store`, one more screenshot than ids makes a number be used twice. In `graph_build` five
  make a walk of four steps, enough for a setup of two actions, a second and shorter way to the
  same action, and a merge between any of them; an audit of four can split a pair of members
  off another pair. A wait, system feedback, an arrival and a way outside need a screenshot after their own
  (`AnotherStep`): as the last one they would show nothing. `MaxSetup` is 8 in the code; a walk longer than 2 reaches it.
- *Edges of a replay.* Two actions make a path of two, a flagged action with the way to it, or a
  node with one way in that was missed and another that is new. A node's misses are only compared with 0. An
  action with nothing to send before it ("none") is left out of the run: it behaves as one whose setup changes nothing. The
  proofs have it.
- *Calls.* Three inputs for two workers leave one queued when the first fails. The budget of a request
  is twice the timeout: with one tick each, both the attempt and the budget can run out first. The code's
  limits are seconds; only their order matters.
- *Startup.* A limit of two intervals lets a second outage come after a first with time left, or
  none. One swipe has the list scrolled, and given up. One change of a display setting, on top of what each
  start finds, is one to restore after either run, or after both.
- *Captures.* The baseline, two polls and the final one; with `Limit = 4` the poll
  thread reaches the limit it must stop below. The limit of the code is 1024 and its sources
  are the same three.

Each bound is past the point where the last distinct case we know of (limit reached, number reused,
oldest dropped, shorter setup learned) happens. TLC shows the properties for these instances only.

`graph_store` does not check for deadlock: a process that is down when its starts are used up, or
for which a torn character or an interrupt left a graph that no longer loads, stays down.

### Fairness

`MergeClusters` and the loop of `Explore` are sequential code:
`WF(Next)`, or `WF(Run)` without `Interrupted`, `Killed` and `Rerun`, only says that the
program takes its next statement. That is justified in `Explore` because every adb call and
every model request ends, as long as no provider sends headers for ever (see below), and an outage is waited for at
most `unreachable_limit` seconds; `Outage` and `Recovered` are themselves steps of `Run`, and the run ends because every
turn, an interrupted one included, counts a step. `Replay` assumes `WF(Replaying)`: a replay that
has begun runs on, and each of its calls returns or fails; when a replay begins, and what exploration
does in between, is left open. In `FailureMonitor`
the main thread's calls return; of the poll thread only the writing of files is
assumed to (a rename under the lock), never its reading of the device, which may outlast
the join: both are given `CAPTURE_SECONDS`. So `ExitReturns` holds however late that read is.

`ConcurrentCalls` assumes that the calling thread runs, that idle workers take queued calls, and that time
passes for each call (`Progress`: a tick, a read timeout, a wait that ends). It does not assume that a
provider ever answers, connects or sends a byte, nor that Ctrl-C comes: `BatchEnds` rests on the timeouts. Those do not bound
the time until the headers are complete, so `BatchEnds` has the hypothesis that no provider draws them out for ever (`HeadersEnd`).
`DeviceSession` assumes fairness of a startup and of a cleanup, whose every call and wait has a limit,
and none of exploration, of restarts or of kills: `SessionEnds` speaks of startup and cleanup only.
`GraphStore` and `GraphEdges` have no liveness property and assume no fairness.

## Findings

Each is a run that TLC finds violated; `PROJECT.json` quotes the statement.

1. `stale_duplicate`: a transition backs the first entry of an edge with its action. When a merge, a
   split or a move has joined two entries of one action on an edge, a later split takes the first along
   and leaves the second behind, on an edge that no transition gives any more.
2. `setup_after_overlay`: a step whose input was covered by system feedback moves the position
   without moving the setup trail. The next action's setup is looked up by its source node, so it is unknown, or that of
   the trail's latest arrival on that node, which may have left the node in another state than the action is sent in.
3. `torn_line`: a line that a crash tears inside a character of several bytes is not left out. The whole file is
   decoded first, which fails, and the graph cannot be loaded.
4. `interrupted_identify`: Ctrl-C, or a failed append, between the new member and its line
   makes the handler save a graph that cannot be loaded again. The same exception is also
   swallowed by `_navigate_to_continuation` (`kobe.py:326`), after which the run goes on.

Other differences between code and documentation, met while modelling; the models follow the code:

- A wait, a refused input and an interrupted step are counted and saved but do not reach
  `_continue_after` (`kobe.py:839`, `kobe.py:741`); if their number was due, that checkpoint is passed over, although
  the docstring at `kobe.py:370` has it "after any completed step".
- The docstring at `kobe.py:609-611` has a device that stops answering waited for "during startup or a step". A second
  time-out while the recovered screen is identified (`kobe.py:758`) is not: it ends the run as a crash. `OutageInRecovery` models that.
- README:1447-1449 gives a built edge "the setup exploration would have recorded". The builder passes no
  observation the setup starts from (`commands/build.py:253`) and begins a fresh log with
  the setup unknown. It also counts transitions where the exploration counts every step, waits included (`commands/build.py:202-211`),
  so the two may merge at different points. Nothing here says that a build gives the explored graph; what is shown is that it
  gives a sound one.
- README:257 has each attempt end at its timeout "by the wall clock", connecting and the headers included. `DeadlineTransport` looks at
  the clock only between chunks of the body: every address, TLS, every write, every read of header bytes or of a 1XX response has the timeout
  to itself, and a redirect begins anew. `ResponsesEndInTime` states what holds of the body; nothing bounds the headers.
- The comment at `utils/vlm_utils.py:278` has an interrupt "send no queued call". That is so of the loop (`Throw`); Ctrl-C during
  the shutdown itself (`Abandon`) leaves workers that go on calling, and perhaps calls that are still queued.
- An audit leaves system surfaces, but not another ordinary app: it identifies that app's screen as a node, plans from
  there and sends setups there (`commands/audit.py:390-402`, `commands/audit.py:474-501`). `InputsStayInside` says so.
- The docstring of `_leave_external_web` (`kobe.py:1214`) warns of a step from the `ext_web` node. A replay
  that lands there, a recovery, or the restart that leaves a web page can hand that node to
  exploration; `add_edge` refuses the edge, while the transition is logged all the same; `StepUnrecorded`, `InAppStep` and `Record` model that.

## What is proved

Every safety property of a passing run is proved for every value of its module's constants; two theorems have a
hypothesis on a constant (`SavedGraphsLoad`, `RefinesTransitionGraph`), without which TLC shows them false. The constants are assumed to be what the code makes of them (`...Assumption` in each module): bounds are
numbers, node numbers are naturals, a pair names two different nodes. Each proof module starts from an inductive
invariant, which TLC checked on the instances of the runs before it was proved.

### PairRounds

For every collection of lists of pairs and all answers: `TypeCorrect`; `NeverContradicts`, no "different" answer falls inside a
cluster of "same" answers; `AsksOnlyOpenPairs`, no pair is asked that the answers before it decide; `AnswersStay`, an answer
never changes and an unanswered pair is not asked again; `DeducesFromEarlier` and `DeductionsAgree`, a deduction follows
from answers on the pairs before it and agrees with the clusters; `EveryPairIsAnswered`, no pair is left open at the end.

`NoContradiction` is not inductive: a state without contradictions may hold a pending question whose
answer makes one. What makes it safe is how `next_round` chose the question, so `IInv` keeps that
choice: `AskedStaysUndecided` says that a pair once asked stays undecided by the pairs
before it, even if all of those still open were one screen. It survives every step, since a step only
turns an open earlier pair into an answer, and turning an assumed join into a join or a separation
decides nothing new (`StaysUndecided`). `OneOutcome`, that a pair has only one of an answer, a
deduction and a missing answer, is needed to know that a step changes open pairs only.
A contradiction would have a last link, in the order of the pairs: either the
"different" pair itself, or a "same" pair whose ends the "different" pair then told apart.
Either was decided when it was asked. The lemmas about `Joined` (symmetric, transitive,
monotone, and what one more link adds) carry this without any induction over data.

The deductions rest on the same idea, turned to a pair `i` that is still open: an answer on a
later pair `k` that closed a path between the ends of `i`, or separated them, was given on a pair that
the earlier answers and `i` itself decided (`JoinedByEarlier`, `SeparatedWithoutNext`), and such a pair is
not asked. So what `_deduce` reads from all answers is there in those before `i`
(`DeducesFromEarlier`), and by `NoContradiction` it agrees with the clusters. `EveryPairIsAnswered` takes the
first open pair when `next_round` found no question: what is assumed before it has
all been answered, so the answers decide it (`AnsweredAssumptions`), and `_deduce` would have
closed it.

### MergeClusters

`MergeTypes`, `DifferentNodesStayApart`, `ReportIsTrue`, and `RoundsAreKept`: the composition implements the rounds, so all of
the above holds of it. (`MergeSpec` does not imply the fairness of `Spec`, which those theorems do not use.)

`Resolve` follows aliases, a recursive function. That the function its equation describes exists, that it ends on a
node that was never removed (`RootIs`), and what a merge does to it (`MergeMoves`) rest on aliases always
leading to a lower number: a node for which one of these failed would have a lower one. The induction
theorems of the library need an operator as an argument, so each is stated as the least element of a set of
counterexamples (`Smallest`). `AliasInv` says besides that an alias stays in its cluster. From it, two nodes resolve to one only if
"same" answers join them (`OneRootOneCluster`), which with `NoContradiction` gives `NeverMergesDifferent`. Once every pair is settled the
converse holds (`OneClusterOneRoot`): the set of nodes that resolve like one node respects all "same" answers.
So a cluster has one root, and as no node resolves to a higher one, it is the least, the one `_merge_clusters` names
before it has made the merges.

### Explore

`ExploreTypes`, `TurnsCountOneStep`, `CrashesLoseOneStep`, `StepsStartOnLiveNodes`, `HistoryIsAWalk`. The properties speak of the top of the loop;
the invariant says of every program counter how far the turn is counted (`TurnIsCounted`), how far what is counted is saved
(`StepIsSaved`), that the node held is live there already (`PositionInv`) and that nothing is remembered while the
run is away from it (`WalkInv`). In an earlier form an audit could also merge nodes that were merged away before, which
`resolve_node_id` does not allow: with two checkpoints a position was not live. TLC had only had one checkpoint; the proof
showed it, `Unmerged` corrects it, and the run has two checkpoints now.

### Replay

`ReplayTypes`, `StepsStartWhereTheDeviceIs`, `InputsAreSentInside`, `FlaggedActionsAreSentOnTheirSource`, `MissesAreHeeded`. `PlaceInv` says that the
position is the screen shown whenever a replay has arrived, which every way to stop one has to see to, that a replay under way
has an action left, and while it corrects an edge the flagged action alone. A node has misses as long as a replay to it
has failed (`GraphInv`).

### GraphStore

`StoreTypes`, `LinesStayTrue`, `VectorsAreThere`, and `SavedGraphsLoad` where no exception strikes inside `identify_state`
(`~InterruptsInIdentify`, as in its run; with it the property is false, see Findings); the property itself excepts a line torn inside a
character. The next number is above every record
(`StepLogInv`), so what a screenshot overwrites is no longer spoken of. `EvidenceInv` follows a member's line and text vector from the
screenshot to the disk: a saved member keeps them whatever is appended later, and a member in memory has its line,
but for the one being placed.

### ConcurrentCalls and Requests

`CallTypes` (no more calls run than there are workers, too), `AttemptsStartInTime`, `ResponsesAreBounded`, `NothingIsLeftRunning`, `AnswersAreApplied`. `Within` bounds the time the
transport has had an attempt by the timeout and the silence since the last chunk, once the headers are there, and the age of a request that waits
by the budget. `CollectedInv` says that the calling thread has
dealt with every input before the one it has reached; a worker only touches calls that are not settled, so what was collected
stays true.

### DeviceSession

Of the display: `RestoredToTheFirst`, `ChangesAreRecoverable`, `LastChangeIsSeen`. `SidecarInv` says that the sidecar holds the first
run's display as its baseline from the first start on, and is active with all commands while a run is. Of the startup:
`RecoveryTypes`, `InputsHaveOneEffect`, `OneLimitPerPhase`. `InputInv` says what a phase knows of the device before it sends its input, again or for the
first time; `EpisodeInv` that what an episode has left is the limit less what its phase has waited.

### FailureMonitor

`MonitorTypes`, `CapturesAreWhole`, `FinalReportComplete`, and the action property `ClosedSessionIsQuiet`. The invariant says who holds the lock and that a rename
happens in an open session (`LockIsHeld`), that the main thread captures nothing while the collector lives (`PollIsAlone`), and that the
capture in progress has exactly the parts before the current one (`FilesFollow`).

### SetupTrail, GraphEdges and GraphBuild

For any actions and states, and any number of nodes, screenshots and audited members: `AlwaysLoads`, `TransitionsStay`,
`RefinesTransitionGraph`, `SetupsLead`, of `BuildSpec`, and so of explorations, of builds and of audits.

The properties are about lists that other lists are made into, so the first part of the module is about
operators alone. `Whole` says that an edge's lists hold one entry per action, and `Same` that an entry of one edge is that of
another; joining two edges, picking entries in order, adding an entry, rewiring all edges and reassigning some each
carry every entry over whole, and none from nowhere (`RewiredParts`, `ReassignedParts`, `AddEdgeParts`). That
`InOrder` enumerates a finite set of entries, that is, that each rank is taken by exactly one, is an induction over ranks, done with
the least counterexample, as in `MergeClusters`; so is the existence of the recursive function in `Spans`.

- `LoadsInv` adds to `GraphLoads` what its steps rest on: the position and the trail are on nodes that
  are there, every observation in the log, the trail or an anchor has been seen, and while members are checked each node keeps its home.
- `KeptInv` adds `ListedAsRecorded`: until members are moved, a transition is between the nodes it was recorded with, as they are
  called now. So a merge only renames ends. In a move, each transition backs the first entry with its
  action, which goes wherever the transition goes (`RelocatedRegroups`).
- `TransitionsInv` adds that no action is twice on an edge and each is of a transition. It needs
  `~JoinRepeated`: of two entries with one action, only the first is backed by transitions, and a move leaves the second
  behind (finding 1). With it each step is one of `TransitionGraph` or a stutter (`Advances`).
- `SetupsInv` says of the trail what `SetupsLeadToTheirAction` says of setups: from some step on its steps join up over
  alike screens (`JoinsUp`), and each arrival that no covered input came after was in the states it holds where it says they
  started (`Reached`, `TrailLeads`). After system feedback nothing is claimed of the older arrivals; the setups read off them
  are those the property excepts. In a build the trail is claimed to lead on only while the step before it ended on the screen matched
  last (`Built`), the condition on which `StartedTrail` continues it. `Setup` reads stretches of the
  trail; that those `_spans_in_force` leaves, after dropping the ones that came back to a state, still join up is what `LedOn` keeps.
  A kept preparation stays true because a merge only joins what screens are called, and steps only lengthen the log.

### Only model-checked

- The liveness properties (`EveryPairIsSettled`, `RunEnds`, `ExitReturns`, `ReplaysEnd`, `BatchEnds`, `SessionEnds`): fairness and `ENABLED` are out
  of the prover's reach.
- That the commands a cleanup has left are some of the restoration commands: `SelectSeq`, again a recursion over a sequence.

## What is not modelled

- Prompts, replies and their parsing, the ranking of screens by vectors, the classification
  of dialogs and instructions, the evidence given to a checkpoint, failure evidence, plotting, logging and argument
  parsing: functions of text or numbers without state whose order could go wrong.
- adb itself, the model provider and the file system are the environment of the models.
- Of the run environment, the stamps that tie a coordinate to the display it was planned on, and the
  checks that a resumed baseline belongs to the same device.
- Of the graph, element lists, visit counts and normalized instructions; of the audit, what a model
  reports and the report files; of a build, damaged logs, screens that cannot be placed, and an audit of
  the graph it made (that of an explored one is).
- Menus that are opened for a recorded action are part of its preparation in `Replay`.

`PROJECT.json` lists every component with its status.

## Plan

What the plan had is modelled, checked and proved. What could follow: the elements of a node, which a merge combines as well; the
stamps that tie a coordinate to the display it was planned on; and the reports of an audit, whose ids are computed
before the changes they direct.
