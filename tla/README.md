# Formal model of the robot control stack

This directory is a TLA+ verification project for home_robot_v3 (`emet`). It
models the parts of the repository whose own logic decides whether a robot moves
when it should, stops when it must, and whether what is reported about it is
true: the command protocol between workstation clients and a robot server
(`src/src/emet/core`, synchronised into `src/src/emet_core`), the judgement of
arrivals, the Nav2 adapter of the Mars bridge, the task engine with the pickup
tasks, task and motion planning sessions, and the registry of evaluation jobs
with its GPU lock. All paths below are relative to the repository; `core/`
stands for `src/src/emet/core/`, and likewise for other directories of
`src/src/emet`.

## The system

A robot server (`BaseZmqServer`, one process per robot or simulator) runs one
receive thread and three publisher threads. Any number of workstation clients
send it *actions*, dictionaries with a `command` envelope (protocol version,
server boot id, client session id, sequence number), and read back *receipts*
from the observation, state and servo streams. Above a client run the tasks:
plans of operations that the task engine walks through, or plans of transfers
that a session searches for and executes. Beside all that, `emet jobs` runs
long jobs one at a time on the GPU.

| Component | State | Operations | Interacts with |
|---|---|---|---|
| Command tracker (`core/command_tracker.py`) | receipts (bounded, in insertion order), owner session, retired sessions, high-water sequence, identity in the motion slot | `accept`, `transition`, `release_control`, `expired_navigation`, `snapshot`; each under the tracker's lock | called by the runtime; `snapshot` also by publishers |
| Command runtime (`core/command_runtime.py`) | navigation goal, its fault, arrival monitor, last error | `dispatch_command`, `poll_navigation_command`, `_finish_cancel`, `command_message` | tracker, adapter hooks (`start_`, `cancel_navigation_command`, `navigation_command_result`) |
| Reactive runtime (`core/reactive_runtime.py`) | reactive goal, its fault | `_dispatch_reactive`, `poll_reactive_command`, `_finish_reactive_cancel` | same tracker and motion slot |
| Server threads, sockets (`core/server.py`, `core/comms.py`) | latest message per socket | `spin_recv` (poll, receive, dispatch), `spin_send*` | runtime; clients |
| Command client (`core/command_client.py`) | boot, next sequence, last goals, last receipt | `send_command`, `command_receipt`, `cancel_navigation`, `wait_navigation`, `close_command_session` | sockets |
| Navigation results (`core/navigation_result.py`) | settling, standing outside, progress, corrections of one goal | `ArrivalMonitor.update` | polled by the runtime |
| Nav2 adapter (`innate_mars_bridge/.../nav.py`) | goal generation, handle, terminal status, event | `move_base_to`, `cancel_navigation`, ROS callbacks | hooks of the runtime; Nav2 |
| Task engine (`core/task.py`) | links of a plan, current operation, failures | `add_operation`, `connect_on_*`, `run` | operations |
| Pickup tasks (`controller/task/pickup`, `controller/operations`) | object, receptacle and unreachable instances of the agent; mode; gripper | five plans, their operations | task engine, robot client |
| TAMP task session (`controller/task/tamp`) | stored plans, scene revision | `plan`, `execute`, `search_task` | chat tools, simulator |
| Job registry (`utils/job_registry.py`, `cli_cmds/jobs.py`) | job files, supervisors, GPU lock | `run`, `update`, `list`, `cancel` | evaluation processes |
| Robot clients (`controller/*zmq_client.py`) | decoded streams, sockets | sensor decoding, waits | command client |
| Mapping, memory, perception, planning, RL, language models, evaluation, CLI | numerical data, configuration | - | - |

What makes the behaviour hard: publishers read the receipt history between any
two steps of a dispatch; sockets lose and reorder; clients retransmit and give
up; the history forgets; goals expire while updates and cancellations are on
their way; stops fail; servers restart with empty books; control changes hands;
two clocks disagree; ROS callbacks come late; agents remember what an earlier
command has found; tables change between a plan and its steps; job records are
written by several processes without a lock.

What makes each part correct:

* tracker: an identity is consumed at most once, whatever has been evicted or
  handed over; receipts in use are never evicted; outcomes do not change;
* runtime: one goal at a time, and the tracker agrees which; the robot moves
  only for a goal of the session in control and not past a deadline; a
  cancellation that reports success is true; every goal ends;
* client: what a call returns is true of the server; nothing is executed twice,
  not even by another boot; closing stops the robot and gives control back;
* arrival monitor: what it decides rests on measurements over the whole of the
  time it claims, by both clocks, and it decides at last;
* Nav2 adapter: no callback speaks for another goal, a stop that is confirmed is
  a stop, and a missing answer is one that somebody is about to give;
* pickup tasks: a plan has somewhere to go from every operation, success means
  the thing asked for, and every command ends;
* task session: plans are executable and steps are made in order and once; what
  is answered is true of what the robot did and of what was measured;
* jobs: one command on the GPU; a record is not ahead of its job and not behind
  it for ever; no job waits for one that waits for it.

## Modules

| Module | Role |
|---|---|
| `CommandTracker` | the tracker; `TrackerSpec` lets its callers use it in any order |
| `CommandRuntime` | EXTENDS the tracker with the receive thread, the adapter and the clock; `Spec`, `FairSpec` |
| `MotionAuthority` | abstract specification of what the protocol promises; `CommandRuntime!AuthoritySpec` is its refinement |
| `CommandSession` | EXTENDS the runtime with clients, lossy sockets, publishers and restarts; `SessionSpec` |
| `ArrivalMonitor` | the arrival monitor over two clocks |
| `MotionHooks` | abstract specification of the hooks that `CommandRuntime` takes for granted |
| `Nav2Adapter` | the Mars bridge's hooks, ROS callbacks and Nav2; `HooksSpec` is its refinement of `MotionHooks` |
| `TaskEngine` | plans as values, the calls that build them, the steps of `Task.run` |
| `PickupTasks` | EXTENDS the engine with the five tasks, their operations and the executor |
| `TransferDomain` | facts, operators and goals of a table with regions |
| `TaskSearch` | EXTENDS the domain with `search_task`, one expansion per step |
| `TaskSession` | EXTENDS the domain with planning, execution and a world that changes |
| `JobRegistry` | records, supervisors, commands, GPU lock and the people who use `emet jobs` |
| `MC*` | small instances |
| `*Proofs` | theorems and their proofs: the tracker, the runtime and its receipts (`CommandRuntimeProofs`, in three parts), the clients, the arrival monitor, the Nav2 adapter, the pickup tasks, the task search and session, the job registry |

Operators whose comment begins with "Fault:" are deliberate faults of the
definition after them; each is put in its place once to see that a property
notices (`PROJECT.json`, "mutants").

### CommandTracker

One action per method. The state is the code's (`receipts`, `session`,
`retired`, `highWater`, `active`), with these abstractions:

* a payload is an operation name and, when it addresses another command, its
  identity; a digest is the payload itself, as sha256 is taken to be injective;
* the insertion order of the `OrderedDict` is a `stamp` in each receipt;
* a deadline is the flag `overdue`: whether the deadline of the command in the
  slot has passed (`Expire` is the clock);
* a receipt's revision is left out: it orders accepted < running < terminal;
* `ledger` is history: every identity ever consumed, when, and whether it was
  dispatched or turned away as busy.

All checks of `accept` before its lock and the validation of payloads by the
runtime are the operations in `Invalid`; all that the code does with a refused
envelope is `IsRefused`. Sequence numbers, sessions and receipts are unbounded
in the code's types; `Sequence`, `Session` and `Capacity` are parameters.

### CommandRuntime

`pc` is where the receive thread is: `poll` (before `poll_navigation_command`),
`correct` (between the stop and the restart of a correction), `recv`, `adapter`
(accepted, the hook is being called), `ack` (the hook has returned, its outcome
is to be recorded), `dead` (an exception has left the thread). A dispatch is
several steps because publishers may read the tracker in between; the lock of
the dispatch is respected by `ReadError`, which does not run inside one.

The navigation and the reactive fields are the two values of `Kind`. Where the
two branches of the code differ, so does the model: only navigation succeeds
without a stop, only a reactive goal refuses a second cancellation after a
fault and demands `stop_confirmed` of a goal that is over.

The adapter is the environment. `base` is what the robot does. `Stop` says the
one thing assumed of an adapter: a confirmed stop means that the robot was seen
at rest. Start hooks may raise before or after they have set the robot in
motion, a controller may arrive or halt at any time, a poll may fail at any
time, and an arrival monitor (if `HasPolicies`) may ask for a correction
whenever the robot is at rest.

`monitored` outlives its command as `_arrival_monitor` does: a start that
raises leaves the earlier monitor installed.

### CommandSession

A client is one thread in one library call: `idle`, `sending` (in the
retransmission loop), `waiting` (in `wait_navigation`) or `closed`. Its record
holds the attributes of the code (`goal` is `_last_navigation_command`,
`receipt` is `_command_receipt`) and what its calls have told the caller
(`answered`, `over`, `release`), which the properties are about.
`Taken` follows the code after an acknowledgement into the caller:
`cancel_navigation` looks its goal up, `close_command_session` goes on to
`release_control`.

A socket holds the latest message (CONFLATE, high-water mark 1). A client's
message may be lost or overwritten by its next one. A publisher reads the error
under the dispatch lock, the receipts later without it, and its message reaches
some of the clients later still and the others never, so that streams lag
behind each other and behind the server. A lookup of a receipt is one step.
`Restart` empties everything that the server process holds, but not the sockets,
and the robot does whatever it does.

### MotionAuthority

Five actions: spend an identity, start to move, rest, vacate the slot (at
rest), hand over (with the slot free). The refinement maps `owner` to
`session`, `spent` to the identities of the ledger, `slot` to `active` and
`moving` to `base = "moving"`.

### ArrivalMonitor

One action per way through `update`: `Stale`, `Ignore` (nothing new was
measured) and `Accept`, which is `Settle`, `StandOutside` or `Move`. A pose is a
position along one line through the goal and a heading modulo a full turn;
lengths, angles and times are integers. The server's clock and the clock that
stamps poses advance by any amount of `Step`, or not at all; a stamp may be
repeated, set back or missing, and a pose may be none. `trail` and `corrected`
are history: the accepted samples, and where in them the corrections were made.

### MotionHooks and Nav2Adapter

`MotionHooks` has one action per result that a hook may give to the runtime:
started, raised, stopped, unconfirmed, succeeded, failed. It is the same
environment that `CommandRuntime` assumes in `StartMotion`, `Stop`, `Robot` and
`NavigationSucceeds`.

`Nav2Adapter` has three actors. The receive thread (`pc`) runs one hook at a
time, and a hook that touches `_goal_lock` twice is two steps. The one ROS thread
runs callbacks; `ros` is the response it is handling, for `_on_goal_response`
leaves the lock before it cancels and asks for the result. Nav2 decides on
goals, ends them, and cancels only what it was asked to. Every call into ROS may
raise, before or after it has had its effect. `found` is the handle that
`cancel_navigation` read under the lock and uses after it. Spin and
NavigateToPose goals take the same steps. Whether the measured pose was near the
goal is a choice, so that the adapter is checked for either; the monitor that
judges it is modelled by `ArrivalMonitor`.

The refinement maps `base` to what the goals in Nav2 do (`moving` as long as one
is pending or executing) and `answer` to what the latest hook returned.

### TaskEngine and PickupTasks

A plan is a record of links. `Construct`, `AddOperation`, `ConnectOn...` and
`TerminateOnSuccess` are operators on it, so each task is written as the sequence
of calls that its `get_one_shot_task` makes, with the links that follow from them.
`Succeeds`, `Fails` and `CannotStart` are the three ways through the loop of
`run`; the failure count is reset and the missing method called as in the code.

`PickupTasks` has one action per operation, with its `can_start`, `run` and
`was_successful` in one step, on what the operations share: the object and the
receptacle that the agent has settled on (never cleared between commands), the
instances it could not reach, the mode of the robot and the instance in the
gripper. Which instances a search sees, whether a motion plan is found, whether a
posture is reached and a grasp succeeds are choices. `openLoop` is how the
program was started. Commands come in any order.

### TransferDomain, TaskSearch, TaskSession

Facts, operators and goals are those of the native provider: `at(object,
region)` and `free(region)`, one kind of operator, required and protected goals.
Objects and regions are numbers in the order in which the code sorts names, so
that ties are broken as in the code.

`TaskSearch` is greedy and beam search (greedy is a beam of width one): one step
expands one operator of one state, or passes to the next level; the clock may run
out at any step. States are marked as visited when the code marks them. The code's
lists are sets here: what is left of the sorted queue is the next step by `Earlier`,
and the sorted and cut candidates are those that fewer than `Width` others are
better than (`Beam`).

`TaskSession` is `discover`, `plan` and `execute`, one step per observation of the
scene. Calls hold the session's lock, so there is one at a time, but the table is
not locked: `Interfere` puts an object anywhere, into an occupied region or into
somebody's hand too, and `Restart` replaces the simulator, between any two steps. A
step of a plan reads the scene five times, and what each read is compared with is
what the code compares it with: `Check` takes a snapshot whose binding must be that
of the last measurement; `Preflight` takes another one and checks the operator
against it; `Refine` makes a motion for the scene as it is by then, without
comparing it with anything (`call.scene`, the adapter's `plan.initial`);
`Actuate` and `SceneChanged` compare the scene with that one only; `Verify` measures
the effect. A snapshot may raise before it has measured anything, or after it has
advanced the revision (`NoSnapshot`). `Actuate` may leave the object anywhere,
whatever it reports. The plan that a session stores is any plan that `TaskSearch` could return; that
`TaskSearch` returns such plans is `PlanIsExecutable`.

### JobRegistry

A record is its status in a file, and a save is two steps, writing the temporary
file and renaming it, by any process: the supervisor (a bash script under `set
-e`), listers, cancellers, taggers. `op` is what a process has loaded and not yet
saved. A supervisor saves by running `emet jobs register` or `emet jobs update` and
waiting for it: `op[j]` is that program. A supervisor may be killed alone at any
step (`Killable`): its command goes on, and so does the program that is updating
its record, which saves what it has loaded after all. A signal to the group
(`Cancel`, `LauncherGivesUp`) ends that program too. The GPU lock belongs to whoever
still holds the descriptor that the supervisor opened, its command and its updates
included (`Holds`). Waits may run out (`Impatient`), and commands end when they
like.

## Runs

| Run | Instance | Properties | States |
|---|---|---|---|
| `lifecycle` | 1 session, 3 commands of any kind, capacity 2, policies, fairness | `OneGoal CancelIsTruthful InflightRetained ConsumedOnce SlotReceiptRetained NoMotionPastDeadline`, liveness `GoalIsSettled MotionEnds` | 89 480 |
| `handover` | 3 sessions, 2 commands each, capacity 2 | `MotionIsOwned OutcomeImmutable`, refinement `AuthoritySpec` | 325 346 |
| `session` | 1 client, 3 commands of which the first may be a goal, 1 stream, capacity 2 | `SessionTypeOK OverIsOver AnsweredIsDispatched ReleasedIsRetired` | 384 092 |
| `restart` | 1 client, 1 command, 2 streams, 2 boots, capacity 2 | `NoReplay ReceiptNeverRegresses` | 379 580 |
| `arrival` | 4 poses, 3 accepted samples, time up to 6, 1 correction | `ArrivalIsMeasured CorrectionsJustified NeverBlind StallIsReal StallIsNoticed` | 157 789 |
| `nav2` | 3 goals, fairness | `OnlyLatestIsLive EventIsDue`, refinement `HooksSpec`, liveness `CancelEndsGoal` | 22 745 |
| `pickup` | 2 commands of 5, six things, open loop or not, fairness | `TypeOK NeverStuck SuccessIsReal`, liveness `CommandEnds` | 6 506 |
| `jobs` | 2 jobs on the GPU, the second waits for the first; a user who lists and cancels, a tagger, fairness | `GpuExclusive TerminalMeansOver`, liveness `JobsEnd RecordsSettle` | 148 786 |
| `search` | 3 objects, 3 regions, depth 3, one refused motion | `PlanIsExecutable MissesNothing` | 102 623 |
| `task_session` | 2 objects, 3 regions, depth 3, 2 plans, 1 mishap | `StepsInOrder AnswersAreTruthful GoalIsMeasured OnlyCurrentStepsAreSent` | 5 641 354 |
| `fault_lock` | as `lifecycle`, motion only | `UnconfirmedStopLocks` is violated | - |
| `jobs_tag` | 1 job, 1 tag | `TagsAreHarmless` is violated | - |

What each run shows is in `PROJECT.json`, "runs"; what each property says, and of
which behaviour, is the comment before it.

Bounds. Capacity 2 is the least that the code accepts and evicts soonest: a
third command already forgets the first. Three sessions against capacity 2
reach the limit on retired sessions. Three commands are what it takes to start
a goal, address it, and address it again or release; two commands for each
session are what a hand-over takes with a goal on either side. The actions of
the protocol have no other bound than the constants of the instance (`Session`,
`Sequence`, `Boot`, `Capacity`, `Payload`), except that a client stops when its
sequence numbers are used up (`CanSend`). `handover` leaves out the payloads that
neither start, end nor hand over anything (`HandoverPayload`); `lifecycle` has
all of them. Two streams are enough for one to lag behind another; they are
interchangeable, so `restart` uses symmetry. The client runs have one client:
what clients do to each other passes through the tracker and is the subject of
`handover`. `session` adds the constraint `GoalComesFirst`: of three commands
only the first is a goal, the others address it or release control.

`arrival` has two samples to settle and three in all (the constraint `Short`),
so a stop can begin, be broken and begin again, and a window of progress can
follow a correction; the headings are on both sides of the goal's, where they
wrap around. `nav2` begins three goals (`MaxGoals`), one more than it takes for a
callback to come too late. `pickup` runs two commands in a row (`MaxCommands`):
what is left behind by the first is what the second finds, and there are two
instances of the object that a pickup looks for, so that one may be out of reach.
`jobs` has the two jobs that a lock and a prerequisite can set against each
other; `MaxTags` bounds the calls of taggers. The beam of `search` is wider than
any level (40 against 34 placements), which is what `MissesNothing` is about; with a budget of 40 expansions
most searches end by themselves, and some run out of it. In `task_session` the second object fits in two regions and the first in
three, so that they can be swapped in three transfers; one interference or
restart comes at any moment, `MaxPlans` and `MaxMishaps` bound them.

TLC's deadlock check is on for `nav2`. It is off where the system may stop: when
the instance's sequence numbers, commands, plans or jobs are used up, when a
verdict is final, and when an exception has ended the receive thread (`dead`,
which the passing runs reach too).

## Fairness

* `CommandRuntime!FairSpec`: weak fairness of the receive thread (`ReceiveLoop`:
  `spin_recv` is a `while` loop that polls on every turn, and hooks are assumed
  to return) and of the clock. Nothing is assumed of the robot, of clients or of
  sockets. `ReceiveLoop` contains the turn without a message, so a steady stream
  of commands may postpone no poll. `MotionEnds` allows for a stop that was not
  confirmed: the server then knows (`fault`) and can do no more. `GoalIsSettled`
  allows for a receipt that is no longer kept.
* `Nav2Adapter!FairSpec`: Nav2 decides on every goal and ends the goals that it
  is asked to cancel, and the ROS executor runs the callbacks that are due.
  No call has to raise, and nothing is assumed of the receive thread.
* `PickupTasks!FairSpec`: `Task.run` is a loop that does not stop, and (strong
  fairness) no operation that is reached again and again fails every time. The
  second is an assumption on the world and not on the code: without it a task
  may go on for ever, for the count of failures never reaches its limit, and
  `CommandEnds` is false. That hazard is one that no property covers.
* `JobRegistry!FairSpec`: the operating system runs the supervisors and whoever
  is saving a record, commands end, and somebody lists the jobs again and again
  (strong fairness of each record being read). Waits need not run out, and
  nobody has to cancel, tag or kill.

## Disagreements between the code and its documentation

Two runs show behaviour that a document of the repository excludes
(`PROJECT.json`, "findings", has the lines):

1. `fault_lock`: "An unconfirmed stop locks navigation until
   inspection/restart", but a second cancellation with a confirmed stop clears
   the fault while the failed goal stays installed, and a poll may move the robot.
2. `jobs_tag`: "Tag an already-running job without restarting it", but a tag
   shares the temporary file of the record with the supervisor, whose rename may
   then fail: the script ends, and the command of the job never runs.

Other behaviours that the models have and that a reader may not expect. None of
the properties claims otherwise, and "hazards" has most of them with their lines:

* after the two cancellations of `fault_lock`, a controller that reports success
  makes `transition` raise where nothing catches it, and the receive thread ends
  (`pc = "dead"`), although "Expiry triggers cancellation even if the client
  disconnects";
* a correction keeps a deadline of its own, computed after the start hook has
  returned, where the comment says "Retain identity and the original deadline". One
  whose receipt is past its deadline by the time the robot has stopped may start
  the robot again (`CorrectionStops`, `Expire`, `CorrectionStarts`); the next poll
  stops it. `NoMotionPastDeadline` leaves this case out, and holds in every other;
* "provider execution must atomically validate its planning snapshot before
  commanding hardware" (`docs/api/tamp_task_plans.md`), but the native provider takes
  its snapshot, and then makes the motion for what it reads from the simulator once
  more. An object moved in between (`Preflight`, `Interfere`, `Refine`, `Actuate`)
  goes unnoticed, and the robot moves in a scene that nothing has checked; what it
  did is verified afterwards;
* a second goal that is refused by an error or unanswered makes the client
  forget the first, which closing then does not cancel; once the last goal's
  receipt is evicted, closing cancels it in vain and never releases control;
* a command whose sender was told of an error may still be in the socket and be
  dispatched later; the contract calls its outcome unknown;
* the failure count of a task is reset by every operation that runs, so that
  only a limit of one is ever reached, and then a method is called that `Task`
  does not have; an operation added as terminal is linked to the one added
  after it;
* the receptacle and the object of an earlier command stay in place: a place that
  finds no receptacle of its kind uses the old one, a hand-over that sees nobody
  goes to the object found before and opens the gripper there, and an open-loop
  pick with a full gripper reports success with what it held;
* a recovery from an unreachable receptacle leads back through the grasp, which
  opens the gripper: the object in hand is dropped and another may be picked;
* a listing that read a record before its job reported `done` writes `failed`
  over it; a cancelled job's command may survive, for only the supervisor's pid
  is waited for, and the kill of the group is skipped when the group has that id.

## Proofs

The theorems hold for all values of the constants under the assumptions that the
modules name: `TrackerAssumption` (sequence numbers are naturals, capacity is at
least two, the marker `None` is neither a session nor an identity),
`RuntimeAssumption`, `SessionAssumption` (the payloads include the releases and
cancellations that the library builds), `MonitorAssumption` and `PoseAssumption` (policies are
naturals and at least two samples settle, poses are of integers),
`NoneAssumption` (no sample is `None`), `AdapterAssumption` and `JobAssumption` (the
markers and the processes are distinct), `TaskAssumption` and `PickupAssumption`
(the operations of the five tasks are operations, commands name kinds that
instances have), `DomainAssumption`, `BudgetAssumption`, and the assumptions of
`TaskSession`. One theorem, `WideBeamsMissNothing`, has a hypothesis of its own.

`CommandRuntimeProofs`, the tracker: `TrackerTypes`, `AtMostOnce` (`ConsumedOnce`),
`SlotSurvivesEviction`, `AcceptedReceiptKept`, `OutcomesStand`.

* `ConsumedOnce` is not inductive: nothing in it says why an evicted identity
  cannot be accepted again. The invariant `TrackerInv` adds that an identity in
  the ledger belongs to a retired session, or to the owner with a sequence not
  above the high-water mark (`LedgerBehind`). Then a fresh identity is not in the ledger, receipt or no
  receipt.
* `NewReceiptRetained` needs that every stamp in the book is below `arrivals`
  (`StampsBehind`), so that the new receipt is the youngest, and a capacity of
  two: then an eviction finds at least two receipts besides the one in the slot
  (`RetainLemma`).

The runtime: `RuntimeTypes`, `SingleGoal`, `OwnedMotion`,
`DispatchFindsReceipt`, `DeadlineKept`, `RuntimeUsesTracker`,
`ImplementsAuthority`.

* The inductive invariant `RuntimeInv` is the tracker's (`TrackerInv`, with
  `SlotOwned`: the command in the slot is the owner's) together with what the
  receive thread knows. `OneGoal` alone is not inductive: starting a goal keeps
  it only because the command in flight holds the slot and nothing else is in
  progress then; answering a command keeps it only because its receipt is still
  open and is not the goal's. That is `FlightInv`; `LoopInv` ties `inflight` and
  `verdict` to `pc`. `RuntimeInv` says nothing of the robot's motion, so that it
  survives a restart of the server, after which the robot may still be moving.
* `RuntimeUsesTracker` shows that each step of the runtime is a step of the
  tracker or leaves it unchanged, so the tracker's theorems apply.
* `ImplementsAuthority` maps each action to one of `MotionAuthority` or to a
  stutter, from the invariant above. `OwnedMotion` follows from the refinement:
  the robot moves only while the slot is taken (`SlotMoves`), because the slot is
  freed only with a confirmed stop or at an arrival.

Its receipts: `CancellationsAreTruthful` (`CancelIsTruthful`), and the lemma
`HonestNextInv` that the clients' proofs rest on.

* A command is `Settled` when its identity is consumed, it does not hold the slot
  and its receipt, if still kept, is final. What is settled stays so, because
  nothing consumed is accepted again (`AtMostOnce` is what that rests on) and
  nothing final changes.
* `TruthInv` adds to `RuntimeInv` that every receipt's identity is consumed, that
  what is in the slot is a motion, that a confirmed stop comes with a final
  outcome, that a final receipt still in the slot is a failure with an unconfirmed
  stop, and that the target of a cancellation that has succeeded, or whose success
  is about to be recorded, is settled.
* `HonestInv` adds that a receipt which is not a rejection was dispatched, and that
  one of a release which has not failed finds the session retired or the release
  in dispatch with nothing left that could refuse it (`Released`).

`CommandSessionProofs`: `SessionTypes`, `EnvelopeDispatchedOnce` (`NoReplay`),
`AcknowledgedIsDispatched`, `ReportedGoalIsOver` (`OverIsOver`), `ClosedIsRetired`
and `ReceiptsAdvance`, for any number of clients, streams, commands and restarts.

* Identities: an envelope on a client's wire was built by it for the boot that it
  knows (`BuiltBy`); whatever the present boot has consumed belongs to clients of
  that boot, whatever earlier boots have dispatched to clients of those
  (`LedgerInv`). A client learns one boot and never leaves it, hence `NoReplay`.
* Reports: every receipt of this boot, in the server's history, in a half-written
  message, in the streams of a client or in its memory (`Reported`), is true
  (`TrueReceipt`): it came from the history, where `HonestInv` made it so, and
  what it says does not become false while it is on its way. Old, lost and
  overtaken messages need no case of their own.
* Calls: a client's call changes its state only by a lookup, by what a lookup
  justifies, and by beginning or ending a step (`Learned`, `BeginKeeps`,
  `EndKeeps`); each branch of each call is then a short lemma.
* A restart makes every report one of an earlier boot, of which the invariant says
  nothing, and starts the server's part over (`RestartKeeps`).

`ArrivalMonitorProofs`: `MonitorTypes`, `ArrivalsAreMeasured`,
`CorrectionsAreJustified`, `SeesAllAlong`, `StallsAreReal` (`StallIsReal`) and
`StallsAreNoticed` (`StallIsNoticed`), for any policy, poses and clocks. The
invariant `MonitorInv` ties the monitor's few fields to the history of samples:
the last stamp is the latest sample's (`LatestIsKnown`), and `settling` and
`outsideSince` are a sample of the trail since which all samples were at rest
inside, or outside since the latest correction (`SettlingIsMeasured`,
`OutsideIsMeasured`). `RestGoesOn` extends such a stretch by one sample and
`RestBegins` starts one; a correction is then justified by the stretch it ends. A
stall is real because progress is always measured from a sample since the latest
correction (`ProgressIsMeasured`). That a stall is noticed needs more: the trail is
ordered by both clocks (`Ordered`), and while the robot wanders without improving
on anything the window that is open began before the first one was over, and is
not over itself (`WanderingIsWatched`); so two windows cannot pass unnoticed.

`Nav2AdapterProofs`: `AdapterTypes`, `EarlierGoalsAreOver` (`OnlyLatestIsLive`),
`EventsAreDue` (`EventIsDue`) and `ImplementsHooks` (`HooksSpec`), for any number
of goals. `AdapterInv` adds to `OnlyLatestIsLive` that goals not yet begun are
nowhere (`FutureIsEmpty`), that an adapter which is not busy has no live goal
(`RestIsReal`) and that a terminal status is what became of the latest goal
(`OutcomeIsReal`); with these every step is one of `MotionHooks` or a stutter.

`PickupProofs`: `PickupTypes`, `PlansKeepTheirPromises` (`FlowInv`),
`NeverGetsStuck` (`NeverStuck`) and `SuccessesAreReal` (`SuccessIsReal`), for any
instances, kinds, commands and number of them.

* A plan is the outcome of a sequence of calls (`ConfigurableOperation`,
  `add_operation`), each a fold in `TaskEngine`. What the links of the five plans
  are follows by induction over the calls (`ConstructedUpTo`, `AddedUpTo`,
  `ChainedUpTo`). The induction is over a set of numbers (`SetInduction`: one that
  holds 0 and is closed under successor holds them all), because the library's
  induction theorems take an operator, which the provers cannot instantiate.
* Of a plan the loop needs two things: links do not lead out of the task
  (`Closed`), and some operations are entered only by the success of a gate
  (`Gated`): in a pickup what needs a receptacle by that of `find_receptacle`, what
  needs the object by that of `find_object`, and what carries it by that of `grasp`,
  on every way that the recoveries take.
* `Effect` sums up what each operation does to the shared state, and when it can
  be refused. With it `FlowInv` is inductive: the executor runs the plan of its
  command, stays in it, and wherever it needs a receptacle or a target it has one
  of the right kind (`HasTable`, `HasTarget`, `CarriesTarget`). `NeverStuck` alone is
  not inductive, as nothing in it says how the current operation was reached.

`TaskSearchProofs`: `FindsAreReal`, `PlansAreExecutable` (`PlanIsExecutable`) and
`WideBeamsMissNothing` (`MissesNothing`), for any table, goal, budget and refused
motions.

* Every path in the queue and among the candidates leads from the measured state
  to the facts recorded with it, along states that keep what is protected
  (`IsTrail`, `Leads`; `SearchInv`). A plan that is returned is one of them
  (`PlanInv`).
* `MissesNothing` is not true of a narrow beam. Its theorem assumes that the beam
  is at least as wide as the table has placements (`WideBeam`), which the instance
  of `search` meets; then no candidate is ever cut (`BeamDropsNothing`). `BreadthInv`
  says that everything within reach of the levels that are done has been visited
  (`NearIsVisited`), and that what has been visited is expanded or waits to be
  (`VisitedIsExpanded`).

`JobRegistryProofs`: `RegistryTypes`, `EndsAreReal` (`TerminalMeansOver`) and
`OneOnTheGpu` (`GpuExclusive`), for any sets of jobs, processes and
prerequisites. `JobInv` says what may be in a temporary file and in the hands of a
process before it reaches the record: a terminal status that somebody has loaded,
written or published finds the supervisor at its end (`NoEarlyEnd`), also if what
publishes it is an update that has outlived its supervisor. `GpuIsHeld`
says that a command that is running and needs the GPU is the one that the lock
was taken for.

`TaskSessionProofs`: `PlansAreSingleUse` (`StepsInOrder`), `AnswersHold`
(`AnswersAreTruthful`), `OthersStay` (`OnlyMovesTheMentioned`),
`VerifiedIsMeasured` (`GoalIsMeasured`) and `StepsAreCurrent`
(`OnlyCurrentStepsAreSent`), for any objects, regions, budgets and
mishaps. Nothing is assumed of a stored plan but that its goal held what it
protects in what was measured: an execution checks every step again.

* `LedgerInv` says which plans may still move the robot: a stored plan has moved
  nothing (`StoreInv`), the plan in execution has left the store and has moved
  exactly the steps that the call counts (`RunInv`), the plan of an answer is
  neither stored nor in execution (`AnswerInv`). Each move is then a new step
  after the ones before it (`MoveInOrder`). Calls change it in three ways only:
  by ending, by going on without a move, and by planning (`FailKeeps`,
  `StepKeeps`, `PlanningKeeps`).
* `GoalInv` says what has been measured: a feasible transfer takes its object
  away from where a goal that protects it wants it (`TransferIsMentioned`), so an
  operator that passes the checks moves an object of the assignment; and what a
  call has last measured is the session's reference when it is over.
* `BindingInv` says what a binding is worth: facts measured under a revision, in a
  stored plan or in a call, are those of the last measurement as long as the
  revision is still the same (`Bound`). A snapshot that gives the same binding has
  then found the same scene (`MeasureBinds`), and a step checked against the older
  facts is allowed now.

The type invariants of the runtime, the tracker, the arrival monitor, the Nav2
adapter and the job registry are proved and not repeated in the runs. The inductive
invariants were checked on the runs' instances before they were proved.

Every safety property of a passing run is stated by a theorem. `OnlyMovesTheMentioned`
is proved and not repeated in a run: it follows from the checks that
`OnlyCurrentStepsAreSent` is about. Model-checked only:
the liveness properties, `GoalIsSettled`, `MotionEnds`, `CancelEndsGoal`,
`CommandEnds`, `JobsEnd` and `RecordsSettle`. They rest on fairness, that is on
when an action is enabled, of which the prover knows nothing.

## Not modelled

The components with status `not_modelled` in `PROJECT.json`, each with its
reason: numerical maps, learned models, geometry, physics, device input and
output, experiment drivers and argument parsing, which are most of the
repository's lines and have data rather than control to check. Within the
modelled ones:

* protocol: field-by-field validation, step numbers and logs,
  `check_base_poses`, the client's reactive calls, capability advertisement,
  payload sizes and rates. Several threads of one client share its `_act_lock` in
  `send_command`; they are one thread here.
* arrival: recorded results (`NavigationResult`) are parsed and hold no state; a
  position has two coordinates in the code and one here.
* pickup: emotes, pictures, speech and exploration commands of the executor;
  DynaMem tasks and the manipulation they call.
* planning: tree search, discovery of observed objects, budgets of an episode,
  inverse kinematics; groups, stacks and containers of the other provider.
* jobs: unregistered processes found in `/proc`, progress files, CPU pinning and
  memory gates beyond that they may fail; a temporary file half written.

## Plan

Done: the protocol with its clients, arrivals, the Nav2 adapter, pickup tasks,
task sessions, jobs; theorems of all of them, for every safety property that a
passing run checks.

1. Proofs: that the plans which `TaskSession` stores and those which `TaskSearch`
   returns are the same, now only said of either; and the safety half of the
   liveness properties, what an action that is due leaves true until it is taken.
2. The client's reactive calls in `CommandSession`, and two clients that contend
   for one robot.
3. A composition of `CommandRuntime` and `Nav2Adapter` by way of `MotionHooks`,
   which is now shown from either side.
4. Tree search, and the executor of DynaMem.
