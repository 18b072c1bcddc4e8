# execgo-runtime in TLA+

A verification project for execgo-runtime, the task execution service in `src/`: an HTTP
server that accepts tasks, keeps them in one SQLite file, dispatches them within resource
limits to *shim* processes, and recovers after a restart. The modules below model what the
components do to the state they share, TLC checks them on small instances, and TLAPS proves
the central invariants for every value of the constants.

Paths such as `runtime.rs` are under `src/src/`, paths such as `docs/architecture.md` under `src/`.

## 1. Inventory

| Component | State it keeps | Operations | Talks to |
|---|---|---|---|
| Repository (`repo.rs`) | tables `tasks`, `task_events` in SQLite | `insert_task`, `mark_dispatched`, `mark_started`, `reserve_resources`, `release_resources`, `set_cancel_requested`, `cancel_accepted_task`, `complete_task`, `mark_recovery_lost`, `delete_task`, lists | shared by the server and every shim, each with its own connection |
| Dispatcher (`runtime.rs`, `dispatch_once_sync`) | the sums of its current cycle | count reservations, list accepted rows, cancel / pass / reserve / spawn / mark, fail a spawn | rows, spawns shims |
| Kill handler (`kill_task`, `spawn_escalation`) | what it read of the row | check, set the flag, cancel or signal, SIGKILL after the grace period | rows, process groups |
| Shim (`run_internal_shim`, `supervise_wait`) | timers, what `wait4` returned | read the row, launch, `mark_started`, tick, classify, `complete_task`, write `result.json` | rows, its workload |
| Recovery (`recover`) | the list it took | release, probe, rebuild, fail as lost | rows, `kill(pid, 0)` |
| Ledger (`ledger.rs`) | none | fit, add, subtract, sum, with `Option` and saturation | called by submission and dispatcher |
| Policy, capabilities (`policy.rs`, `capabilities.rs`) | none | probe the host, resolve a plan | called by submission |
| Launch (`runtime.rs`, `spawn_task_process`) | the workload's process | rlimits, unshare, chroot, exec, cgroup | follows the plan in the row |
| Workload and kernel (external) | processes of a group, members of a cgroup, its counter of OOM kills | fork, exit, obey or ignore SIGTERM, die of SIGKILL | signals, `wait4` |
| Submission (`submit_task`) | files of a task | check ledger, policy, queue; write files; insert | rows, files |
| Garbage collector (`gc_loop`) | the list it took | remove a directory, delete a row | rows, files |
| Validation, types (`types.rs`) | none | sequential checks of a request | called by submission |
| HTTP API (`server.rs`, `error.rs`) | none | maps requests to the service, errors to status codes | - |
| Resource view (`runtime.rs`, `runtime_resources`), metrics (`metrics.rs`) | what the first of two reads returned | read-only sums | rows |
| Client commands (`cli.rs`) | the task they follow | HTTP clients, polling of `wait` and `run` | HTTP |

**How they interact.** There is no message and no lock between the actors: the server's
loops, its handlers and the shims meet in the rows only. A method of `Repository` is one
transaction; everything longer reads in one transaction and acts in later ones.

**What is hard.** Interleavings of dispatcher, kill handlers and shims on one row, with
`UPDATE`s of which some test the status and most do not; a crash of the server between any
two transactions, with shims and workloads that go on; a shim that dies; a recovery pass that
probes and acts in separate steps; sums that a dispatcher cycle keeps in memory while tasks
end; a plan made on one host and followed on another; check and insert of a submission
apart; a directory removed before its row; two processes that each count a grace period for the
same workload; a workload that runs before it is in its cgroup; a cgroup that outlives its task;
a client that polls a task which others end, collect or submit anew. `PROJECT.json` lists these under `hazards`, each
at its line.

**What makes a component correct.** Repository and its users: final states are final, a
reservation is released with the end, the events tell who holds one. Dispatcher: never
beyond the slots, capacity or quota; one shim per task and incarnation; every task that fits
is served. Kill: a killed task ends and stays ended. Shim: every row that is running has
somebody who will end it, verdicts have causes. Recovery: lost means lost. Policy: strict
means exactly what was asked once the workload is supervised, degraded says what is missing,
a plan launches where it was made. Supervision: a workload is stopped in time and not before, and the verdict tells what
ended it. Submission and collector: the queue is bounded, a row has its files, only old tasks
are collected and all of them are. Resource view: what it calls available is what the
dispatcher would give. Client: it is shown the end of its own task.

## 2. Modules

| Module | Models | Used by |
|---|---|---|
| `TaskStore` | a row of `tasks`, and each transaction as a function from row to row | `TaskRuntime` |
| `TaskRuntime` | server, dispatcher, kill handlers, recovery, shims, workloads, `result.json` | `MCTaskRuntime`, proofs |
| `SlotPool` | the abstract promise: tasks wait, take one of `Slots` slots once, end with one verdict | refined by `TaskRuntime` |
| `Supervision` | one launch under a clock: ticks of `supervise_wait`, the shim's grace period and the server's escalation, the process tree with its group and cgroup, the verdict, an id used again | `MCSupervision`, proofs |
| `Ledger` | the arithmetic of `ledger.rs` | `Admission` |
| `Admission` | amounts, tenants, quotas, the sums of a cycle, restarts with other limits | `ResourceView` |
| `ResourceView` | `runtime_resources` beside the dispatcher: two reads, and what is available | `MCAdmission`, proofs |
| `ExecutionPolicy` | requests, hosts, the probe, the plan, the launch that follows it | `MCExecutionPolicy`, proofs |
| `Submission` | concurrent submissions, files, the queue check, `gc_loop` | `Client`, proofs |
| `Client` | the commands `run` and `wait` over the life of a task, status codes, which directories lost their row | proofs |
| `MC...` | constants of the instances | runs |
| `..._proofs` | theorems | - |

The state machines cut the system along its data. `TaskRuntime` has every race for a row, but
one slot per task and no clock; `Supervision` has the clock and the processes of one launch, and
of the row only what shim and kill handler tell each other through it; `Admission` has the
amounts but a simple life; `ExecutionPolicy` has one task and everything the plan depends on;
`Submission` has what comes before the insertion and after the end. They overlap in one
transaction each (the insertion, the reservation, `set_cancel_requested`, `complete_task`).
Two compositions share variables: `ResourceView` adds a reader to `Admission`, and `Client` adds
a command to `Submission`, whose request is served by one of its handlers (`Runner`).
`Client_proofs` shows that a behaviour of the composition is one of `Submission`.

**State and actions.** An action is one transaction, one system call or one decision in
memory, and is named for its handler: `Dispatch...` (`dispatch_once_sync`), `Kill...`
(`kill_task`, `signal_task_termination`, `spawn_escalation`), `Shim...`
(`run_internal_shim`), `Recover...` (`recover`), `Submit...` (`submit_task`), `GC...`
(`gc_loop`), `Run...`, `Wait...` and `Poll...` (`cli.rs`), `View...` (`runtime_resources`).
What a handler remembers between two steps is in its own variable: `disp` holds the dispatcher's sum and what it decided about each listed row *from the row as listed*,
`recov` likewise, `kills` the step of each handler and the pgid it read, `shims` the
step of each shim and the outcome it is about to write. In `TaskStore` each operator says
whether its `WHERE` clause tests the status; the properties depend on that.
The map in `PROJECT.json` gives the lines of every definition.

**Abstractions.** Process ids are numbers of launch attempts and never reused. Time is the
order of events: a tick may find the limit elapsed or a grace period over at any point of
supervision. Only `Supervision` counts it, in units smaller than the polls of 250 ms (section 3). Texts, event payloads, logs and exit details are left out. `held` in a row counts
the reservation events. An `Option` is a set with at most one member.

**Mutated forms.** A definition introduced by "Mutated form" is not part of the model. It is
a variant of the definition after it with a plausible bug, and `PROJECT.json` (`mutants`) says
which property notices it.

## 3. Runs

Deadlock checking is off throughout: in a bounded instance every task ends and the system
then rests.

| Run | Instance | Checks |
|---|---|---|
| `restart_races` | 1 task, 2 launches, a kill, 2 crashes of the server and one of a shim, a failed cycle | `OneShimPerLife`, `RunningIsSupervised`, `VerdictIsEarned` under all interleavings |
| `restart_slots` | 2 tasks, 2 launches each, one crash, no kill | `SlotsRespected` and `EventsBalance` over one recovery pass |
| `quiet` | 2 tasks, no kill, no crash, fairness | refinement of `SlotPool`, `WorkloadsWithinSlots`, `EveryTaskEnds` |
| `kill_liveness` | 1 task, a kill, a crash, fairness without the timer | `KillStops` |
| `supervision` | 3 processes, polls every 2 units and up to 1 late, a wall time of 3 and a grace period of 2, a kill request at any time, an id used twice | `StoppedInTime`, `NoEarlySigkill`, `VerdictTellsCause`, `PidsHeld` |
| `admission` | 3 tasks, 2 tenants, a restart with other limits, a reader of the view | `ReservationsFit`, `CountsCover`, `NoOvertaking`, `NeverShownTwice`, `AvailableIsRight`, `FittingTaskIsServed` |
| `policy` | every request over 2 namespaces and 3 limits, 7 hosts | `StrictIsExact`, `DegradedTellsAll`, `PlanLaunches` |
| `submission` | module `Client`: 3 ids, 2 handlers of which one serves the client, a queue of 1, 3 calls, a crash, a fault, a retention chrono can represent | `QueueBounded`, `RowHasFiles`, `OwnVerdict`, `OrphansAreAbandoned`, `GCSparesTheYoung`, `OldIsCollected`, `ClientEnds` |
| `terminal_not_final`, `reservation_leak`, `live_shim_lost` | 1 task | one documented statement each, which the code does not keep (section 5) |
| `stale_oom` | as `supervision` | likewise |

Every passing run of a state machine also checks its type invariant, but for `restart_slots`,
`quiet` and `kill_liveness`, which leave it to `restart_races` and to the proof.

**Why the bounds suffice.** The races are between actors on one row; a second task adds
competition for a slot, and one slot makes every reservation contended. Two launch attempts
allow the interesting sequence: launch, crash, launch again. One crash is one recovery
pass. The second crash of `restart_races` lets a recovery pass find what the first one left
behind: a row that is running under its second shim and whose reservation the first shim's end
released, which `recover` rebuilds. `SlotsRespected` is a property of behaviours without kills and
says nothing after a second crash; until the first crash it holds with kills too (both are
theorems). After a second crash that rebuilt reservation may be one too many, and with a kill
and a crash together a reservation rebuilt for a row that was cancelled meanwhile is never
released. In `restart_slots` nothing is rebuilt: the proof shows that the first recovery pass finds
nothing to rebuild while nobody kills. `SlotsRespected` counts rows: a task that is launched
again after a crash between spawn and `mark_dispatched` has two shims, and two workloads, on one
slot, which no property limits. `WorkloadsWithinSlots` counts the workloads under supervision,
without kills until the server is back from its first crash. A workload that a failed
`setup_cgroup` left behind runs outside of the slots for as long as it likes
(`runtime.rs:1033`), so `max_running_tasks` bounds the supervised workloads only; the property
says that the task of such a workload is failed.
`MaxU64 = 7` makes sums saturate within the instance.
`CountsCover` speaks of what a u64 can hold, and for the runtime of the dimensions that have a
capacity: without one nothing is compared, and a sum that saturated falls below what is held when
a failed spawn is taken back. `AvailableIsRight` leaves out requests for 0 bytes or pids,
which the dispatcher refuses while more is held than there is although they fit into what is left.
The queue of one with two handlers is the smallest that can be overrun; the third id lets
both handlers work while the collector holds a task. In `supervision` the leader and two children
are one process more than `PidsMax = 2` allows. `Period = 2` with `WallTime = 3` puts the wall
time between two ticks and `Grace = 2` lets the two grace periods overlap in either order;
`Lag = 1` is the smallest delay that lets a tick and `wait4` be ready together, the write of
`mark_timeout_triggered` take time, and a kill request come between the two halves of a tick;
`Horizon = 11` is the first moment at which a workload started at 0 would violate `StoppedInTime`; `Launched = 1` lets
a request or a child come before `supervise_wait`; the
second launch is there for what the first leaves behind in the cgroup. In `policy` the
namespaces are one that is on by default and one that is not.

**View and symmetry.** `ControlView` drops `result`, the event counts and the status about
to be written to `result.json`: no guard reads them, and only runs that check nothing about
them use it. Task ids, kill requests and the children of a leader are only compared for equality, and the
symmetric runs check invariants only.

**Fairness.** The dispatcher loop, the recovery pass and `gc_loop` run for ever; a handler
once called and a shim once forked run to their end; a server that went down is started again
(`docs/deployment.md:41`, `Restart=on-failure`); a client that follows a task polls. Requests, failures and the workload's own end are not
promised. The wall time limit (`TimerFairness`) is assumed for `quiet` only:
`KillStops` holds without it. `Admission` and
`Client` assume that a running workload ends, which is what `wall_time_ms` promises. In
`Supervision` fairness is not needed: its deadlines are invariants over the clock.

**Time of a shim.** The clock of `Supervision` counts units of no given length, so that neither
the wall time nor the grace period has to be a multiple of the poll interval (`Period`). A tick
is two steps. `PollRead` reads the row and compares the wall time; `PollAct` takes
`timeout_started` and `cancel_started` from the clock of then, after the write of
`mark_timeout_triggered`, and compares the grace periods with it. `Tick` lets no more than `Lag`
units pass while something is due in the shim: a tick (both halves) or `wait4`. That is the only
assumption about speed, and a deadline without one would be false of any program; `Lag` stands for
the wake-up of a task, a read and a write of the database (whose busy timeout is longer than
usual waits). Within `Lag` a tick and `wait4` may go in either order, as in `select!`. Nothing is
assumed of the server, whose escalation may come late or never. So the SIGKILL comes within two
intervals and two delays of the wall time plus the grace period, and `VerdictTellsCause` says how
much the verdict can know: an end between the wall time and the tick that notices it is reported
as it happened or as a timeout, and an end before the wall time is a timeout only if it was
within `Lag` of it. `memory` is the exception: it goes by the counter of the cgroup
(`stale_oom`).

**Time of clients and of ids.** `Client` assumes that a client, which polls every half second,
sees the end of its task before the row is older than the retention (a week by default);
without it a `wait` may be told `not_found`. This needs a retention that
`chrono::Duration` can represent (`RetentionFits`): otherwise `gc_loop` takes the present for its
cutoff and collects every terminal task (`runtime.rs:717`). `GCSparesTheYoung` and `RowHasFiles` say
what holds in either case, and `OwnVerdict` is proved with the retention represented.
`Supervision` assumes that an id is used again only
after the escalation for its former task is over, for the same reason. `Admission` gives every
task its own place in the order of `created_at_ms`: with two tasks of one millisecond the list
is in no promised order, and `NoOvertaking` says nothing about them.

**What holds only under the bound or the absence of faults.** `EveryTaskEnds`,
`WorkloadsWithinSlots` and the refinement are claims about the runtime without kills and
crashes; with them the findings below refute each. `EventsBalance` needs the absence of kills:
`cancel_accepted_task` inserts its events even when its `UPDATE` matched nothing.
`FittingTaskIsServed` holds because a run has finitely many tasks: with an endless stream of
small tasks a big one is passed over for ever. What is left then is `NoOvertaking`: it is never
passed over by a task of its tenant that asks for as much or more. `PidsHeld` is said of
workloads that fork nothing before the shim has put them into their cgroup: `spawn_task_process`
starts them first. For the same reason `StrictIsExact` grants a strict workload no limit on
pids until `setup_cgroup` is done, nor after it failed: it is left running then (stage
`abandoned` of `ExecutionPolicy`). `PlanLaunches` speaks of hosts about which the probe was right.

## 4. Proofs

TLAPS checks these for all tasks, handlers, slots, attempts and bounds.

| Module | Theorem | Says |
|---|---|---|
| `TaskRuntime_proofs` | `TypeCorrect` | the state of all actors has its type |
| | `RunningSupervised` | a running row has a shim that will end it, or had one that crashed |
| `TaskRuntimeDispatch_proofs` | `SlotsRespectedUntilCrash` | before the server first crashes the slots are respected, whatever is killed |
| | `OneShimPerIncarnation` | between two crashes of the server a task gets one shim |
| `TaskRuntimeVerdicts_proofs` | `VerdictsAreEarned` | cancelled was asked for, success exited with 0 |
| `TaskRuntimeQuiet_proofs` | `EventsTellReservations` | without kills: the events tell who holds a reservation |
| | `SupervisedWithinSlots` | without kills, until the server is back from its first crash: no more supervised workloads than slots |
| | `RowsImplementSlotPool` | without kills and server crashes: the runtime implements `SlotPool` |
| | `SlotsRespectedOverCrash` | without kills, until the server crashes a second time: the slots are respected |
| `ExecutionPolicy_proofs` | `PolicyTypeCorrect`, `StrictExact`, `DegradedTells`, `ResolvedPlanLaunches` | the promises of plans, for all namespaces, requests and hosts |
| `Supervision_proofs` | `SupervisionTypeCorrect` | the state of shim, handler, clock and processes has its type |
| | `WorkloadStoppedInTime`, `NoSigkillBeforeGrace` | the deadlines, for all wall times, grace periods, poll intervals and delays |
| | `VerdictTrue` | how far the verdict names what ended the workload |
| | `PidsMaxHeld` | a workload that forks nothing before it is in its cgroup keeps to `pids.max` |
| `Admission_proofs` | `ViewTypeCorrect` | rows, sums and reader have their types |
| | `SumsNeverTooLow` | the sums of a cycle cover what is held |
| | `NoOvercommit` | a reservation respects capacity and quota, for all amounts, limits and widths of a u64 |
| | `NobodyOvertaken` | no task is passed over by one of its tenant that asks for as much |
| | `ViewShowsTasksOnce`, `ViewAgreesWithDispatcher` | the view counts a task once, and offers what the dispatcher would give |
| `Client_proofs` | `SubmissionTypeCorrect`, `FreshRowHasFiles`, `YoungSpared` | of `Submission`: files are there before their row, the collector spares what has not ended, and what is not old if the retention can be represented |
| | `QueueOverrunBounded` | of `Submission`: the queue is exceeded by fewer rows than there are handlers |
| | `ClientImplementsSubmission` | with a client the server still behaves as `Submission` says |
| | `ClientTypeCorrect`, `ClientShowsOwnVerdict` | the client is shown the end of its own task, if the retention can be represented |
| | `OrphansComeFromSubmissions` | directories without a row come from submissions that stopped, never from the collector |

The arguments:

* **Type of the runtime.** `TypeOK` alone is not inductive: `reserved` is decreased after a
  failed spawn, and a natural number needs a reason to stay one. `TypeInv` adds that the
  dispatcher is busy with one task at a time (`OneAtATime`), that while it spawns its sum
  counts the reservation just made (`ReservationCounted`), and that outside the walk through
  its list it has nothing left to do (`NothingLeft`).
* **`RunningIsSupervised`.** `SupervisedInv` adds that a row still accepted has no shim that is
  past its `complete_task` (`NotEndedYet`), that the dispatcher marks a shim it really spawned
  (`MarksSpawned`), and that `complete_task` is only given a final state
  (`VerdictIsTerminal`). The late `mark_dispatched` is harmless because of its guard: if the
  shim it marks were over, the row would no longer be accepted.
* **Slots.** `SlotsInv` relates the dispatcher's sum to the rows: during a cycle it is at least
  the number of tasks that hold a reservation *or* whose reservation the dispatcher may still
  take back (`CountCovers`). A kill or a shim that releases a reservation makes the rows fewer
  and the sum no smaller; a failed spawn is subtracted once and was counted once. `recover`
  rebuilds reservations without counting, so with kills the claim ends with the first crash.
  Without them `OnceInv` carries it over: until the server is back from that crash, a running row
  holds its slot (`RunningHolds`), since `mark_dispatched` and `mark_started` find the slot taken
  before the spawn and only the step that ends the row returns it. So this recovery
  pass lists nothing to be rebuilt (`NothingToRebuild`) and only gives reservations back.
* **One shim.** `LivesInv`: shims are not from the future (`LivesPast`); a row still accepted
  although its shim was started keeps its reservation (`SpawnedHolds`), and that keeps the
  dispatcher off it; what is about to start was not started yet (`StartsFresh`).
* **Verdicts.** Each actor decides on an older reading of the row, so `VerdictInv` says of each
  that what it is about to write is still justified: a handler about to cancel set the flag
  (`KillersFlagged`), the dispatcher listed it (`CancelsFlagged`), a shim at its
  `complete_task` has the flag or the exit code (`ShimsCaused`); flags are never reset.
* **Quiet runtime.** `EventsBalance` needs that `reserve_resources`, which tests nothing, is
  called only where there is no reservation, by the dispatcher (`StartsUnreserved`) and by
  recovery (`RebuildsUnreserved`). The refinement of `SlotPool` goes through every action with
  the invariants above and `QuietInv` (a shim that has not ended its row holds its slot), and
  shows that the rows make a step of the pool or none; `SlotsRespected` is what lets a
  reservation map to taking a *free* slot. For `WorkloadsWithinSlots` a shim that supervises
  belongs to a row that holds its slot, and no two to one row, so that `SlotsRespected` bounds them;
  `WorkInv` adds that a workload which outlives the slot of its task is one whose launch failed.
* **Client.** `WatchInv`: while the client polls, the row is the one it asked about
  (`Watching`), because `gc_loop` takes only old rows (with `RetentionFits`) and an id is
  inserted anew only after that. `OrphanInv` adds to the claim the rows whose directory the
  collector removed and which it is about to delete.
* **Supervision.** `SupervisionInv` ties the clock to the ticks. A tick is due within an interval
  and made within `Lag` of that (`PollInv`), so the first tick after the wall time or the request
  notices it, if the leader lives (`TimeoutInv`, `CancelInv`). The grace period begins where the
  tick takes the clock, not where it was due; while the leader lives, the tick that finds it over is
  the next one or one before the grace period is over (`GraceInv`). The deadlines follow: one
  interval to notice, one to escalate, and a `Lag` for each. The handler sleeps for a grace
  period that began with the request (`AskedInv`). A leader that is gone is waited for within
  `Lag` (`DiedInv`), in which a tick may still go first: that is the margin of
  `VerdictTellsCause`. `CgroupInv` has the limits written before the cgroup has a member, and
  children born where their parent is.
* **Sums.** `AddedUp` is a fold of the community modules, and a fold is defined by recursion over
  sets. That it takes its elements one by one, in any order, is proved from its definition: the
  prover has no induction schema for operators, but `WFMin` gives any set of counterexamples a
  smallest one (`SubsetInduction`). `AddedUpValue` then says what a sum is as a number, the
  smaller of the true sum and `u64::MAX`, and `AdmissionInv` that the sums of a cycle cover
  what is held (`RuntimeCovered`, `TenantsCovered`). The delicate step is the failed spawn: its
  saturating subtraction is right because the row was added to the sum and, where there is a
  capacity below `u64::MAX`, did not saturate it when it was checked. `InOrder` says that
  what is left of the list is waiting, that a walk has one row reserved at most, and that a
  row is numbered by the rows before it.
* **Overtaking.** `PassedOver` says of every waiting task the walk has left behind that it does
  not fit the present sums, nor the sums with any reserved row taken back. A younger task that
  asks for as much does not fit them either.
* **View.** A task the reader has listed as active was reserved then, and a reserved row never
  waits again before a restart, which ends the answer (`ListedWereActive`). That both computations of what is
  available agree is arithmetic: `x <= limit - min(sum)` and `min(sum) + x <= limit` differ only
  where the subtraction stops at zero, and there only for `x = 0`.
* **Plans.** `PlanInv` follows the plan from its resolution: it is the plan of its request on
  the host of the submission, what is applied is what it says, and a launch fails only for
  something the plan contains. The theorems then follow from lemmas about
  `resolve_execution_plan` (a plan with `pids` has a cgroup, a strict plan keeps everything).
* **Files.** `FilesInv` adds that `gc_loop` holds old rows only, that an id never inserted has
  no row, and that what a handler wrote for an id of first use is there.
* **Queue.** `QueueRoom` counts handlers that passed the check as if they had inserted:
  accepted rows and busy handlers together are at most `MaxQueued + |Handlers| - 1`. The check
  `count < MaxQueued` establishes it, an insert turns one into the other.

Assumptions: the named `ASSUME`s of the modules (finite sets, positive limits, capacities
below `u64::MAX`), which TLC evaluates in every run of the module.

Only model-checked: all liveness (`KillStops`, `EveryTaskEnds`, `FittingTaskIsServed`,
`OldIsCollected`, `ClientEnds`): the prover treats neither liveness under fairness nor
`ENABLED`.

## 5. Findings

Each is a run that violates one statement of the documentation.

1. `terminal_not_final`: `mark_started` sets `running` whatever the status is, so a task
   cancelled between the shim's `get_task` and `mark_started` runs again
   (`repo.rs:427`, `docs/architecture.md:80`). It is killed later: `KillStops` holds.
2. `reservation_leak`: `reserve_resources` does not test the status, so a task cancelled
   after the dispatcher listed it ends with an active reservation that nothing releases
   (`repo.rs:452`, `docs/architecture.md:99`).
3. `live_shim_lost`: `shim_pid` stays NULL when `mark_started` precedes `mark_dispatched`
   or the server crashes in between, and recovery fails the task as lost while its shim runs
   (`repo.rs:409`, `docs/architecture.md:173`).
4. `stale_oom`: `setup_cgroup` takes a cgroup directory that is already there, and nothing
   removes one. A task that reuses the id of a collected task finds its OOM counter, and is
   failed with `memory_limit_exceeded` although it exited with 0
   (`runtime.rs:1596`, `docs/architecture.md:88`).

Differences noticed while reading, without a run: `docs/api.md:387` says a strict example is
refused when cgroups are off, but without `pids_max` it is accepted, since `policy.rs` needs
the cgroup for pids only; `docs/architecture.md:160` calls `request.json` the request as
submitted, but a submission refused for a conflicting id overwrites it;
`docs/deployment.md:162` says restricted containers degrade, but the probe takes euid 0 and
mode bits for permission, so such launches fail instead; `docs/api.md:138` and `docs/cli.md:16`
state a queue limit that concurrent handlers exceed (by how much: `QueueBounded`);
`docs/architecture.md:71` says that the status is written to `result.json` with the end of a
task, but a task that the kill handler cancels while it is accepted gets no such file
(`runtime.rs:310`);
`docs/architecture.md:176` advises a longer retention for keeping results, and `docs/cli.md:18`
calls the option the time they are kept, but one that `chrono::Duration` cannot represent (from
some 10^16 seconds on) makes `gc_loop` collect every terminal task at once (`runtime.rs:717`).
`Submission` has both cases as `RetentionFits`; its theorems are proved for both, the run has the
ordinary one.

## 6. Not modelled, and why

* Validation of ids, paths, environment and execution specs (`types.rs`): sequential checks of
  strings, without state. What ledger and policy read of a request is modelled.
* HTTP routes, argument parsing, the owner check of a kill: each is a condition before one call
  of the service. The status codes that a polling client tells apart are in `Client`, but for a
  500 of `get_task`, with which `wait` ends.
* The Prometheus text and the response types: formatting of rows already read.
* Command line, environment and script files of a workload: data without control.
* `mark_recovered`: it inserts an event and changes nothing.
* PID reuse and zombies; failures of SQLite other than the error of a transaction (a shim then
  leaves: `ShimCrash`; a dispatcher cycle ends: `DispatchAbort`).
* What becomes of children that outlive their leader: the shim leaves, nothing is promised.
* Systems other than Linux.

## 7. Plan

Done, in this order: the life of a task (`TaskStore`, `TaskRuntime`, `SlotPool`) and the proofs
of its type and of `RunningIsSupervised`; `Ledger`, `Admission`; `ExecutionPolicy` and
`Submission` with proofs; the findings as runs; `Supervision` with process tree and cgroup;
`ResourceView`; `Client`; the theorems about slots, shims, verdicts and events, and the
refinement of `SlotPool`; the theorems about deadlines and verdicts of `Supervision`, and about
sums, order and view of `Admission` and `ResourceView`; `SlotsRespected` over a crash.

Left: what the liveness runs show stays with TLC. Of the safety properties each one that a run
checks is a theorem too; where a property needs a hypothesis (no kills, no second crash), the
theorem names it.
