----------------------------- MODULE TaskRuntime -----------------------------
(***************************************************************************)
(* The life of tasks from their insertion to their end: one server (its    *)
(* dispatcher loop, its kill handlers, the recovery pass it makes when it  *)
(* starts), one shim process per launch attempt, the workload each shim    *)
(* starts, and the SQLite rows and result.json files they share.           *)
(*                                                                         *)
(* Nothing but the rows connects these actors: each reads a row in one     *)
(* transaction and acts on what it read in later ones.  An action is one   *)
(* transaction of repo.rs, one system call (spawn, kill, write of a file)  *)
(* or one in-memory decision of a handler; whatever a handler remembers    *)
(* between two actions is in its own variable.                             *)
(*                                                                         *)
(* Process ids are never reused: shim_pid and pgid name the launch attempt *)
(* that created the process.  The garbage collector is not running: rows   *)
(* stay for at least result_retention after their end.                     *)
(***************************************************************************)
EXTENDS TaskStore, FiniteSets

CONSTANTS
    Tasks,            \* task ids
    Killers,          \* concurrent kill requests one task may get
    Slots,            \* capacity.task_slots: --max-running-tasks
    QueueLimit,       \* --max-queued-tasks, the LIMIT of list_accepted
    MaxCrashes,       \* bound on the crashes of the server
    MaxShimCrashes,   \* bound on the crashes of shims
    MaxFaults         \* bound on the dispatcher errors that end a cycle

ASSUME TasksAssumption == IsFiniteSet(Tasks)
ASSUME LimitsAssumption == Slots \in Nat \ {0} /\ QueueLimit \in Nat \ {0}
ASSUME BoundsAssumption == /\ MaxCrashes \in Nat
                           /\ MaxShimCrashes \in Nat
                           /\ MaxFaults \in Nat

VARIABLES
    db,       \* [Tasks -> Row]: table tasks
    result,   \* [Tasks -> Status]: the status result.json shows, "absent" if no file
    server,   \* [phase, life]: the server process; life counts its incarnations
    disp,     \* the dispatcher loop
    recov,    \* the recovery pass
    kills,    \* [Tasks -> [Killers -> ...]]: kill_task handlers and their escalation
    shims,    \* [Tasks -> [Attempts -> ...]]: shim processes and their workloads
    faults    \* [shim, cycle]: crashes of shims and errors of cycles so far

vars == <<db, result, server, disp, recov, kills, shims, faults>>

-----------------------------------------------------------------------------
(* States of the actors *)

\* What the dispatcher still has to do about a task of the list it took.
DispatchTodo == {"skip",      \* nothing: not listed, passed over, or done
                 "cancel",    \* the listed row had kill_requested
                 "start",     \* the listed row waits for a reservation
                 "spawn",     \* reserved, shim to be spawned
                 "mark",      \* spawned, mark_dispatched to come
                 "fail",      \* spawn failed, complete_task to come
                 "persist",   \* persist_latest_result: get_task to come
                 "write"}     \* persist_latest_result: write to come

\* The steps the dispatcher is in the middle of, for one task at a time.
DispatchBusy == {"spawn", "mark", "fail", "persist", "write"}

RecoverTodo == {"skip",
                "release",     \* accepted with an active reservation
                "probe",       \* running with a shim_pid and a reservation
                "reprobe",     \* running with a shim_pid and no reservation
                "reserve",     \* the shim lives, reservation to be rebuilt
                "lose",        \* mark_recovery_lost to come
                "persist", "write"}

KillStep == {"idle", "flag", "read", "cancel", "signal", "escalate", "done"}

\* Program counter of a shim process.
Unended == {"init",       \* forked, the row not read yet
            "launch",     \* about to spawn the workload
            "launched",   \* workload spawned, mark_started to come
            "supervise",  \* supervise_wait
            "complete"}   \* complete_task to come
Ended == {"persist", "write"}
ShimStep == {"unborn", "dead", "gone"} \cup Unended \cup Ended

\* "exit0" and "exitbad" are what wait4 returns for a workload that is over.
Work == {"none", "alive", "exit0", "exitbad"}

Shim == [pc      : ShimStep,
         life    : 0..MaxCrashes,     \* the incarnation that spawned it
         timeout : BOOLEAN,           \* timeout_started.is_some()
         work    : Work,
         out     : Status]            \* the verdict, then the status to persist

NoShim == [pc |-> "unborn", life |-> 0, timeout |-> FALSE,
           work |-> "none", out |-> "absent"]

\* kill(pid, 0) finds the shim: it is forked and has not exited.
ProcessExists(t, a) == shims[t][a].pc \in Unended \cup Ended

Idle == [pc |-> "idle", todo |-> [t \in Tasks |-> "skip"],
         reserved |-> 0, pid |-> 0, out |-> "absent"]

NoRecovery == [todo |-> [t \in Tasks |-> "skip"], out |-> "absent"]

NoKill == [pc |-> "idle", pg |-> 0]

Dispatching == [pc       : {"idle", "counted", "work"},
                todo     : [Tasks -> DispatchTodo],
                reserved : Nat,               \* current_reserved.task_slots
                pid      : 0..MaxAttempts,    \* handle.id() of the shim spawned
                out      : Status]            \* the status to persist

Recovering == [todo : [Tasks -> RecoverTodo], out : Status]

Kill == [pc : KillStep, pg : 0..MaxAttempts]  \* pgid as the handler read it

TypeOK ==
    /\ db \in [Tasks -> Row]
    /\ result \in [Tasks -> Status]
    /\ server \in [phase : {"down", "recovering", "up"}, life : 0..MaxCrashes]
    /\ disp \in Dispatching
    /\ recov \in Recovering
    /\ kills \in [Tasks -> [Killers -> Kill]]
    /\ shims \in [Tasks -> [Attempts -> Shim]]
    /\ faults \in [shim : 0..MaxShimCrashes, cycle : 0..MaxFaults]

\* Main starts from an empty database, so the first recovery pass is over.
Init ==
    /\ db = [t \in Tasks |-> NoRow]
    /\ result = [t \in Tasks |-> "absent"]
    /\ server = [phase |-> "up", life |-> 0]
    /\ disp = Idle
    /\ recov = NoRecovery
    /\ kills = [t \in Tasks |-> [k \in Killers |-> NoKill]]
    /\ shims = [t \in Tasks |-> [a \in Attempts |-> NoShim]]
    /\ faults = [shim |-> 0, cycle |-> 0]

-----------------------------------------------------------------------------
(* Helpers *)

Up == server.phase = "up"

Update(t, row) == db' = [db EXCEPT ![t] = row]

Reserved == {t \in Tasks : HasActiveReservation(db[t])}

\* The rows of S in the order of created_at_ms, cut after the first n.
Oldest(S, n) ==
    {t \in S : Cardinality({u \in S : db[u].born < db[t].born}) < n}

\* t is the next of the tasks of S in the order of created_at_ms.
IsNext(t, S) == t \in S /\ \A u \in S : db[t].born <= db[u].born

DispatchIs(t, step) == disp.pc = "work" /\ disp.todo[t] = step

DispatchGoes(t, step) == disp' = [disp EXCEPT !.todo[t] = step]

RecoverIs(t, step) == server.phase = "recovering" /\ recov.todo[t] = step

RecoverGoes(t, step) == recov' = [recov EXCEPT !.todo[t] = step]

ShimIs(t, a, step) == shims[t][a].pc = step

ShimGoes(t, a, step) == shims' = [shims EXCEPT ![t][a].pc = step]

KillIs(t, k, step) == Up /\ kills[t][k].pc = step

KillGoes(t, k, step) == kills' = [kills EXCEPT ![t][k].pc = step]

-----------------------------------------------------------------------------
(* Submission: the transaction that makes a task visible to the others *)

Submit(t) ==
    /\ Up
    /\ db[t].status = "absent"
    /\ Update(t, InsertTask(1 + Cardinality({u \in Tasks : db[u].status # "absent"})))
    /\ UNCHANGED <<result, server, disp, recov, kills, shims, faults>>

-----------------------------------------------------------------------------
(* Dispatcher: dispatch_once_sync, called over and over by dispatcher_loop *)

\* list_active_reservations, summed into current_reserved.
DispatchCount ==
    /\ Up
    /\ disp.pc = "idle"
    /\ disp' = [disp EXCEPT !.pc = "counted", !.reserved = Cardinality(Reserved)]
    /\ UNCHANGED <<db, result, server, recov, kills, shims, faults>>

\* What the loop body will do with a listed row, from the row as listed: it
\* looks at kill_requested first and at the reservation next.
TodoOf(row) == IF row.kill THEN "cancel"
               ELSE IF HasActiveReservation(row) THEN "skip"
               ELSE "start"

\* list_accepted(max_queued_tasks): a snapshot the loop then walks through.
DispatchList ==
    /\ Up
    /\ disp.pc = "counted"
    /\ LET listed == Oldest({t \in Tasks : db[t].status = "accepted"}, QueueLimit)
       IN  disp' = [disp EXCEPT !.pc = "work",
                                !.todo = [t \in Tasks |-> IF t \in listed
                                                            THEN TodoOf(db[t])
                                                            ELSE "skip"]]
    /\ UNCHANGED <<db, result, server, recov, kills, shims, faults>>

\* The loop takes up t: no task is half done and t is the oldest one left.
TakesUp(t) ==
    /\ Up
    /\ disp.pc = "work"
    /\ \A u \in Tasks : disp.todo[u] \notin DispatchBusy
    /\ IsNext(t, {u \in Tasks : disp.todo[u] \in {"cancel", "start"}})

DispatchCancel(t) ==
    /\ TakesUp(t)
    /\ disp.todo[t] = "cancel"
    /\ Update(t, CancelAccepted(db[t]))
    /\ DispatchGoes(t, "persist")
    /\ UNCHANGED <<result, server, recov, kills, shims, faults>>

\* Mutated form: off by one.
CanReserveOneMore == disp.reserved <= Slots

\* can_reserve: one slot per task.
CanReserve == disp.reserved + 1 <= Slots

\* No capacity left: the task is passed over until a later cycle.
DispatchPass(t) ==
    /\ TakesUp(t)
    /\ disp.todo[t] = "start"
    /\ ~CanReserve
    /\ DispatchGoes(t, "skip")
    /\ UNCHANGED <<db, result, server, recov, kills, shims, faults>>

\* Mutated form: add_reservation is forgotten.
DispatchReserveUncounted(t) ==
    /\ TakesUp(t)
    /\ disp.todo[t] = "start"
    /\ CanReserve
    /\ Update(t, ReserveResources(db[t]))
    /\ DispatchGoes(t, "spawn")
    /\ UNCHANGED <<result, server, recov, kills, shims, faults>>

\* Mutated form: the reservation is only made in memory.
DispatchReserveInMemory(t) ==
    /\ TakesUp(t)
    /\ disp.todo[t] = "start"
    /\ CanReserve
    /\ disp' = [disp EXCEPT !.todo[t] = "spawn", !.reserved = @ + 1]
    /\ UNCHANGED <<db, result, server, recov, kills, shims, faults>>

DispatchReserve(t) ==
    /\ TakesUp(t)
    /\ disp.todo[t] = "start"
    /\ CanReserve
    /\ Update(t, ReserveResources(db[t]))
    /\ disp' = [disp EXCEPT !.todo[t] = "spawn", !.reserved = @ + 1]
    /\ UNCHANGED <<result, server, recov, kills, shims, faults>>

\* a is the launch attempt to be made for t: they are numbered in order.
IsFresh(t, a) == /\ shims[t][a].pc = "unborn"
                 /\ \A b \in Attempts : b < a => shims[t][b].pc # "unborn"

\* child.spawn() succeeds.
DispatchSpawn(t) ==
    /\ Up
    /\ DispatchIs(t, "spawn")
    /\ \E a \in Attempts :
         /\ IsFresh(t, a)
         /\ shims' = [shims EXCEPT ![t][a] = [NoShim EXCEPT !.pc = "init",
                                                            !.life = server.life]]
         /\ disp' = [disp EXCEPT !.todo[t] = "mark", !.pid = a]
    /\ UNCHANGED <<db, result, server, recov, kills, faults>>

DispatchMark(t) ==
    /\ Up
    /\ DispatchIs(t, "mark")
    /\ Update(t, MarkDispatched(db[t], disp.pid))
    /\ disp' = [disp EXCEPT !.todo[t] = "skip", !.pid = 0]
    /\ UNCHANGED <<result, server, recov, kills, shims, faults>>

\* child.spawn() fails.
DispatchSpawnFails(t) ==
    /\ Up
    /\ DispatchIs(t, "spawn")
    /\ DispatchGoes(t, "fail")
    /\ UNCHANGED <<db, result, server, recov, kills, shims, faults>>

DispatchFail(t) ==
    /\ Up
    /\ DispatchIs(t, "fail")
    /\ Update(t, CompleteTask(db[t], "failed"))
    /\ disp' = [disp EXCEPT !.todo[t] = "persist", !.reserved = @ - 1]
    /\ UNCHANGED <<result, server, recov, kills, shims, faults>>

\* persist_latest_result reads the row in one step and writes the file in another.
DispatchPersist(t) ==
    /\ Up
    /\ DispatchIs(t, "persist")
    /\ disp' = [disp EXCEPT !.todo[t] = "write", !.out = db[t].status]
    /\ UNCHANGED <<db, result, server, recov, kills, shims, faults>>

DispatchWrite(t) ==
    /\ Up
    /\ DispatchIs(t, "write")
    /\ result' = [result EXCEPT ![t] = disp.out]
    /\ disp' = [disp EXCEPT !.todo[t] = "skip", !.out = "absent"]
    /\ UNCHANGED <<db, server, recov, kills, shims, faults>>

\* An error (SQLite, current_exe, a file) leaves the function through `?` wherever
\* the cycle is; dispatcher_loop logs it and goes on with a new cycle.
DispatchAbort ==
    /\ Up
    /\ disp.pc # "idle"
    /\ faults.cycle < MaxFaults
    /\ faults' = [faults EXCEPT !.cycle = @ + 1]
    /\ disp' = Idle
    /\ UNCHANGED <<db, result, server, recov, kills, shims>>

DispatchEnd ==
    /\ Up
    /\ disp.pc = "work"
    /\ \A t \in Tasks : disp.todo[t] = "skip"
    /\ disp' = Idle
    /\ UNCHANGED <<db, result, server, recov, kills, shims, faults>>

DispatchStep(t) ==
    \/ DispatchCancel(t)
    \/ DispatchPass(t)
    \/ DispatchReserve(t)
    \/ DispatchSpawn(t)
    \/ DispatchMark(t)
    \/ DispatchSpawnFails(t)
    \/ DispatchFail(t)
    \/ DispatchPersist(t)
    \/ DispatchWrite(t)

Dispatcher == DispatchCount \/ DispatchList \/ DispatchEnd \/ \E t \in Tasks : DispatchStep(t)

-----------------------------------------------------------------------------
(* Kill: kill_task, and the escalation it leaves behind *)

\* get_task: a terminal task is answered at once.
KillGet(t, k) ==
    /\ KillIs(t, k, "idle")
    /\ db[t].status # "absent"
    /\ KillGoes(t, k, IF IsTerminal(db[t]) THEN "done" ELSE "flag")
    /\ UNCHANGED <<db, result, server, disp, recov, shims, faults>>

KillFlag(t, k) ==
    /\ KillIs(t, k, "flag")
    /\ Update(t, SetCancelRequested(db[t]))
    /\ KillGoes(t, k, "read")
    /\ UNCHANGED <<result, server, disp, recov, shims, faults>>

\* set_cancel_requested ends with get_task, after its transaction.
KillRead(t, k) ==
    /\ KillIs(t, k, "read")
    /\ kills' = [kills EXCEPT ![t][k] =
                   IF db[t].status = "accepted"
                     THEN [pc |-> "cancel", pg |-> 0]
                     ELSE [pc |-> "signal", pg |-> db[t].pg]]
    /\ UNCHANGED <<db, result, server, disp, recov, shims, faults>>

KillCancel(t, k) ==
    /\ KillIs(t, k, "cancel")
    /\ Update(t, CancelAccepted(db[t]))
    /\ KillGoes(t, k, "done")
    /\ UNCHANGED <<result, server, disp, recov, shims, faults>>

\* killpg fails: the workload is over and was waited for.
GroupGone(t, pg) == /\ shims[t][pg].work # "alive"
                    /\ shims[t][pg].pc \notin {"launched", "supervise"}

\* signal_task_termination(SIGTERM): without a pgid it does nothing; when the
\* group is gone it fails, and the handler returns before spawn_escalation.  What
\* the workload makes of SIGTERM is WorkloadExits.
KillSignal(t, k) ==
    /\ KillIs(t, k, "signal")
    /\ LET pg == kills[t][k].pg
       IN  KillGoes(t, k, IF pg # 0 /\ GroupGone(t, pg) THEN "done" ELSE "escalate")
    /\ UNCHANGED <<db, result, server, disp, recov, shims, faults>>

\* spawn_escalation, after the grace period: SIGKILL when the row is running.
\* Reading the row and killing are one step: between them only the workload's own
\* end would matter, and killing a group that is gone is ignored.
KillEscalate(t, k) ==
    /\ KillIs(t, k, "escalate")
    /\ LET pg == IF kills[t][k].pg # 0 THEN kills[t][k].pg ELSE db[t].pg
       IN  IF db[t].status = "running" /\ pg # 0 /\ shims[t][pg].work = "alive"
             THEN shims' = [shims EXCEPT ![t][pg].work = "exitbad"]
             ELSE UNCHANGED shims
    /\ kills' = [kills EXCEPT ![t][k] = [pc |-> "done", pg |-> 0]]
    /\ UNCHANGED <<db, result, server, disp, recov, faults>>

\* The client goes away while the handler awaits get_task or set_cancel_requested:
\* axum drops the handler, the transaction under way is made all the same.
KillDropped(t, k) ==
    /\ Up
    /\ kills[t][k].pc \in {"flag", "cancel", "signal"}
    /\ kills' = [kills EXCEPT ![t][k] = [pc |-> "done", pg |-> 0]]
    /\ UNCHANGED <<db, result, server, disp, recov, shims, faults>>

KillHandler(t, k) ==
    \/ KillFlag(t, k)
    \/ KillRead(t, k)
    \/ KillCancel(t, k)
    \/ KillSignal(t, k)
    \/ KillEscalate(t, k)

-----------------------------------------------------------------------------
(* Shim: run_internal_shim, in a process of its own *)

\* get_task: nothing to do for a terminal task, an early end for a killed one.
ShimGet(t, a) ==
    /\ ShimIs(t, a, "init")
    /\ shims' = [shims EXCEPT ![t][a] =
          IF IsTerminal(db[t]) THEN [@ EXCEPT !.pc = "gone"]
          ELSE IF db[t].kill /\ db[t].pg = 0
                 THEN [@ EXCEPT !.pc = "complete", !.out = "cancelled"]
          ELSE [@ EXCEPT !.pc = "launch"]]
    /\ UNCHANGED <<db, result, server, disp, recov, kills, faults>>

ShimLaunch(t, a) ==
    /\ ShimIs(t, a, "launch")
    /\ shims' = [shims EXCEPT ![t][a] = [@ EXCEPT !.pc = "launched", !.work = "alive"]]
    /\ UNCHANGED <<db, result, server, disp, recov, kills, faults>>

\* spawn_task_process fails before the workload exists (files, command, fork) or,
\* in setup_cgroup, after: then the workload stays, and nobody supervises it.
ShimLaunchFails(t, a) ==
    /\ ShimIs(t, a, "launch")
    /\ \E w \in {"none", "alive"} :
         shims' = [shims EXCEPT ![t][a] =
                     [@ EXCEPT !.pc = "complete", !.work = w, !.out = "failed"]]
    /\ UNCHANGED <<db, result, server, disp, recov, kills, faults>>

ShimStarted(t, a) ==
    /\ ShimIs(t, a, "launched")
    /\ Update(t, MarkStarted(db[t], a))
    /\ ShimGoes(t, a, "supervise")
    /\ UNCHANGED <<result, server, disp, recov, kills, faults>>

\* A tick of supervise_wait finds wall_time_ms elapsed.
ShimTimesOut(t, a) ==
    /\ ShimIs(t, a, "supervise")
    /\ ~shims[t][a].timeout
    /\ shims' = [shims EXCEPT ![t][a].timeout = TRUE]
    /\ UNCHANGED <<db, result, server, disp, recov, kills, faults>>

\* Mutated form: only the timeout escalates.
ShimKillsOnTimeout(t, a) ==
    /\ ShimIs(t, a, "supervise")
    /\ shims[t][a].timeout
    /\ shims[t][a].work = "alive"
    /\ shims' = [shims EXCEPT ![t][a].work = "exitbad"]
    /\ UNCHANGED <<db, result, server, disp, recov, kills, faults>>

\* The SIGKILL a tick sends, a grace period after it saw the flag of the row or
\* after the timeout.  kill_requested is never reset, so the flag seen is the flag
\* of the row.
ShimKills(t, a) ==
    /\ ShimIs(t, a, "supervise")
    /\ db[t].kill \/ shims[t][a].timeout
    /\ shims[t][a].work = "alive"
    /\ shims' = [shims EXCEPT ![t][a].work = "exitbad"]
    /\ UNCHANGED <<db, result, server, disp, recov, kills, faults>>

\* Mutated form: a workload that did not exit with 0 is taken for a cancelled one.
ClassifyBlind(work, timeout, cancelled) ==
    IF timeout THEN "failed" ELSE IF work = "exit0" THEN "success" ELSE "cancelled"

\* classify_completion: the order of its tests.
Classify(work, timeout, cancelled) ==
    IF timeout THEN "failed"
    ELSE IF cancelled THEN "cancelled"
    ELSE IF work = "exit0" THEN "success"
    ELSE "failed"

\* wait4 returned: the flag of the row is read once more.
ShimReaps(t, a) ==
    /\ ShimIs(t, a, "supervise")
    /\ shims[t][a].work \in {"exit0", "exitbad"}
    /\ LET s == shims[t][a]
       IN  shims' = [shims EXCEPT ![t][a] =
              [s EXCEPT !.pc      = "complete",
                        !.timeout = FALSE,
                        !.out     = Classify(s.work, s.timeout, db[t].kill)]]
    /\ UNCHANGED <<db, result, server, disp, recov, kills, faults>>

ShimCompletes(t, a) ==
    /\ ShimIs(t, a, "complete")
    /\ Update(t, CompleteTask(db[t], shims[t][a].out))
    /\ shims' = [shims EXCEPT ![t][a] = [@ EXCEPT !.pc = "persist", !.out = "absent"]]
    /\ UNCHANGED <<result, server, disp, recov, kills, faults>>

ShimPersists(t, a) ==
    /\ ShimIs(t, a, "persist")
    /\ shims' = [shims EXCEPT ![t][a] = [@ EXCEPT !.pc = "write", !.out = db[t].status]]
    /\ UNCHANGED <<db, result, server, disp, recov, kills, faults>>

ShimWrites(t, a) ==
    /\ ShimIs(t, a, "write")
    /\ result' = [result EXCEPT ![t] = shims[t][a].out]
    /\ shims' = [shims EXCEPT ![t][a] = [@ EXCEPT !.pc = "gone", !.out = "absent"]]
    /\ UNCHANGED <<db, server, disp, recov, kills, faults>>

\* A shim is killed, crashes, or leaves run_internal_shim with an error (SQLite:
\* complete_task reads before it writes, so a commit of another process in between
\* fails it at once).  Its workload has a process group of its own and goes on.
ShimCrash(t, a) ==
    /\ ProcessExists(t, a)
    /\ faults.shim < MaxShimCrashes
    /\ faults' = [faults EXCEPT !.shim = @ + 1]
    /\ shims' = [shims EXCEPT ![t][a] =
                   [@ EXCEPT !.pc = "dead", !.timeout = FALSE, !.out = "absent"]]
    /\ UNCHANGED <<db, result, server, disp, recov, kills>>

\* The workload ends, by itself or on a SIGTERM.
WorkloadExits(t, a) ==
    /\ shims[t][a].work = "alive"
    /\ \E w \in {"exit0", "exitbad"} : shims' = [shims EXCEPT ![t][a].work = w]
    /\ UNCHANGED <<db, result, server, disp, recov, kills, faults>>

ShimProcess(t, a) ==
    \/ ShimGet(t, a)
    \/ ShimLaunch(t, a)
    \/ ShimLaunchFails(t, a)
    \/ ShimStarted(t, a)
    \/ ShimReaps(t, a)
    \/ ShimCompletes(t, a)
    \/ ShimPersists(t, a)
    \/ ShimWrites(t, a)

-----------------------------------------------------------------------------
(* Crash of the server, restart, and recover *)

\* The dispatcher, the kill handlers and their escalations die with the process;
\* the shims and the workloads do not.
Crash ==
    /\ server.phase # "down"
    /\ server.life < MaxCrashes
    /\ server' = [phase |-> "down", life |-> server.life + 1]
    /\ disp' = Idle
    /\ recov' = NoRecovery
    /\ kills' = [t \in Tasks |-> [k \in Killers |->
                   IF kills[t][k].pc = "idle" THEN NoKill
                                              ELSE [pc |-> "done", pg |-> 0]]]
    /\ UNCHANGED <<db, result, shims, faults>>

\* What recover will do with a row of list_non_terminal, from the row as listed.
RecoverOf(row) ==
    CASE row.status = "accepted" /\ HasActiveReservation(row) -> "release"
      [] row.status = "running" /\ row.shim = 0               -> "lose"
      [] row.status = "running" /\ row.shim # 0               ->
           IF HasActiveReservation(row) THEN "probe" ELSE "reprobe"
      [] OTHER                                                -> "skip"

\* The server starts again: run_server calls recover before it listens and before
\* it starts the loops.
Restart ==
    /\ server.phase = "down"
    /\ server' = [server EXCEPT !.phase = "recovering"]
    /\ recov' = [recov EXCEPT !.todo = [t \in Tasks |-> RecoverOf(db[t])]]
    /\ UNCHANGED <<db, result, disp, kills, shims, faults>>

\* recover takes up t, in the order of created_at_ms.
Recovers(t) ==
    /\ server.phase = "recovering"
    /\ \A u \in Tasks : recov.todo[u] \notin {"reserve", "persist", "write"}
    /\ IsNext(t, {u \in Tasks : recov.todo[u] # "skip"})

RecoverRelease(t) ==
    /\ Recovers(t)
    /\ recov.todo[t] = "release"
    /\ Update(t, ReleaseResources(db[t]))
    /\ RecoverGoes(t, "skip")
    /\ UNCHANGED <<result, server, disp, kills, shims, faults>>

\* process_exists(shim_pid).  A live shim with a reservation only gets the
\* recovered event of mark_recovered.
RecoverProbe(t) ==
    /\ Recovers(t)
    /\ recov.todo[t] \in {"probe", "reprobe"}
    /\ RecoverGoes(t, IF ~ProcessExists(t, db[t].shim) THEN "lose"
                      ELSE IF recov.todo[t] = "probe" THEN "skip"
                      ELSE "reserve")
    /\ UNCHANGED <<db, result, server, disp, kills, shims, faults>>

\* The reservation is rebuilt, whatever became of the row since it was listed.
RecoverReserve(t) ==
    /\ RecoverIs(t, "reserve")
    /\ Update(t, ReserveResources(db[t]))
    /\ RecoverGoes(t, "skip")
    /\ UNCHANGED <<result, server, disp, kills, shims, faults>>

RecoverLose(t) ==
    /\ Recovers(t)
    /\ recov.todo[t] = "lose"
    /\ Update(t, MarkRecoveryLost(db[t]))
    /\ RecoverGoes(t, "persist")
    /\ UNCHANGED <<result, server, disp, kills, shims, faults>>

RecoverPersist(t) ==
    /\ RecoverIs(t, "persist")
    /\ recov' = [recov EXCEPT !.todo[t] = "write", !.out = db[t].status]
    /\ UNCHANGED <<db, result, server, disp, kills, shims, faults>>

RecoverWrite(t) ==
    /\ RecoverIs(t, "write")
    /\ result' = [result EXCEPT ![t] = recov.out]
    /\ recov' = [recov EXCEPT !.todo[t] = "skip", !.out = "absent"]
    /\ UNCHANGED <<db, server, disp, kills, shims, faults>>

\* The server listens and its loops run.
RecoverEnd ==
    /\ server.phase = "recovering"
    /\ \A t \in Tasks : recov.todo[t] = "skip"
    /\ server' = [server EXCEPT !.phase = "up"]
    /\ UNCHANGED <<db, result, disp, recov, kills, shims, faults>>

RecoverStep(t) ==
    \/ RecoverRelease(t)
    \/ RecoverProbe(t)
    \/ RecoverReserve(t)
    \/ RecoverLose(t)
    \/ RecoverPersist(t)
    \/ RecoverWrite(t)

Recovery == Restart \/ RecoverEnd \/ \E t \in Tasks : RecoverStep(t)

-----------------------------------------------------------------------------
(* The system *)

Next ==
    \/ \E t \in Tasks : Submit(t)
    \/ Dispatcher
    \/ DispatchAbort
    \/ \E t \in Tasks, k \in Killers :
         KillGet(t, k) \/ KillHandler(t, k) \/ KillDropped(t, k)
    \/ \E t \in Tasks, a \in Attempts :
         \/ ShimProcess(t, a)
         \/ ShimTimesOut(t, a)
         \/ ShimKills(t, a)
         \/ ShimCrash(t, a)
         \/ WorkloadExits(t, a)
    \/ Crash
    \/ Recovery

Spec == Init /\ [][Next]_vars

\* The loops run for ever, a handler once called runs to its end, a shim runs to
\* its end and its ticks come; a server that went down is started again.  Requests
\* (Submit, KillGet), failures and the workload's own end are not promised.
Fairness ==
    /\ WF_vars(Dispatcher)
    /\ WF_vars(Recovery)
    /\ \A t \in Tasks, k \in Killers : WF_vars(KillHandler(t, k))
    /\ \A t \in Tasks, a \in Attempts :
         WF_vars(ShimProcess(t, a)) /\ WF_vars(ShimKills(t, a))

\* wall_time_ms is finite.
TimerFairness == \A t \in Tasks, a \in Attempts : WF_vars(ShimTimesOut(t, a))

\* FairSpec without the timer: what must happen long before wall_time_ms is over.
UntimedSpec == Spec /\ Fairness

FairSpec == Spec /\ Fairness /\ TimerFairness
-----------------------------------------------------------------------------
(* Properties that hold of every behaviour *)

\* One incarnation of the server never starts two shims for a task: the
\* reservation made before the spawn keeps an accepted row out of later cycles,
\* also when mark_dispatched did not happen (runtime.rs, dispatch_once_sync).
OneShimPerLife ==
    \A t \in Tasks : \A a, b \in Attempts :
        (a # b /\ shims[t][a].pc # "unborn" /\ shims[t][b].pc # "unborn")
            => shims[t][a].life # shims[t][b].life

\* A row that says running has a shim that will still end it, or had one that
\* crashed: whatever the order of mark_dispatched, mark_started, complete_task,
\* kills and restarts, no row is left running by actors that did their job.
RunningIsSupervised ==
    \A t \in Tasks : db[t].status = "running" =>
        \E a \in Attempts : shims[t][a].pc \in Unended \cup {"dead"}

\* A task ends as cancelled only if somebody asked for it, and as success only if
\* a workload of it exited with code 0.
VerdictIsEarned ==
    \A t \in Tasks :
        /\ db[t].status = "cancelled" => db[t].kill
        /\ db[t].status = "success" => \E a \in Attempts : shims[t][a].work = "exit0"

\* A killed task ends and stays ended, whether the request found it accepted,
\* running or in between, and whether or not the server crashed before it acted
\* on the request: the flag is in the row, and the dispatcher, the shim about to
\* launch and the shim that supervises all look at it.  The wall time limit is not
\* needed for it.
KillStops ==
    \A t \in Tasks : db[t].kill ~> [](IsTerminal(db[t]))

-----------------------------------------------------------------------------
(* Properties that hold while nothing is killed and no server crashes *)

\* The rows and reservations implement the abstract pool of slots.  A terminal row
\* that still has an active reservation counts as holding its slot.
StageOf(row) ==
    CASE HasActiveReservation(row)                        -> "holding"
      [] row.status \in {"accepted", "running"} /\ ~HasActiveReservation(row)
                                                          -> "waiting"
      [] OTHER                                            -> row.status

Pool == INSTANCE SlotPool WITH stage <- [t \in Tasks |-> StageOf(db[t])]

\* Every step of the runtime is a step of the pool or none: no slot is taken twice,
\* kept after the end or taken beyond the capacity, and a verdict is final.
ImplementsSlotPool == Pool!Spec

\* An accepted task ends for good, and result.json then says what the row says.
EveryTaskEnds ==
    \A t \in Tasks : db[t].status = "accepted" ~>
        [](IsTerminal(db[t]) /\ result[t] = db[t].status)

\* Shims supervise at most max_running_tasks workloads at once.  A workload that runs
\* although its task gave the slot back is one that a failed setup_cgroup left behind,
\* outside the limit: its task says failed.
WorkloadsWithinSlots ==
    /\ Cardinality({ta \in Tasks \X Attempts :
                       shims[ta[1]][ta[2]].pc \in {"launched", "supervise"}}) <= Slots
    /\ \A t \in Tasks, a \in Attempts :
         (shims[t][a].work = "alive" /\ ~HasActiveReservation(db[t]))
             => db[t].status = "failed"

-----------------------------------------------------------------------------
(* Properties that hold while nothing is killed *)

\* There are never more reservations than max_running_tasks, although the count the
\* dispatcher works with is older than its list and both are older than its
\* reservations: until the server crashes a second time.  After that recover may
\* rebuild a reservation where the dispatcher has given the slot to another task.
SlotsRespected == server.life <= 1 => Cardinality(Reserved) <= Slots

\* The resource_reserved and resource_released events of a task tell whether it
\* holds a reservation now.
EventsBalance ==
    \A t \in Tasks : db[t].held = (IF HasActiveReservation(db[t]) THEN 1 ELSE 0)

-----------------------------------------------------------------------------
(* What the documentation says and the code does not do *)

\* docs/architecture.md:80 calls success, failed and cancelled final states: a
\* cancelled task is not running again later.
TerminalIsFinal ==
    [][\A t \in Tasks : IsTerminal(db[t]) => db'[t].status # "running"]_vars

\* docs/architecture.md:99: the write of the final state releases the active
\* reservation.  Once the shims and the dispatcher are done with a terminal task,
\* nothing else would release it.
TerminalHoldsNoReservation ==
    \A t \in Tasks : IsTerminal(db[t]) => ~HasActiveReservation(db[t])

\* docs/architecture.md:173: at recovery a running task whose shim exists keeps its
\* reservation; it is failed only if the shim does not exist.
LiveShimNotLost ==
    [][\A t \in Tasks :
          RecoverLose(t) => ~ \E a \in Attempts : ProcessExists(t, a)]_vars
=============================================================================
