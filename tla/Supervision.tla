----------------------------- MODULE Supervision -----------------------------
(***************************************************************************)
(* One launch of a workload under the clock: the shim that forks it, puts  *)
(* it into its cgroup, polls the row, sends the signals, waits for the     *)
(* leader and classifies its end; a kill handler of the server with the    *)
(* escalation it leaves behind; the leader and the processes it forks; and *)
(* the cgroup, which is named after the task id and which nothing removes, *)
(* so that a later task with the same id finds it again.                   *)
(*                                                                         *)
(* TaskRuntime has the races for the row and no clock; here the row has    *)
(* already been marked dispatched.  The clock counts units of no given     *)
(* length, so that no limit is a multiple of the poll interval.  What is   *)
(* due in the shim is done within Lag units: a wake-up, a write to the     *)
(* database, a wait4 that returned.  Nothing is assumed of the server: its *)
(* escalation is never early, and as late as it likes, or never when the   *)
(* server has crashed.  The crash of a shim is TaskRuntime's.              *)
(*                                                                         *)
(* A process stays in the process group and the cgroup it was born in.     *)
(* What a process makes of SIGTERM is Exits.  When an id is used again     *)
(* the escalations for the task that had it are over (result_retention is  *)
(* longer than the grace period), and processes left over are forgotten.   *)
(***************************************************************************)
EXTENDS Integers, FiniteSets

CONSTANTS
    Procs, Leader,   \* processes of the workload, and the one the shim forks
    PidsMax,         \* limits.pids_max
    WallTime,        \* limits.wall_time_ms
    Grace,           \* --termination-grace-ms
    Period,          \* the interval of the polls, 250 ms
    Lag,             \* the longest delay of what is due in the shim
    Horizon,         \* bound on the clock
    Launched,        \* bound on the clock before supervise_wait
    MaxLaunches      \* bound on the tasks that use the id, one after the other

ASSUME ProcsAssumption == Leader \in Procs /\ IsFiniteSet(Procs)
\* ResourceLimits::validate refuses a wall time of zero.
ASSUME TimesAssumption ==
    {Grace, Lag, Horizon, Launched} \subseteq Nat /\ {WallTime, Period} \subseteq Nat \ {0}
ASSUME BoundsAssumption == {PidsMax, MaxLaunches} \subseteq Nat \ {0}

VARIABLES
    clock,      \* since the launch
    row,        \* the row of the task
    shim,       \* the shim
    killer,     \* kill_task and its escalation
    procs,      \* [Procs -> ...]: the process group of the workload
    cgroup,     \* the directory of the task id under --cgroup-root
    seen,       \* history: when what happened, for the properties
    launches    \* tasks that used the id so far

vars == <<clock, row, shim, killer, procs, cgroup, seen, launches>>

-----------------------------------------------------------------------------
(* States *)

Never == -1                      \* None of an Option<Instant>
Time == {Never} \cup 0..Horizon

\* The verdicts of classify_completion and of a failed launch; "none" before.
Code == {"none", "launch_failed", "setup_failed", "timeout", "cancelled",
         "memory", "cpu", "success", "exit", "signal"}

\* How wait4 says the leader ended.
Exit == {"zero", "nonzero", "sigxcpu", "signal"}

\* supervise_wait in its select!, and in the arm of a tick.
Supervising == {"watch", "act"}

\* spawn_task_process, up to mark_started.
Launching == {"fork", "limits", "join", "start"}

ShimStep == Launching \cup Supervising \cup {"complete", "done"}

Row == [running : BOOLEAN, kill : BOOLEAN, pg : BOOLEAN, code : Code]

Shim == [pc       : ShimStep,
         enforced : BOOLEAN,      \* resource_enforcement.cgroup_enforced
         start    : Time,
         timeout  : Time,         \* timeout_started
         cancel   : Time,         \* cancel_started
         killSent : BOOLEAN,      \* kill_sent
         flag     : BOOLEAN,      \* cancel_requested, as the tick read it
         expired  : BOOLEAN,      \* the tick found the wall time over
         next     : Int,          \* when the poll interval is due
         code     : Code]

Killer == [pc : {"idle", "signal", "sleep", "done"},
           pg : BOOLEAN, due : Int]

Proc == [state : {"none", "alive", "gone"}, inside : BOOLEAN]

NewRow == [running |-> TRUE, kill |-> FALSE, pg |-> FALSE, code |-> "none"]

NewShim(enforced) ==
    [pc |-> "fork", enforced |-> enforced, start |-> Never, timeout |-> Never,
     cancel |-> Never, killSent |-> FALSE, flag |-> FALSE, expired |-> FALSE,
     next |-> 0, code |-> "none"]

NoKiller == [pc |-> "idle", pg |-> FALSE, due |-> 0]

NoProcs == [p \in Procs |-> [state |-> "none", inside |-> FALSE]]

\* asked: the first kill request; sigkill: the first SIGKILL the runtime sent; died
\* and exit: the end of the leader; early: a child was forked outside the cgroup;
\* oom: the kernel killed a process of this launch for its memory.
NothingSeen == [asked |-> Never, sigkill |-> Never, died |-> Never, exit |-> "zero",
                early |-> FALSE, oom |-> FALSE]

\* An Instant that was taken is not in the future.
InstantsPast == {shim.start, shim.timeout, shim.cancel} \subseteq {Never} \cup 0..clock

TypeOK ==
    /\ clock \in 0..Horizon
    /\ row \in Row
    /\ shim \in Shim
    /\ InstantsPast
    /\ killer \in Killer
    /\ procs \in [Procs -> Proc]
    /\ cgroup \in [limits : BOOLEAN, oom : BOOLEAN]
    /\ seen \in [asked : Time, sigkill : Time, died : Time, exit : Exit,
                 early : BOOLEAN, oom : BOOLEAN]
    /\ launches \in 1..MaxLaunches

Init ==
    /\ clock = 0
    /\ row = NewRow
    /\ \E enforced \in BOOLEAN : shim = NewShim(enforced)
    /\ killer = NoKiller
    /\ procs = NoProcs
    /\ cgroup = [limits |-> FALSE, oom |-> FALSE]
    /\ seen = NothingSeen
    /\ launches = 1

-----------------------------------------------------------------------------
(* Helpers *)

Alive == {p \in Procs : procs[p].state = "alive"}

LeaderGone == procs[Leader].state = "gone"

\* Those counted by the cgroup.
Members == {p \in Alive : procs[p].inside}

ShimGoes(step) == shim' = [shim EXCEPT !.pc = step]

ShimFails(code) == shim' = [shim EXCEPT !.pc = "complete", !.code = code]

KillerDone == killer' = [NoKiller EXCEPT !.pc = "done"]

\* The processes of S end, the leader as wait4 will tell.
End(S, exit) ==
    /\ procs' = [p \in Procs |-> IF p \in S THEN [procs[p] EXCEPT !.state = "gone"]
                                            ELSE procs[p]]
    /\ seen' = IF Leader \in S THEN [seen EXCEPT !.died = clock, !.exit = exit] ELSE seen

\* killpg(SIGKILL) ends the whole group at once.
SigKill ==
    /\ procs' = [p \in Procs |-> IF p \in Alive THEN [procs[p] EXCEPT !.state = "gone"]
                                                ELSE procs[p]]
    /\ seen' = [seen EXCEPT
          !.sigkill = IF @ = Never THEN clock ELSE @,
          !.died    = IF Leader \in Alive THEN clock ELSE @,
          !.exit    = IF Leader \in Alive THEN "signal" ELSE @]

-----------------------------------------------------------------------------
(* spawn_task_process *)

\* The child is forked, makes a group of its own, and execs: it runs from here on.
Fork ==
    /\ shim.pc = "fork"
    /\ procs' = [procs EXCEPT ![Leader].state = "alive"]
    /\ ShimGoes(IF shim.enforced THEN "limits" ELSE "start")
    /\ UNCHANGED <<clock, row, killer, cgroup, seen, launches>>

ForkFails ==
    /\ shim.pc = "fork"
    /\ ShimFails("launch_failed")
    /\ UNCHANGED <<clock, row, killer, procs, cgroup, seen, launches>>

\* Mutated form: cgroup.procs is written before the limits.
SetupLimitsLast ==
    /\ shim.pc = "limits"
    /\ IF Leader \in Alive THEN procs' = [procs EXCEPT ![Leader].inside = TRUE]
                           ELSE UNCHANGED procs
    /\ ShimGoes("join")
    /\ UNCHANGED <<clock, row, killer, cgroup, seen, launches>>

\* setup_cgroup: the directory, which may be there already, memory.max, pids.max.
SetupLimits ==
    /\ shim.pc = "limits"
    /\ cgroup' = [cgroup EXCEPT !.limits = TRUE]
    /\ ShimGoes("join")
    /\ UNCHANGED <<clock, row, killer, procs, seen, launches>>

\* cgroup.procs moves the leader, and nothing it has forked meanwhile.
JoinCgroup ==
    /\ shim.pc = "join"
    /\ IF Leader \in Alive THEN procs' = [procs EXCEPT ![Leader].inside = TRUE]
                           ELSE UNCHANGED procs
    /\ ShimGoes("start")
    /\ UNCHANGED <<clock, row, killer, cgroup, seen, launches>>

\* The task is failed and its workload left running.
SetupFails ==
    /\ shim.pc \in {"limits", "join"}
    /\ ShimFails("setup_failed")
    /\ UNCHANGED <<clock, row, killer, procs, cgroup, seen, launches>>

\* mark_started, and the start of supervise_wait: the first poll is due at once.
MarkStarted ==
    /\ shim.pc = "start"
    /\ row' = [row EXCEPT !.pg = TRUE]
    /\ shim' = [shim EXCEPT !.pc = "watch", !.start = clock, !.next = clock]
    /\ UNCHANGED <<clock, killer, procs, cgroup, seen, launches>>

-----------------------------------------------------------------------------
(* supervise_wait *)

Elapsed(since, span) == since # Never /\ clock >= since + span

\* A tick of the interval, up to the test of the wall time: the row is read, and the
\* clock.  The interval makes up for a tick that came late: the next is not put off.
PollRead ==
    /\ shim.pc = "watch"
    /\ shim.next <= clock
    /\ shim' = [shim EXCEPT !.pc      = "act",
                            !.flag    = row.kill,
                            !.expired = shim.timeout = Never /\ Elapsed(shim.start, WallTime)]
    /\ UNCHANGED <<clock, row, killer, procs, cgroup, seen, launches>>

\* Mutated form: the end of the grace period is kept instead of its start.
TimeoutDeadline == IF shim.expired THEN clock + Grace ELSE shim.timeout

\* timeout_started: taken after mark_timeout_triggered, which may have lasted.
TimeoutStarted == IF shim.expired THEN clock ELSE shim.timeout

\* Mutated form: every tick that sees the flag starts the grace period anew.
CancelRestarted == IF shim.flag THEN clock ELSE shim.cancel

\* cancel_started.
CancelStarted == IF shim.flag /\ shim.cancel = Never THEN clock ELSE shim.cancel

\* Mutated form: SIGKILL comes with SIGTERM.
EscalateAtOnce(timeout, cancel) == timeout # Never \/ cancel # Never

ShouldEscalate(timeout, cancel) == Elapsed(timeout, Grace) \/ Elapsed(cancel, Grace)

\* The rest of the tick.
PollAct ==
    /\ shim.pc = "act"
    /\ LET kills == ShouldEscalate(TimeoutStarted, CancelStarted) /\ ~shim.killSent
       IN  /\ shim' = [shim EXCEPT !.pc       = "watch",
                                   !.timeout  = TimeoutStarted,
                                   !.cancel   = CancelStarted,
                                   !.killSent = @ \/ kills,
                                   !.flag     = FALSE,
                                   !.expired  = FALSE,
                                   !.next     = @ + Period]
           /\ IF kills THEN SigKill ELSE UNCHANGED <<procs, seen>>
    /\ UNCHANGED <<clock, row, killer, cgroup, launches>>

\* oom_killed: the counter of the cgroup of the task, if it has one.
OomKilled == shim.enforced /\ cgroup.oom

\* Mutated form: a kill request goes before the timeout.
ClassifyCancelledFirst(timedOut, cancelled, exit) ==
    CASE cancelled           -> "cancelled"
      [] ~cancelled /\ timedOut -> "timeout"
      [] OTHER               -> IF exit = "zero" THEN "success" ELSE "exit"

\* classify_completion: the order of its tests.
Classify(timedOut, cancelled, exit) ==
    IF timedOut THEN "timeout"
    ELSE IF cancelled THEN "cancelled"
    ELSE IF OomKilled THEN "memory"
    ELSE CASE exit = "sigxcpu" -> "cpu"
           [] exit = "zero"    -> "success"
           [] exit = "nonzero" -> "exit"
           [] exit = "signal"  -> "signal"

\* wait4 has returned.  select! takes either when a tick is due at the same time, so
\* that a tick may go before and find the wall time over.  With the return of
\* supervise_wait its timers are gone; the start stays, for the properties.
Reap ==
    /\ shim.pc = "watch"
    /\ LeaderGone
    /\ shim' = [NewShim(shim.enforced) EXCEPT
          !.pc    = "complete",
          !.start = shim.start,
          !.code  = Classify(shim.timeout # Never, shim.cancel # Never \/ row.kill, seen.exit)]
    /\ UNCHANGED <<clock, row, killer, procs, cgroup, seen, launches>>

Complete ==
    /\ shim.pc = "complete"
    /\ row' = [row EXCEPT !.running = FALSE, !.code = shim.code]
    /\ ShimGoes("done")
    /\ UNCHANGED <<clock, killer, procs, cgroup, seen, launches>>

-----------------------------------------------------------------------------
(* kill_task of a running task *)

\* set_cancel_requested; get_task saw the running row some time before.
KillFlag ==
    /\ killer.pc = "idle"
    /\ row' = [row EXCEPT !.kill = TRUE]
    /\ seen' = [seen EXCEPT !.asked = clock]
    /\ killer' = [killer EXCEPT !.pc = "signal"]
    /\ UNCHANGED <<clock, shim, procs, cgroup, launches>>

\* killpg may fail when nobody is left: the leader was waited for.  The handler then
\* returns before spawn_escalation.  Without a pgid nothing is signalled.
KillSignal ==
    /\ killer.pc = "signal"
    /\ \/ killer' = [pc |-> "sleep", pg |-> row.pg, due |-> clock + Grace]
       \/ row.pg /\ Alive = {} /\ KillerDone
    /\ UNCHANGED <<clock, row, shim, procs, cgroup, seen, launches>>

\* spawn_escalation, at some time after its sleep: reads the row again, and the pgid if
\* it had none.
KillEscalate ==
    /\ killer.pc = "sleep"
    /\ killer.due <= clock
    /\ KillerDone
    /\ IF row.running /\ (killer.pg \/ row.pg) THEN SigKill ELSE UNCHANGED <<procs, seen>>
    /\ UNCHANGED <<clock, row, shim, cgroup, launches>>

-----------------------------------------------------------------------------
(* The workload, the kernel and time *)

\* p forks q, in its own group and cgroup; pids.max is looked at there.
ForkChild(p, q) ==
    /\ p \in Alive
    /\ procs[q].state = "none" /\ q # Leader
    /\ (procs[p].inside /\ cgroup.limits) => Cardinality(Members) < PidsMax
    /\ procs' = [procs EXCEPT ![q] = [state |-> "alive", inside |-> procs[p].inside]]
    /\ seen' = [seen EXCEPT !.early = @ \/ ~procs[p].inside]
    /\ UNCHANGED <<clock, row, shim, killer, cgroup, launches>>

\* By itself, on SIGTERM, or for its RLIMIT_CPU.
Exits(p) ==
    /\ p \in Alive
    /\ \E exit \in Exit : End({p}, exit)
    /\ UNCHANGED <<clock, row, shim, killer, cgroup, launches>>

\* The OOM killer of the kernel takes a member of the cgroup.
OomKill(p) ==
    /\ p \in Members
    /\ cgroup.limits
    /\ procs' = [procs EXCEPT ![p].state = "gone"]
    /\ cgroup' = [cgroup EXCEPT !.oom = TRUE]
    /\ seen' = IF p = Leader
                 THEN [seen EXCEPT !.oom = TRUE, !.died = clock, !.exit = "signal"]
                 ELSE [seen EXCEPT !.oom = TRUE]
    /\ UNCHANGED <<clock, row, shim, killer, launches>>

Later(a, b) == IF a > b THEN a ELSE b

\* From when on wait4 tells the shim that the leader is gone.
Waitable == Later(seen.died, shim.start)

\* What was due a whole Lag ago in the shim: a tick, which may be at work, or wait4.
Overdue ==
    /\ shim.pc \in Supervising
    /\ clock >= shim.next + Lag \/ (LeaderGone /\ clock >= Waitable + Lag)

\* Who still looks at the clock, and may do something then.
Counting ==
    \/ shim.pc \in Supervising
    \/ shim.pc = "complete" /\ killer.pc = "sleep"
    \/ shim.pc \in Launching /\ clock < Launched

Tick ==
    /\ clock < Horizon
    /\ Counting
    /\ ~Overdue
    /\ clock' = clock + 1
    /\ UNCHANGED <<row, shim, killer, procs, cgroup, seen, launches>>

\* The row was collected, and a client chooses the id again.
Reuse ==
    /\ ~row.running
    /\ shim.pc = "done"
    /\ killer.pc # "sleep"
    /\ launches < MaxLaunches
    /\ clock' = 0
    /\ row' = NewRow
    /\ \E enforced \in BOOLEAN : shim' = NewShim(enforced)
    /\ killer' = NoKiller
    /\ procs' = NoProcs
    /\ seen' = NothingSeen
    /\ launches' = launches + 1
    /\ UNCHANGED cgroup

Launch == Fork \/ ForkFails \/ SetupLimits \/ JoinCgroup \/ SetupFails \/ MarkStarted

Supervise == PollRead \/ PollAct \/ Reap \/ Complete

Kill == KillFlag \/ KillSignal \/ KillEscalate

Workload ==
    \E p \in Procs : Exits(p) \/ OomKill(p) \/ \E q \in Procs : ForkChild(p, q)

Next == Launch \/ Supervise \/ Kill \/ Workload \/ Tick \/ Reuse

Spec == Init /\ [][Next]_vars

-----------------------------------------------------------------------------
(* Properties *)

\* A supervised workload is over in time, whatever it makes of SIGTERM and however the
\* limits lie to the ticks: a grace period after its wall time or after the first kill
\* request, whichever comes first and although the second may come while the shim already
\* counts the grace period of the first, and two ticks with their lag later.  The first
\* of the two notices the timeout or the request, the second the end of the grace
\* period, which begins only when the first has written mark_timeout_triggered.
StoppedInTime ==
    (shim.pc \in Supervising /\ ~LeaderGone) =>
        /\ clock < shim.start + WallTime + Grace + 2 * (Period + Lag)
        /\ seen.asked # Never =>
              clock < Later(shim.start, seen.asked + Period) + Grace + Period + 2 * Lag

\* Neither the shim nor the server sends a SIGKILL before a whole grace period has
\* passed since somebody asked for the end or the wall time was over, although each
\* counts its own grace period and the server does not know when the workload began.
NoEarlySigkill ==
    seen.sigkill # Never =>
        \/ seen.asked # Never /\ seen.sigkill >= seen.asked + Grace
        \/ shim.start # Never /\ seen.sigkill >= shim.start + WallTime + Grace

\* What classify_completion makes of an end that nobody asked for.
OwnVerdict == [zero |-> "success", nonzero |-> "exit", sigxcpu |-> "cpu",
               signal |-> "signal"]

\* How far a verdict tells what ended the workload, although the shim goes by its ticks
\* and may take a tick between the end and wait4.  A timeout means that the wall time
\* was over when the leader ended, or within Lag of it; a leader that outlived its wall
\* time by a tick and its lag is a timeout; one that ended between the wall time and
\* that tick is either.  Cancelled was asked for before wait4 was looked at.  Any other
\* verdict means that nobody had asked for the end when it came, and is the one of wait4,
\* "memory" excepted, which goes by the cgroup (OomVerdictIsOwn).
VerdictTellsCause ==
    (shim.code # "none" /\ shim.start # Never) =>
        /\ shim.code = "timeout" => Waitable + Lag >= shim.start + WallTime
        /\ seen.died >= shim.start + WallTime + Period + Lag => shim.code = "timeout"
        /\ shim.code = "cancelled" => seen.asked # Never /\ seen.asked <= Waitable + Lag
        /\ shim.code \notin {"timeout", "cancelled"} =>
              /\ seen.asked # Never => seen.asked >= seen.died
              /\ shim.code \in {"memory", OwnVerdict[seen.exit]}

\* A workload that forks nothing before the shim has put it into its cgroup never
\* has more than pids_max processes: the limits are there before the leader is, and
\* what it forks is born inside.
PidsHeld ==
    (shim.pc \in Supervising /\ shim.enforced /\ ~seen.early) => Cardinality(Alive) <= PidsMax

\* docs/architecture.md:88: the final state follows from how the workload of this
\* task ended, an OOM included.
OomVerdictIsOwn == row.code = "memory" => seen.oom
=============================================================================
