------------------------------- MODULE Admission -------------------------------
(***************************************************************************)
(* Who gets resources: the checks of submit_task, the cycles of the        *)
(* dispatcher with the sums each cycle keeps for the runtime and for every *)
(* tenant, tasks that end while a cycle is under way, and restarts of the  *)
(* server with another capacity and other quotas.                          *)
(*                                                                         *)
(* TaskRuntime has one slot per task and every race of a task's life; here *)
(* the life is short (no kill, no lost shim) and the amounts are complete. *)
(* A restart never falls between a spawn and its mark_dispatched, which is *)
(* one of those races.                                                     *)
(***************************************************************************)
EXTENDS Ledger

CONSTANTS
    Tasks,         \* task ids
    Tenants,       \* tenants, those without a quota included
    Requests,      \* what is submitted: [res : Amount, tenant : Tenants]
    Configs,       \* [capacity : Amount, quotas : [Tenants -> {} or {Amount}]]
    QueueLimit,    \* --max-queued-tasks
    MaxRestarts    \* bound on the restarts of the server

ASSUME TasksAssumption == IsFiniteSet(Tasks) /\ Tenants # {}

ASSUME RequestsAssumption ==
    Requests \subseteq [res : {FromLimits(m, p) : m, p \in Option}, tenant : Tenants]

\* Below u64::MAX a saturated sum never fits.
Bounded(limit) == /\ limit \in Amount
                  /\ limit.task_slots < MaxU64
                  /\ \A d \in Optional : \A max \in limit[d] : max < MaxU64

ASSUME ConfigsAssumption ==
    \A c \in Configs : /\ Bounded(c.capacity)
                       /\ \A tn \in Tenants : c.quotas[tn] # {} =>
                             \E q \in c.quotas[tn] : c.quotas[tn] = {q} /\ Bounded(q)

ASSUME LimitsAssumption == QueueLimit \in Nat \ {0} /\ MaxRestarts \in Nat

VARIABLES
    config,     \* the member of Configs the server runs with
    rows,       \* [Tasks -> ...]: table tasks
    cycle,      \* the dispatcher: what is left of its list, and its sums
    restarts    \* restarts of the server so far

vars == <<config, rows, cycle, restarts>>

\* "reserved": accepted with an active reservation; "holding": running.
Stage == {"absent", "waiting", "reserved", "holding", "ended"}

Nothing == [task_slots |-> 0, memory_bytes |-> {}, pids |-> {}]

NoRow(tn) == [stage |-> "absent", res |-> Nothing, tenant |-> tn, born |-> 0]

NoCycle == [pc |-> "idle", todo |-> {}, reserved |-> Nothing,
            tenant |-> [tn \in Tenants |-> Nothing]]

Row == [stage : Stage, res : Amount, tenant : Tenants, born : 0..Cardinality(Tasks)]

Cycle == [pc : {"idle", "counted", "work"}, todo : SUBSET Tasks,
          reserved : Amount, tenant : [Tenants -> Amount]]

TypeOK ==
    /\ config \in Configs
    /\ rows \in [Tasks -> Row]
    /\ cycle \in Cycle
    /\ restarts \in 0..MaxRestarts

Init ==
    /\ config \in Configs
    /\ rows = [t \in Tasks |-> NoRow(CHOOSE tn \in Tenants : TRUE)]
    /\ cycle = NoCycle
    /\ restarts = 0

-----------------------------------------------------------------------------
(* Submission *)

Accepted == {t \in Tasks : rows[t].stage \in {"waiting", "reserved"}}

\* The two checks of the ledger.  A tenant without a quota is not limited.
Admits(res, tn) ==
    /\ EnsureWithin(config.capacity, res)
    /\ \A q \in config.quotas[tn] : EnsureWithin(q, res)

\* A request that is refused leaves no trace.
Submit(t, rq) ==
    /\ rows[t].stage = "absent"
    /\ Admits(rq.res, rq.tenant)
    /\ Cardinality(Accepted) < QueueLimit
    /\ rows' = [rows EXCEPT ![t] =
          [stage |-> "waiting", res |-> rq.res, tenant |-> rq.tenant,
           born |-> 1 + Cardinality({u \in Tasks : rows[u].stage # "absent"})]]
    /\ UNCHANGED <<config, cycle, restarts>>

-----------------------------------------------------------------------------
(* The dispatcher's cycle *)

Active == {t \in Tasks : rows[t].stage \in {"reserved", "holding"}}

ActiveOf(tn) == {t \in Active : rows[t].tenant = tn}

Res == [t \in Tasks |-> rows[t].res]

\* The tenant's sums start at Some(0) for what its quota limits.
ZeroOfTenant(tn) ==
    LET quota == config.quotas[tn]
    IN  IF quota = {} THEN Nothing ELSE ZeroOf(CHOOSE q \in quota : TRUE)

TenantSum(tn) == AddedUp(ZeroOfTenant(tn), Res, ActiveOf(tn))

\* list_active_reservations, added up once for the runtime and once per tenant.
DispatchCount ==
    /\ cycle.pc = "idle"
    /\ cycle' = [cycle EXCEPT
          !.pc       = "counted",
          !.reserved = ReservedCapacity(config.capacity, Active, Res),
          !.tenant   = [tn \in Tenants |-> TenantSum(tn)]]
    /\ UNCHANGED <<config, rows, restarts>>

Oldest(S, n) == {t \in S : Cardinality({u \in S : rows[u].born < rows[t].born}) < n}

\* list_accepted; no row is reserved when a cycle starts.
DispatchList ==
    /\ cycle.pc = "counted"
    /\ cycle' = [cycle EXCEPT !.pc = "work", !.todo = Oldest(Accepted, QueueLimit)]
    /\ UNCHANGED <<config, rows, restarts>>

\* Mutated form: the youngest row first.
TakesUpYoungest(t) ==
    /\ cycle.pc = "work"
    /\ t \in cycle.todo
    /\ \A u \in cycle.todo : rows[t].born >= rows[u].born
    /\ \A u \in Tasks : rows[u].stage # "reserved"

\* The loop takes up t, the oldest row of its list, when the row before is done.
TakesUp(t) ==
    /\ cycle.pc = "work"
    /\ t \in cycle.todo
    /\ \A u \in cycle.todo : rows[t].born <= rows[u].born
    /\ \A u \in Tasks : rows[u].stage # "reserved"

\* can_reserve and can_reserve_for_tenant.
CanReserve(t) ==
    /\ Fits(config.capacity, cycle.reserved, rows[t].res)
    /\ \A q \in config.quotas[rows[t].tenant] :
         Fits(q, cycle.tenant[rows[t].tenant], rows[t].res)

DispatchPass(t) ==
    /\ TakesUp(t)
    /\ ~CanReserve(t)
    /\ cycle' = [cycle EXCEPT !.todo = @ \ {t}]
    /\ UNCHANGED <<config, rows, restarts>>

\* Mutated form: the tenant's sum is not brought up to date.
DispatchReserveForRuntime(t) ==
    /\ TakesUp(t)
    /\ CanReserve(t)
    /\ rows' = [rows EXCEPT ![t].stage = "reserved"]
    /\ cycle' = [cycle EXCEPT !.todo     = @ \ {t},
                              !.reserved = AddReservation(@, rows[t].res)]
    /\ UNCHANGED <<config, restarts>>

DispatchReserve(t) ==
    /\ TakesUp(t)
    /\ CanReserve(t)
    /\ rows' = [rows EXCEPT ![t].stage = "reserved"]
    /\ cycle' = [cycle EXCEPT
          !.todo                   = @ \ {t},
          !.reserved               = AddReservation(@, rows[t].res),
          !.tenant[rows[t].tenant] = AddReservation(@, rows[t].res)]
    /\ UNCHANGED <<config, restarts>>

\* The shim is spawned and the row marked.
DispatchSpawn(t) ==
    /\ rows[t].stage = "reserved"
    /\ rows' = [rows EXCEPT ![t].stage = "holding"]
    /\ UNCHANGED <<config, cycle, restarts>>

\* The spawn fails: the task ends, and its amount is taken back from the sum of
\* the runtime.  The sum of the tenant keeps it for the rest of the cycle.
DispatchSpawnFails(t) ==
    /\ rows[t].stage = "reserved"
    /\ rows' = [rows EXCEPT ![t].stage = "ended"]
    /\ cycle' = [cycle EXCEPT !.reserved = SubtractReservation(@, rows[t].res)]
    /\ UNCHANGED <<config, restarts>>

DispatchEnd ==
    /\ cycle.pc = "work"
    /\ cycle.todo = {}
    /\ \A t \in Tasks : rows[t].stage # "reserved"
    /\ cycle' = NoCycle
    /\ UNCHANGED <<config, rows, restarts>>

Dispatcher ==
    \/ DispatchCount
    \/ DispatchList
    \/ DispatchEnd
    \/ \E t \in Tasks : \/ DispatchPass(t)
                        \/ DispatchReserve(t)
                        \/ DispatchSpawn(t)
                        \/ DispatchSpawnFails(t)

-----------------------------------------------------------------------------
(* The rest of the system *)

\* complete_task of the shim, at any time of a cycle.
Finish(t) ==
    /\ rows[t].stage = "holding"
    /\ rows' = [rows EXCEPT ![t].stage = "ended"]
    /\ UNCHANGED <<config, cycle, restarts>>

\* The server stops and starts again with the settings c.  recover releases what
\* was reserved and not spawned; shims that live keep what they hold, and nothing
\* is checked against the new capacity and quotas.
Restart(c) ==
    /\ restarts < MaxRestarts
    /\ restarts' = restarts + 1
    /\ config' = c
    /\ rows' = [t \in Tasks |-> IF rows[t].stage = "reserved"
                                  THEN [rows[t] EXCEPT !.stage = "waiting"]
                                  ELSE rows[t]]
    /\ cycle' = NoCycle

Next ==
    \/ \E t \in Tasks, rq \in Requests : Submit(t, rq)
    \/ Dispatcher
    \/ \E t \in Tasks : Finish(t)
    \/ \E c \in Configs : Restart(c)

Spec == Init /\ [][Next]_vars

\* dispatcher_loop never stops, and wall_time_ms ends one workload after the other.
Fairness == WF_vars(Dispatcher) /\ WF_vars(\E t \in Tasks : Finish(t))

FairSpec == Spec /\ Fairness

-----------------------------------------------------------------------------
(* Properties *)

\* What the tasks of S really hold of dimension d, without Option or saturation.
TrueSum(S, d) == SumFunctionOnSet([t \in Tasks |-> OrZero(rows[t].res[d])], S)

SlotSum(S) == SumFunctionOnSet([t \in Tasks |-> rows[t].res.task_slots], S)

\* limit is respected by the tasks of S as far as the request of t names it.
Respected(limit, S, t) ==
    /\ SlotSum(S) <= limit.task_slots
    /\ \A d \in Optional : \A max \in limit[d] :
         rows[t].res[d] # {} => TrueSum(S, d) <= max

\* A step that gives resources to a task leaves the capacity respected in every
\* dimension the task asks for, and the quota of its tenant too.  The sums the
\* dispatcher compares are from the start of its cycle and kept by hand from then
\* on, tasks end meanwhile, and tasks admitted under another capacity still run.
ReservationsFit ==
    [][\A t \in Tasks :
          (rows[t].stage # "reserved" /\ rows'[t].stage = "reserved") =>
              /\ Respected(config.capacity, Active \cup {t}, t)
              /\ \A q \in config.quotas[rows[t].tenant] :
                   Respected(q, ActiveOf(rows[t].tenant) \cup {t}, t)]_vars

\* t asks for nothing u does not ask for at least as much of.
AsksNoMore(t, u) ==
    \A d \in Optional : \A x \in rows[t].res[d] : \E y \in rows[u].res[d] : x <= y

\* A task that does not fit is passed over by younger ones, but never by one of the
\* same tenant that asks for as much or more: within a cycle the list is in order, a
\* task that ends frees nothing, and what a failed spawn gives back it had taken
\* after the older task was looked at or before.
NoOvertaking ==
    [][\A t, u \in Tasks :
          ( /\ rows[u].stage # "reserved" /\ rows'[u].stage = "reserved"
            /\ rows[t].stage = "waiting" /\ rows[t].born < rows[u].born
            /\ rows[t].tenant = rows[u].tenant ) => ~AsksNoMore(t, u)]_vars

\* While a cycle is under way no sum is below what is really held, as far as a u64
\* holds it: tasks only leave behind the dispatcher's back, and what a failed spawn
\* takes back from the sum (by a saturating subtraction) had been added to it without
\* reaching u64::MAX, wherever there is a capacity to compare with.
CountsCover ==
    cycle.pc # "idle" =>
        /\ cycle.reserved.task_slots >= SaturatingAdd(SlotSum(Active), 0)
        /\ \A d \in Optional : config.capacity[d] # {} =>
              OrZero(cycle.reserved[d]) >= SaturatingAdd(TrueSum(Active, d), 0)
        /\ \A tn \in Tenants :
              /\ cycle.tenant[tn].task_slots >= SaturatingAdd(SlotSum(ActiveOf(tn)), 0)
              /\ \A d \in Optional :
                    OrZero(cycle.tenant[tn][d]) >= SaturatingAdd(TrueSum(ActiveOf(tn), d), 0)

\* A waiting task whose request the present capacity and quota could hold gets its
\* turn: neither the reservations that crossed a restart nor the sum a failed spawn
\* leaves too high for its tenant keep it out for good.
FittingTaskIsServed ==
    \A t \in Tasks :
        rows[t].stage = "waiting" ~>
            (rows[t].stage = "ended" \/ ~Admits(rows[t].res, rows[t].tenant))
=============================================================================
