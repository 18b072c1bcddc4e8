----------------------------- MODULE ResourceView -----------------------------
(***************************************************************************)
(* GET /api/v1/runtime/resources beside the dispatcher: runtime_resources  *)
(* lists the active reservations in one transaction, adds them up for the  *)
(* runtime and for every tenant, and counts the waiting tasks in another.  *)
(*                                                                         *)
(* The handler writes nothing.  What it shows is compared with what the    *)
(* dispatcher does with the same rows.                                     *)
(***************************************************************************)
EXTENDS Admission

VARIABLE view    \* the handler: its step, and the tasks of active_reservations

viewVars == <<vars, view>>

NoView == [pc |-> "idle", active |-> {}]

ViewTypeOK == /\ TypeOK
              /\ view \in [pc : {"idle", "listed"}, active : SUBSET Tasks]

ViewInit == Init /\ view = NoView

-----------------------------------------------------------------------------
(* What the response says *)

\* Mutated form: the subtraction wraps around.
AvailableWraps(limit, reserved) ==
    LET rest(d) == {(max - OrZero(reserved[d])) % (MaxU64 + 1) : max \in limit[d]}
    IN  [task_slots   |-> (limit.task_slots - reserved.task_slots) % (MaxU64 + 1),
         memory_bytes |-> rest("memory_bytes"),
         pids         |-> rest("pids")]

\* available_capacity and tenant_available_capacity.
AvailableCapacity(limit, reserved) ==
    LET rest(d) == {SaturatingSub(max, OrZero(reserved[d])) : max \in limit[d]}
    IN  [task_slots   |-> SaturatingSub(limit.task_slots, reserved.task_slots),
         memory_bytes |-> rest("memory_bytes"),
         pids         |-> rest("pids")]

\* Unlike the dispatcher's, these sums start with None in every dimension.
TenantReserved(tn) == AddedUp(Nothing, Res, ActiveOf(tn))

Available == AvailableCapacity(config.capacity, ReservedCapacity(config.capacity, Active, Res))

\* None for a tenant without a quota.
TenantAvailable(tn) == {AvailableCapacity(q, TenantReserved(tn)) : q \in config.quotas[tn]}

\* Mutated form: every accepted row is counted.
AcceptedRows == {t \in Tasks : rows[t].stage \in {"waiting", "reserved"}}

\* The rows count_accepted_waiting counts.
Waiting == {t \in Tasks : rows[t].stage = "waiting"}

-----------------------------------------------------------------------------
(* The handler *)

\* list_active_reservations; the sums are made of this list.
ViewList ==
    /\ view.pc = "idle"
    /\ view' = [pc |-> "listed", active |-> Active]
    /\ UNCHANGED vars

\* count_accepted_waiting, and the answer.
ViewCount ==
    /\ view.pc = "listed"
    /\ view' = NoView
    /\ UNCHANGED vars

\* The handler goes on whatever the others do, until the server stops.
ViewNext ==
    \/ ViewList
    \/ ViewCount
    \/ Next /\ view' = IF restarts' = restarts THEN view ELSE NoView

ViewSpec == ViewInit /\ [][ViewNext]_viewVars /\ Fairness
-----------------------------------------------------------------------------
(* Properties *)

\* The answer is made of two reads, and tasks are reserved and end between them: no
\* task is shown as active and counted as waiting as well.
NeverShownTwice == view.pc = "listed" => view.active \cap Waiting = {}

\* request fits into what the view says is available.
FitsInto(available, request) ==
    /\ request.task_slots <= available.task_slots
    /\ \A d \in Optional : \A x \in request[d], rest \in available[d] : x <= rest

\* When the list is taken, what the view says is available is what a cycle of the
\* dispatcher that starts then would give, to the runtime and to each tenant, also when
\* tasks from before a restart hold more than there is: the one subtracts and stops at
\* zero, the other adds and stops at u64::MAX, and they start from different sums.  (A
\* request for zero bytes is an exception: it fits into nothing left, but not into less.)
AvailableIsRight ==
    (view.pc = "listed" /\ view.active = Active) => \A rq \in Requests :
      (\A d \in Optional : 0 \notin rq.res[d]) =>
        /\ FitsInto(Available, rq.res) <=>
             Fits(config.capacity, ReservedCapacity(config.capacity, Active, Res), rq.res)
        /\ \A q \in config.quotas[rq.tenant] : \A rest \in TenantAvailable(rq.tenant) :
             FitsInto(rest, rq.res) <=> Fits(q, TenantSum(rq.tenant), rq.res)
=============================================================================
