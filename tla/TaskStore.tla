------------------------------ MODULE TaskStore ------------------------------
(***************************************************************************)
(* The rows of table `tasks` and the transactions of repo.rs.              *)
(*                                                                         *)
(* The repository is one SQLite file.  The server and every shim open it   *)
(* with a connection of their own, and each method of Repository runs one  *)
(* transaction, so a method is an atomic function from a row to a row.     *)
(* What this module takes care to keep is the WHERE clause of each UPDATE: *)
(* some transactions test the status of the row and most do not, which is  *)
(* what decides the races between the dispatcher, the kill handler, the    *)
(* recovery pass and the shims.                                            *)
(*                                                                         *)
(* A row keeps the columns the control flow reads: status, kill_requested, *)
(* the state of the reservation (reservation_json and released_at_ms),     *)
(* shim_pid and pgid.  A process id is the number of the launch attempt    *)
(* that created the process (0 is NULL).  Of the events a transaction      *)
(* inserts, those that say a reservation was made or released are counted. *)
(*                                                                         *)
(* A definition introduced by "Mutated form" is not part of the model: it  *)
(* is the definition that follows it with a plausible bug, and serves to   *)
(* test that a property would notice the bug.                              *)
(***************************************************************************)
EXTENDS Integers

CONSTANT MaxAttempts    \* bound on the shims ever started for one task

ASSUME MaxAttemptsAssumption == MaxAttempts \in Nat \ {0}

Attempts == 1..MaxAttempts

Terminal == {"success", "failed", "cancelled"}

\* "absent" stands for a task_id that has no row.
Status == {"absent", "accepted", "running"} \cup Terminal

\* "none": reservation_json IS NULL; "active": set and released_at_ms IS NULL;
\* "released": set and released_at_ms set.
Reservation == {"none", "active", "released"}

Row == [status   : Status,
        born     : Nat,              \* rank in the order of created_at_ms
        kill     : BOOLEAN,          \* kill_requested
        res      : Reservation,
        shim     : 0..MaxAttempts,   \* shim_pid
        pg       : 0..MaxAttempts,   \* pgid (and pid) of the workload
        held     : Int]              \* resource_reserved less resource_released events

NoRow == [status |-> "absent", born |-> 0, kill |-> FALSE, res |-> "none",
          shim |-> 0, pg |-> 0, held |-> 0]

IsTerminal(row) == row.status \in Terminal

HasActiveReservation(row) == row.res = "active"

-----------------------------------------------------------------------------
(* Transactions *)

\* insert_task: a fresh accepted row, the n-th of the table.
InsertTask(n) == [NoRow EXCEPT !.status = "accepted", !.born = n]

\* Mutated form: the WHERE clause forgets the status.
MarkDispatchedAnyStatus(row, a) == [row EXCEPT !.status = "running", !.shim = a]

\* mark_dispatched: guarded by status = 'accepted', and no event.
MarkDispatched(row, a) ==
    IF row.status = "accepted"
      THEN [row EXCEPT !.status = "running", !.shim = a]
      ELSE row

\* mark_started: NOT guarded by the status.
MarkStarted(row, a) ==
    [row EXCEPT !.status = "running", !.pg = a]

\* reserve_resources: NOT guarded by the status.
ReserveResources(row) ==
    [row EXCEPT !.res = "active", !.held = @ + 1]

\* release_resources: only when a reservation is active.
ReleaseResources(row) ==
    IF HasActiveReservation(row)
      THEN [row EXCEPT !.res = "released", !.held = @ - 1]
      ELSE row

\* set_cancel_requested: NOT guarded by the status.
SetCancelRequested(row) == [row EXCEPT !.kill = TRUE]

\* The resource_released event is inserted when the row read at the start of
\* the transaction had an active reservation, whatever the UPDATE matched.
ReleaseEvent(row) == IF HasActiveReservation(row) THEN 1 ELSE 0

\* The CASE expression of both terminal updates.
ResAfterEnd(row) == IF HasActiveReservation(row) THEN "released" ELSE row.res

\* cancel_accepted_task: the UPDATE is guarded by status = 'accepted', the two
\* events (resource_released and cancelled) are not.
CancelAccepted(row) ==
    LET updated == IF row.status = "accepted"
                     THEN [row EXCEPT !.status = "cancelled",
                                      !.res    = ResAfterEnd(row)]
                     ELSE row
    IN  [updated EXCEPT !.held = @ - ReleaseEvent(row)]

\* Mutated form: released_at_ms is not set.
CompleteTaskKeepsReservation(row, verdict) ==
    [row EXCEPT !.status = verdict, !.held = @ - ReleaseEvent(row)]

\* Mutated form: the resource_released event is not inserted.
CompleteTaskSilent(row, verdict) ==
    [row EXCEPT !.status = verdict, !.res = ResAfterEnd(row)]

\* complete_task: NOT guarded by the status.
CompleteTask(row, verdict) ==
    [row EXCEPT !.status = verdict,
                !.res    = ResAfterEnd(row),
                !.held   = @ - ReleaseEvent(row)]

\* mark_recovery_lost: a task failed with the message "recovery_lost".
MarkRecoveryLost(row) == CompleteTask(row, "failed")
=============================================================================
