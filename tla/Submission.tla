------------------------------ MODULE Submission ------------------------------
(***************************************************************************)
(* What is around the life of a task: concurrent submit_task handlers that *)
(* check the queue, write the task's files and insert its row, each step   *)
(* on its own, and gc_loop, which removes the directory of an old task and *)
(* then its row.  Clients choose task ids, so handlers may want the same   *)
(* one, also the id of a task that is being collected.                     *)
(*                                                                         *)
(* Validation, the plan and the ledger refuse a request before any of this *)
(* (see ExecutionPolicy and Admission).  What happens to an accepted task  *)
(* is TaskRuntime's matter: here it ends.  result_retention is longer than *)
(* a shim takes from complete_task to the write of result.json.            *)
(***************************************************************************)
EXTENDS Naturals, FiniteSets

CONSTANTS
    Tasks,          \* task ids clients choose
    Handlers,       \* submit_task calls that may be under way at once
    MaxQueued,      \* --max-queued-tasks
    RetentionFits,  \* chrono::Duration can represent --result-retention-secs
    MaxSubmits,     \* bound on the calls of submit_task
    MaxCrashes,     \* bound on the crashes of the server
    MaxFaults       \* bound on the failures of gc_loop to remove or to delete

ASSUME LimitsAssumption == /\ MaxQueued \in Nat \ {0}
                           /\ Tasks # {} /\ IsFiniteSet(Tasks) /\ IsFiniteSet(Handlers)
                           /\ RetentionFits \in BOOLEAN
ASSUME BoundsAssumption == {MaxSubmits, MaxCrashes, MaxFaults} \subseteq Nat

VARIABLES
    rows,        \* [Tasks -> ...]: table tasks, and how often the id was inserted
    files,       \* [Tasks -> SUBSET File]: tasks/<task_id>/
    handlers,    \* [Handlers -> ...]: the submit_task calls under way
    gc,          \* gc_loop: what is left of its list, and a removed directory
    count        \* submits, crashes and faults so far

vars == <<rows, files, handlers, gc, count>>

\* "old": terminal, and finished_at is result_retention ago.
Status == {"none", "accepted", "ended", "old"}

File == {"request", "logs"}     \* request.json; stdout.log and stderr.log

NoHandler == [pc |-> "idle", id |-> CHOOSE t \in Tasks : TRUE]

NoGC == [todo |-> {}, removed |-> {}]

TypeOK ==
    /\ rows \in [Tasks -> [status : Status, n : Nat]]
    /\ files \in [Tasks -> SUBSET File]
    /\ handlers \in [Handlers -> [pc : {"idle", "files", "logs", "insert"}, id : Tasks]]
    /\ gc \in [todo : SUBSET Tasks, removed : SUBSET Tasks]
    /\ gc.removed \subseteq gc.todo
    /\ count \in [submits : 0..MaxSubmits, crashes : 0..MaxCrashes, faults : 0..MaxFaults]

Init ==
    /\ rows = [t \in Tasks |-> [status |-> "none", n |-> 0]]
    /\ files = [t \in Tasks |-> {}]
    /\ handlers = [h \in Handlers |-> NoHandler]
    /\ gc = NoGC
    /\ count = [submits |-> 0, crashes |-> 0, faults |-> 0]

Accepted == {t \in Tasks : rows[t].status = "accepted"}

-----------------------------------------------------------------------------
(* submit_task *)

HandlerIs(h, step) == handlers[h].pc = step

HandlerGoes(h, step) == handlers' = [handlers EXCEPT ![h].pc = step]

\* Mutated form: off by one.
HasRoomForOneMore == Cardinality(Accepted) <= MaxQueued

\* count_accepted() < max_queued_tasks.
HasRoom == Cardinality(Accepted) < MaxQueued

\* count_accepted: a full queue is answered at once and leaves no trace.
SubmitCount(h, t) ==
    /\ HandlerIs(h, "idle")
    /\ count.submits < MaxSubmits
    /\ HasRoom
    /\ count' = [count EXCEPT !.submits = @ + 1]
    /\ handlers' = [handlers EXCEPT ![h] = [pc |-> "files", id |-> t]]
    /\ UNCHANGED <<rows, files, gc>>

\* Mutated form: the log files are left to the shim.
SubmitFilesWithoutLogs(h) ==
    /\ HandlerIs(h, "files")
    /\ files' = [files EXCEPT ![handlers[h].id] = @ \cup {"request"}]
    /\ HandlerGoes(h, "insert")
    /\ UNCHANGED <<rows, gc, count>>

\* create_dir_all and write_json_file, whether or not the id is taken.
SubmitFiles(h) ==
    /\ HandlerIs(h, "files")
    /\ files' = [files EXCEPT ![handlers[h].id] = @ \cup {"request"}]
    /\ HandlerGoes(h, "logs")
    /\ UNCHANGED <<rows, gc, count>>

\* touch_file, twice; it creates the directory again if need be.
SubmitLogs(h) ==
    /\ HandlerIs(h, "logs")
    /\ files' = [files EXCEPT ![handlers[h].id] = @ \cup {"logs"}]
    /\ HandlerGoes(h, "insert")
    /\ UNCHANGED <<rows, gc, count>>

\* insert_task; task_id is the primary key, and a conflict leaves the files.
SubmitInsert(h) ==
    LET t == handlers[h].id
    IN  /\ HandlerIs(h, "insert")
        /\ rows' = IF rows[t].status = "none"
                     THEN [rows EXCEPT ![t] = [status |-> "accepted", n |-> @.n + 1]]
                     ELSE rows
        /\ handlers' = [handlers EXCEPT ![h] = NoHandler]
        /\ UNCHANGED <<files, gc, count>>

\* An error of the file system, or the client goes away during count_accepted.
SubmitFails(h) ==
    /\ ~HandlerIs(h, "idle")
    /\ handlers' = [handlers EXCEPT ![h] = NoHandler]
    /\ UNCHANGED <<rows, files, gc, count>>

Submitter(h) == SubmitFiles(h) \/ SubmitLogs(h) \/ SubmitInsert(h) \/ SubmitFails(h)

-----------------------------------------------------------------------------
(* The end of a task, and time *)

End(t) ==
    /\ rows[t].status = "accepted"
    /\ rows' = [rows EXCEPT ![t].status = "ended"]
    /\ UNCHANGED <<files, handlers, gc, count>>

\* Only a retention that can be represented passes.  One that can, and is longer than
\* chrono can take away from now, is gc_loop's panic in spawn_blocking: nothing is old.
Age(t) ==
    /\ RetentionFits
    /\ rows[t].status = "ended"
    /\ rows' = [rows EXCEPT ![t].status = "old"]
    /\ UNCHANGED <<files, handlers, gc, count>>

-----------------------------------------------------------------------------
(* gc_loop *)

\* The rows that finished before the cutoff, which is now when the retention cannot be
\* represented.
Expired == {t \in Tasks : \/ rows[t].status = "old"
                          \/ ~RetentionFits /\ rows[t].status = "ended"}

\* Mutated form: the age of a terminal row is not looked at.
GCListEnded ==
    /\ gc.todo = {}
    /\ gc' = [NoGC EXCEPT !.todo = {t \in Tasks : rows[t].status \in {"ended", "old"}}]
    /\ UNCHANGED <<rows, files, handlers, count>>

\* The cutoff, and list_gc_candidates.
GCList ==
    /\ gc.todo = {}
    /\ gc' = [NoGC EXCEPT !.todo = Expired]
    /\ UNCHANGED <<rows, files, handlers, count>>

\* Mutated form: a directory that is not there is an error.
GCRemoveExisting(t) ==
    /\ t \in gc.todo /\ gc.removed = {}
    /\ files[t] # {}
    /\ files' = [files EXCEPT ![t] = {}]
    /\ gc' = [gc EXCEPT !.removed = {t}]
    /\ UNCHANGED <<rows, handlers, count>>

\* remove_dir_all; a directory that is not there is as good.
GCRemove(t) ==
    /\ t \in gc.todo /\ gc.removed = {}
    /\ files' = [files EXCEPT ![t] = {}]
    /\ gc' = [gc EXCEPT !.removed = {t}]
    /\ UNCHANGED <<rows, handlers, count>>

\* Mutated form: the row is deleted although its directory could not be.
GCRemoveFailsDeletes(t) ==
    /\ t \in gc.todo /\ gc.removed = {}
    /\ count.faults < MaxFaults
    /\ count' = [count EXCEPT !.faults = @ + 1]
    /\ gc' = [gc EXCEPT !.todo = @ \ {t}]
    /\ rows' = [rows EXCEPT ![t].status = "none"]
    /\ \E left \in SUBSET files[t] : files' = [files EXCEPT ![t] = left]
    /\ UNCHANGED handlers

\* Part of the directory may be gone; the row stays for a later iteration.
GCRemoveFails(t) ==
    /\ t \in gc.todo /\ gc.removed = {}
    /\ count.faults < MaxFaults
    /\ count' = [count EXCEPT !.faults = @ + 1]
    /\ gc' = [gc EXCEPT !.todo = @ \ {t}]
    /\ \E left \in SUBSET files[t] : files' = [files EXCEPT ![t] = left]
    /\ UNCHANGED <<rows, handlers>>

\* Mutated form: the removed directory is not forgotten.
GCDeleteKeepsRemoved(t) ==
    /\ t \in gc.removed
    /\ rows' = [rows EXCEPT ![t].status = "none"]
    /\ gc' = [gc EXCEPT !.todo = @ \ {t}]
    /\ UNCHANGED <<files, handlers, count>>

\* delete_task: by id, whatever the row says now.
GCDelete(t) ==
    /\ t \in gc.removed
    /\ rows' = [rows EXCEPT ![t].status = "none"]
    /\ gc' = [gc EXCEPT !.todo = @ \ {t}, !.removed = {}]
    /\ UNCHANGED <<files, handlers, count>>

\* The row stays, without its directory, for a later iteration.
GCDeleteFails(t) ==
    /\ t \in gc.removed
    /\ count.faults < MaxFaults
    /\ count' = [count EXCEPT !.faults = @ + 1]
    /\ gc' = [gc EXCEPT !.todo = @ \ {t}, !.removed = {}]
    /\ UNCHANGED <<rows, files, handlers>>

GC == \/ GCList
      \/ \E t \in Tasks : \/ GCRemove(t) \/ GCRemoveFails(t)
                          \/ GCDelete(t) \/ GCDeleteFails(t)

-----------------------------------------------------------------------------
(* The system *)

\* The server dies and is started again: its handlers and its gc_loop begin anew.
Crash ==
    /\ count.crashes < MaxCrashes
    /\ count' = [count EXCEPT !.crashes = @ + 1]
    /\ handlers' = [h \in Handlers |-> NoHandler]
    /\ gc' = NoGC
    /\ UNCHANGED <<rows, files>>

Next ==
    \/ \E h \in Handlers : Submitter(h) \/ \E t \in Tasks : SubmitCount(h, t)
    \/ \E t \in Tasks : End(t) \/ Age(t)
    \/ GC
    \/ Crash

Spec == Init /\ [][Next]_vars

\* gc_loop never stops.
FairSpec == Spec /\ WF_vars(GC)

-----------------------------------------------------------------------------
(* Properties *)

\* submit_task checks the queue long before it inserts, so max_queued_tasks can be
\* exceeded: by at most the handlers that were under way, less one.
QueueBounded == Cardinality(Accepted) <= MaxQueued + Cardinality(Handlers) - 1

\* The dispatcher may take a row as soon as it is inserted: by then the files are
\* there, and a handler that loses the race for the id does not take them away.  They
\* stay until the row is collected, which may be as soon as it ended when the retention
\* cannot be represented.  Of a reused id this is not said: its handler may have written
\* the files before gc_loop removed the directory of the task that had the id.
RowHasFiles ==
    \A t \in Tasks :
        ( /\ rows[t].status = "accepted" \/ (RetentionFits /\ rows[t].status = "ended")
          /\ rows[t].n = 1 )
            => files[t] = File

\* gc_loop works through a list while tasks come and end, and deletes by id: still
\* it never takes the row or a file of a task that has not ended, nor of one that did
\* not end a retention ago.  The latter only if chrono can represent the retention:
\* otherwise the cutoff is now, and every task that ended is taken, however young.
GCSparesTheYoung ==
    [][\A t \in Tasks :
          ( \/ rows'[t].status = "none" /\ rows[t].status # "none"
            \/ ~(files[t] \subseteq files'[t]) )
              => /\ rows[t].status \in {"ended", "old"}
                 /\ RetentionFits => rows[t].status = "old"]_vars

\* The row of a task that ended long ago is deleted, also when the server died
\* after it removed the directory, or could not remove it or delete the row at first.
OldIsCollected ==
    \A t \in Tasks : rows[t].status = "old" ~> rows[t].status = "none"
=============================================================================
