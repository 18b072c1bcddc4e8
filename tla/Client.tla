-------------------------------- MODULE Client --------------------------------
(***************************************************************************)
(* The commands run and wait beside what goes on in the server: one client *)
(* submits a task, or knows of one, and polls its status over HTTP until   *)
(* the task is terminal, while other clients submit, gc_loop collects and  *)
(* the server dies.                                                        *)
(*                                                                         *)
(* The row of a task that ended stays for result_retention (a week unless  *)
(* set otherwise), so a client that polls twice a second sees the end      *)
(* before the row is old: that is the one assumption about time.  With a   *)
(* retention that chrono cannot represent there is no such time, and       *)
(* OwnVerdict is only promised if RetentionFits.  A poll that the server   *)
(* answers with 500, for an error of its database or of the files, ends    *)
(* the command and is left out.                                            *)
(*                                                                         *)
(* Also kept here is which submissions left files and no row.              *)
(***************************************************************************)
EXTENDS Submission

CONSTANT Runner    \* the handler that serves the request of run

ASSUME RunnerAssumption == Runner \in Handlers

VARIABLES
    client,       \* the command: its step, its task, and how it ended
    abandoned     \* history: ids whose submission ended without a row, since the
                  \* directory was last removed

clientVars == <<vars, client, abandoned>>

\* "lost": the connection failed; "timeout": --timeout-ms is over.
Outcome == {"none", "verdict", "error", "lost", "timeout"}

NoClient == [pc |-> "idle", id |-> CHOOSE t \in Tasks : TRUE, n |-> 0,
             outcome |-> "none", shown |-> 0]

ClientTypeOK ==
    /\ TypeOK
    /\ client \in [pc      : {"idle", "sent", "poll", "done"},
                   id      : Tasks,
                   n       : Nat,         \* the insertion of id it is about
                   outcome : Outcome,
                   shown   : Nat]         \* the insertion whose verdict it got
    /\ abandoned \subseteq Tasks

ClientInit == Init /\ client = NoClient /\ abandoned = {}

-----------------------------------------------------------------------------
(* HTTP *)

\* AppError::status_code, for the errors met here.
StatusCode(reply) ==
    CASE reply = "ok"         -> 200
      [] reply = "not_found"  -> 404
      [] reply = "conflict"   -> 409
      [] reply = "queue_full" -> 429
      [] reply = "internal"   -> 500

IsSuccess(reply) == StatusCode(reply) \in 200..299

\* A reply that is not 2xx ends the command: print_json_response.
Ended(outcome) == client' = [client EXCEPT !.pc = "done", !.outcome = outcome]

-----------------------------------------------------------------------------
(* run: the submission *)

Free == client.pc \in {"idle", "done"}

RunSends(t) ==
    /\ Free
    /\ SubmitCount(Runner, t)
    /\ client' = [NoClient EXCEPT !.pc = "sent", !.id = t]

RunQueueFull(t) ==
    /\ Free
    /\ ~HasRoom
    /\ client' = [NoClient EXCEPT !.pc = "done", !.id = t, !.outcome = "error"]
    /\ UNCHANGED vars

RunWrites == (SubmitFiles(Runner) \/ SubmitLogs(Runner)) /\ UNCHANGED client

\* What insert_task makes of the id.
InsertReply == IF rows[client.id].status = "none" THEN "ok" ELSE "conflict"

\* Mutated form: the reply is not looked at.
RunInsertsUnchecked ==
    /\ SubmitInsert(Runner)
    /\ client' = [client EXCEPT !.pc = "poll",
                                !.n  = IF IsSuccess(InsertReply) THEN rows'[client.id].n ELSE 0]

RunInserts ==
    /\ SubmitInsert(Runner)
    /\ IF IsSuccess(InsertReply)
         THEN client' = [client EXCEPT !.pc = "poll", !.n = rows'[client.id].n]
         ELSE Ended("error")

\* 500.
RunFails == SubmitFails(Runner) /\ Ended("error")

Run == RunWrites \/ RunInserts \/ RunFails

-----------------------------------------------------------------------------
(* wait: the polling *)

\* wait is called for a task somebody submitted not long ago.
WaitStarts(t) ==
    /\ Free
    /\ rows[t].status \in {"accepted", "ended"}
    /\ client' = [NoClient EXCEPT !.pc = "poll", !.id = t, !.n = rows[t].n]
    /\ UNCHANGED vars

StatusReply == IF rows[client.id].status = "none" THEN "not_found" ELSE "ok"

\* One turn of the loop that ends it.
Poll ==
    /\ client.pc = "poll"
    /\ IF ~IsSuccess(StatusReply)
         THEN Ended("error")
         ELSE /\ rows[client.id].status \in {"ended", "old"}
              /\ client' = [client EXCEPT !.pc = "done", !.outcome = "verdict",
                                          !.shown = rows[client.id].n]
    /\ UNCHANGED vars

\* --timeout-ms is looked at after the status.
PollTimesOut ==
    /\ client.pc = "poll"
    /\ rows[client.id].status = "accepted"
    /\ Ended("timeout")
    /\ UNCHANGED vars

-----------------------------------------------------------------------------
(* The others *)

Watched == IF client.pc = "poll" THEN {client.id} ELSE {}

Others ==
    /\ \/ \E h \in Handlers \ {Runner} : Submitter(h) \/ \E t \in Tasks : SubmitCount(h, t)
       \/ \E t \in Tasks : End(t)
       \/ \E t \in Tasks \ Watched : Age(t)
       \/ GC
    /\ UNCHANGED client

\* Mutated form: a request under way waits for the next server.
AfterCrashPatient == {client}

\* A request under way fails; between two polls the client may notice or not.
AfterCrash ==
    LET lost == [client EXCEPT !.pc = "done", !.outcome = "lost"]
    IN  CASE client.pc = "sent" -> {lost}
          [] client.pc = "poll" -> {client, lost}
          [] OTHER              -> {client}

ServerDies == Crash /\ client' \in AfterCrash

\* The handlers that stop in this step.
Stopping == {h \in Handlers : handlers[h].pc # "idle" /\ handlers'[h].pc = "idle"}

Abandons ==
    LET left == {handlers[h].id : h \in Stopping}
    IN  abandoned' = (abandoned \ (gc'.removed \ gc.removed))
                       \cup {t \in left : rows'[t].n = rows[t].n}

ClientNext ==
    /\ \/ \E t \in Tasks : RunSends(t) \/ RunQueueFull(t) \/ WaitStarts(t)
       \/ Run
       \/ Poll
       \/ PollTimesOut
       \/ Others
       \/ ServerDies
    /\ Abandons

\* gc_loop never stops, a handler runs to its end, a client polls, a task ends.
ClientSpec ==
    /\ ClientInit /\ [][ClientNext]_clientVars
    /\ WF_vars(GC)
    /\ WF_clientVars(Run /\ Abandons)
    /\ WF_clientVars(Poll /\ Abandons)
    /\ \A t \in Tasks : WF_vars(End(t))

-----------------------------------------------------------------------------
(* Properties *)

\* run and wait tell how the very task they are about ended: whoever uses the id
\* before or after, and whatever gc_loop collects meanwhile, they never show the
\* verdict of another task nor answer that there is none.
OwnVerdict ==
    client.pc = "done" =>
        /\ client.outcome = "verdict" => client.shown = client.n
        /\ client.n # 0 => client.outcome \in {"verdict", "lost", "timeout"}

\* run and wait come back without --timeout-ms too, also when the server dies.
ClientEnds == client.pc \in {"sent", "poll"} ~> client.pc = "done"

\* A directory that no row leads to was left by a submission that failed, lost the
\* race for its id or died with the server: gc_loop, which removes a directory before
\* its row and may fail or die in between, leaves none.
OrphansAreAbandoned ==
    \A t \in Tasks :
        ( /\ files[t] # {} /\ rows[t].status = "none"
          /\ \A h \in Handlers : handlers[h].pc # "idle" => handlers[h].id # t )
            => t \in abandoned
=============================================================================
