--------------------- MODULE TaskRuntimeVerdicts_proofs ---------------------
(***************************************************************************)
(* A final state is earned: cancelled by a request, success by an exit     *)
(* with code 0, although whoever writes it decided on an older reading of  *)
(* the row, which others have written to since.                            *)
(***************************************************************************)
EXTENDS TaskRuntime_proofs

\* A handler that may still cancel set the flag before.
KillersFlagged ==
    \A t \in Tasks, k \in Killers : kills[t][k].pc \in {"read", "cancel"} => db[t].kill

\* The dispatcher cancels what was listed with the flag.
CancelsFlagged == \A t \in Tasks : disp.todo[t] = "cancel" => db[t].kill

\* The verdict of a shim about to write it has its cause.
Caused(t, a) ==
    shims[t][a].pc = "complete" =>
        /\ shims[t][a].out = "cancelled" => db[t].kill
        /\ shims[t][a].out = "success" => shims[t][a].work = "exit0"

\* A shim has no workload before it launches one.
Fresh(t, a) == shims[t][a].pc \in {"unborn", "init", "launch"} => shims[t][a].work = "none"

ShimsCaused == \A t \in Tasks, a \in Attempts : Caused(t, a) /\ Fresh(t, a)

\* A task without a row has no flag, and no handler on its way to set it.
AbsentClear ==
    \A t \in Tasks : db[t].status = "absent" =>
        ~db[t].kill /\ \A k \in Killers : kills[t][k].pc # "flag"

Exited0(t) == \E a \in Attempts : shims[t][a].work = "exit0"

VerdictInv == VerdictIsEarned /\ KillersFlagged /\ CancelsFlagged /\ ShimsCaused
              /\ AbsentClear

-----------------------------------------------------------------------------
(* Steps *)

\* The flag of a row is never reset, and a row ends as cancelled only if it was
\* flagged, as success only if a workload of it exited with 0.
RowEarns(t) ==
    /\ db[t].kill => db'[t].kill
    /\ db'[t].status = "absent" => db[t].status = "absent" /\ db'[t].kill = db[t].kill
    /\ db'[t].status = "cancelled" => db[t].status = "cancelled" \/ db[t].kill
    /\ db'[t].status = "success" => db[t].status = "success" \/ Exited0(t)

\* Only a handler that set the flag goes on to cancel, and it asks for a row first.
HandlerEarns(t, k) ==
    /\ kills'[t][k].pc \in {"read", "cancel"} =>
         kills[t][k].pc \in {"read", "cancel"} \/ db'[t].kill
    /\ kills'[t][k].pc = "flag" => kills[t][k].pc = "flag" \/ db[t].status # "absent"

\* A shim keeps a workload's exit with 0, and a new verdict has its cause.
ShimEarns(t, a) ==
    \/ shims'[t][a] = shims[t][a]
    \/ /\ shims[t][a].work = "exit0" => shims'[t][a].work = "exit0"
       /\ Caused(t, a)'
       /\ Fresh(t, a)'

LEMMA VerdictFrame ==
    ASSUME VerdictInv,
           \A t \in Tasks : RowEarns(t),
           \A t \in Tasks, a \in Attempts : ShimEarns(t, a),
           \A t \in Tasks, k \in Killers : HandlerEarns(t, k),
           \A t \in Tasks : disp'.todo[t] = "cancel" =>
             disp.todo[t] = "cancel" \/ db[t].kill
    PROVE  VerdictInv'
<1>1. \A t \in Tasks : Exited0(t) => Exited0(t)'
  BY DEF Exited0, ShimEarns
<1>2. VerdictIsEarned'
  <2>1. \A t \in Tasks : /\ db[t].status = "cancelled" => db[t].kill
                         /\ db[t].status = "success" => Exited0(t)
    BY DEF VerdictInv, VerdictIsEarned, Exited0
  <2>2. \A t \in Tasks : /\ db'[t].status = "cancelled" => db'[t].kill
                         /\ db'[t].status = "success" => Exited0(t)'
    BY <1>1, <2>1 DEF RowEarns
  <2> QED
    BY <2>2 DEF VerdictIsEarned, Exited0
<1>3. KillersFlagged'
  BY DEF VerdictInv, KillersFlagged, RowEarns, HandlerEarns
<1>4. CancelsFlagged'
  BY DEF VerdictInv, CancelsFlagged, RowEarns
<1>5. ShimsCaused'
  BY DEF VerdictInv, ShimsCaused, ShimEarns, Caused, Fresh, RowEarns
<1>6. AbsentClear'
  BY DEF VerdictInv, AbsentClear, RowEarns, HandlerEarns
<1> QED
  BY <1>2, <1>3, <1>4, <1>5, <1>6 DEF VerdictInv

\* What the transactions other than complete_task do to the flag and the status.
LEMMA TransactionFlag ==
    ASSUME NEW row \in Row
    PROVE  /\ \A a \in 0..MaxAttempts : /\ MarkDispatched(row, a).kill = row.kill
                                        /\ MarkStarted(row, a).kill = row.kill
           /\ ReserveResources(row).kill = row.kill
           /\ ReleaseResources(row).kill = row.kill
           /\ SetCancelRequested(row).kill = TRUE
           /\ CancelAccepted(row).kill = row.kill
           /\ \A verdict \in Status : CompleteTask(row, verdict).kill = row.kill
<1>1. ASSUME NEW a \in 0..MaxAttempts
      PROVE  MarkDispatched(row, a).kill = row.kill /\ MarkStarted(row, a).kill = row.kill
  BY DEF MarkDispatched, MarkStarted, Row
<1>2. /\ ReserveResources(row).kill = row.kill
      /\ ReleaseResources(row).kill = row.kill
      /\ SetCancelRequested(row).kill = TRUE
  BY DEF ReserveResources, ReleaseResources, SetCancelRequested, Row
<1>3. CancelAccepted(row).kill = row.kill
  BY DEF CancelAccepted, Row
<1>4. ASSUME NEW verdict \in Status PROVE CompleteTask(row, verdict).kill = row.kill
  BY DEF CompleteTask, Row
<1> QED
  BY <1>1, <1>2, <1>3, <1>4

\* Rows of which one changes, for a reason.
LEMMA UpdateEarns ==
    ASSUME TypeInv, NEW t \in Tasks, NEW row, Update(t, row),
           db[t].kill => row.kill,
           row.status = "absent" => db[t].status = "absent" /\ row.kill = db[t].kill,
           row.status = "cancelled" => db[t].status = "cancelled" \/ db[t].kill,
           row.status = "success" => db[t].status = "success" \/ Exited0(t)
    PROVE  \A u \in Tasks : RowEarns(u)
  BY DEF Update, RowEarns, TypeInv, TypeOK

LEMMA VerdictDispatch ==
    ASSUME TypeInv, VerdictInv, Dispatcher \/ DispatchAbort
    PROVE  VerdictInv'
<1>0. /\ db \in [Tasks -> Row] /\ disp \in Dispatching /\ disp.pid \in 0..MaxAttempts
      /\ shims \in [Tasks -> [Attempts -> Shim]]
  BY DEF TypeInv, TypeOK, Dispatching
<1>00. \A t \in Tasks : db[t] \in Row
  BY <1>0
<1>000. kills' = kills
  <2>1. ASSUME NEW t \in Tasks, DispatchStep(t) PROVE kills' = kills
    BY <2>1 DEF DispatchStep, DispatchCancel, DispatchPass, DispatchReserve,
                DispatchSpawn, DispatchMark, DispatchSpawnFails, DispatchFail,
                DispatchPersist, DispatchWrite
  <2> QED
    BY <2>1 DEF Dispatcher, DispatchAbort, DispatchCount, DispatchList, DispatchEnd
\* All but the spawn leave the shims alone.
<1>1. ASSUME UNCHANGED shims, \A t \in Tasks : RowEarns(t),
             \A t \in Tasks : disp'.todo[t] = "cancel" =>
               disp.todo[t] = "cancel" \/ db[t].kill
      PROVE  VerdictInv'
  BY <1>000, <1>1, VerdictFrame DEF ShimEarns, HandlerEarns
<1>2. UNCHANGED db => \A t \in Tasks : RowEarns(t)
  BY DEF RowEarns
<1>3. CASE DispatchCount \/ DispatchEnd \/ DispatchAbort
  <2>1. UNCHANGED <<db, shims>>
    BY <1>3 DEF DispatchCount, DispatchEnd, DispatchAbort
  <2>2. \A t \in Tasks : disp'.todo[t] = "skip" \/ disp'.todo[t] = disp.todo[t]
    <3>1. CASE DispatchCount
      BY <1>0, <3>1 DEF DispatchCount, Dispatching
    <3>2. CASE DispatchEnd \/ DispatchAbort
      BY <3>2 DEF DispatchEnd, DispatchAbort, Idle
    <3> QED
      BY <1>3, <3>1, <3>2
  <2> QED
    BY <1>1, <1>2, <2>1, <2>2
<1>4. CASE DispatchList
  <2>1. UNCHANGED <<db, shims>>
    BY <1>4 DEF DispatchList
  <2>2. \A t \in Tasks : disp'.todo[t] = "cancel" => db[t].kill
    BY <1>0, <1>4 DEF DispatchList, TodoOf, Dispatching
  <2> QED
    BY <1>1, <1>2, <2>1, <2>2
<1>5. ASSUME NEW t \in Tasks,
             \/ DispatchPass(t) \/ DispatchSpawnFails(t)
             \/ DispatchPersist(t) \/ DispatchWrite(t)
      PROVE  VerdictInv'
  <2>1. UNCHANGED <<db, shims>>
    BY <1>5 DEF DispatchPass, DispatchSpawnFails, DispatchPersist, DispatchWrite
  <2>2. \A u \in Tasks : \/ disp'.todo[u] = disp.todo[u]
                         \/ disp'.todo[u] \in {"skip", "fail", "write"}
    <3>0. disp.todo \in [Tasks -> DispatchTodo]
      BY <1>0 DEF Dispatching
    <3>1. disp'.todo \in {[disp.todo EXCEPT ![t] = step] :
                             step \in {"skip", "fail", "write"}}
      <4>0. disp \in [pc : {"idle", "counted", "work"}, todo : [Tasks -> DispatchTodo],
                      reserved : Nat, pid : 0..MaxAttempts, out : Status]
        BY <1>0 DEF Dispatching
      <4>1. CASE DispatchPass(t)
        BY <4>0, <4>1 DEF DispatchPass, DispatchGoes
      <4>2. CASE DispatchSpawnFails(t)
        BY <4>0, <4>2 DEF DispatchSpawnFails, DispatchGoes
      <4>3. CASE DispatchPersist(t)
        BY <4>0, <4>3 DEF DispatchPersist
      <4>4. CASE DispatchWrite(t)
        BY <4>0, <4>4 DEF DispatchWrite
      <4> QED
        BY <1>5, <4>1, <4>2, <4>3, <4>4
    <3> QED
      BY <3>0, <3>1
  <2> QED
    BY <1>1, <1>2, <2>1, <2>2
<1>6. ASSUME NEW t \in Tasks,
             \/ DispatchCancel(t) \/ DispatchReserve(t)
             \/ DispatchMark(t) \/ DispatchFail(t)
      PROVE  VerdictInv'
  <2>1. UNCHANGED shims
    BY <1>6 DEF DispatchCancel, DispatchReserve, DispatchMark, DispatchFail
  <2>2. \A u \in Tasks : \/ disp'.todo[u] = disp.todo[u]
                         \/ disp'.todo[u] \in {"skip", "persist", "spawn"}
    <3>0. disp.todo \in [Tasks -> DispatchTodo]
      BY <1>0 DEF Dispatching
    <3>1. disp'.todo \in {[disp.todo EXCEPT ![t] = step] :
                             step \in {"skip", "persist", "spawn"}}
      <4>0. disp \in [pc : {"idle", "counted", "work"}, todo : [Tasks -> DispatchTodo],
                      reserved : Nat, pid : 0..MaxAttempts, out : Status]
        BY <1>0 DEF Dispatching
      <4>1. CASE DispatchCancel(t)
        BY <4>0, <4>1 DEF DispatchCancel, DispatchGoes
      <4>2. CASE DispatchReserve(t)
        BY <4>0, <4>2 DEF DispatchReserve
      <4>3. CASE DispatchMark(t)
        BY <4>0, <4>3 DEF DispatchMark
      <4>4. CASE DispatchFail(t)
        BY <4>0, <4>4 DEF DispatchFail
      <4> QED
        BY <1>6, <4>1, <4>2, <4>3, <4>4
    <3> QED
      BY <3>0, <3>1
  <2>3. \A u \in Tasks : RowEarns(u)
    <3>1. "failed" \in Status
      BY DEF Status, Terminal
    <3>2. CASE DispatchCancel(t)
      <4>1. db[t].kill
        BY <3>2 DEF DispatchCancel, VerdictInv, CancelsFlagged
      <4> DEFINE row == CancelAccepted(db[t])
      <4>2. Update(t, row)
        BY <3>2 DEF DispatchCancel
      <4>3. row.kill = db[t].kill /\ row.status \in {"cancelled", db[t].status}
        BY <1>00, TransactionFlag, TransactionStatus
      <4> HIDE DEF row
      <4> QED
        BY <4>1, <4>2, <4>3, UpdateEarns
    <3>3. CASE DispatchReserve(t)
      BY <1>00, <3>3, TransactionFlag, TransactionStatus, UpdateEarns DEF DispatchReserve
    <3>4. CASE DispatchMark(t)
      <4> DEFINE row == MarkDispatched(db[t], disp.pid)
      <4>1. Update(t, row)
        BY <3>4 DEF DispatchMark
      <4>2. /\ row.kill = db[t].kill
            /\ row.status = IF db[t].status = "accepted" THEN "running" ELSE db[t].status
        BY <1>0, <1>00, TransactionFlag, TransactionStatus
      <4> HIDE DEF row
      <4> QED
        BY <4>1, <4>2, UpdateEarns
    <3>5. CASE DispatchFail(t)
      BY <1>00, <3>1, <3>5, TransactionFlag, TransactionStatus, UpdateEarns
      DEF DispatchFail
    <3> QED
      BY <1>6, <3>2, <3>3, <3>4, <3>5
  <2> QED
    BY <1>1, <2>1, <2>2, <2>3
\* The shim a spawn replaces had no workload yet.
<1>7. ASSUME NEW t \in Tasks, DispatchSpawn(t) PROVE VerdictInv'
  <2>1. UNCHANGED db /\ disp'.todo = [disp.todo EXCEPT ![t] = "mark"]
    BY <1>0, <1>7 DEF DispatchSpawn, Dispatching
  <2>2. PICK a \in Attempts :
          /\ shims[t][a].pc = "unborn"
          /\ shims' = [shims EXCEPT ![t][a] = [NoShim EXCEPT !.pc = "init",
                                                             !.life = server.life]]
    BY <1>7 DEF DispatchSpawn, IsFresh
  <2>3. /\ shims'[t][a].pc = "init" /\ shims'[t][a].work = "none"
        /\ \A u \in Tasks, b \in Attempts :
             (u # t \/ b # a) => shims'[u][b] = shims[u][b]
    BY <1>0, <2>2 DEF NoShim
  <2>4. \A u \in Tasks, b \in Attempts : ShimEarns(u, b)
    BY <2>2, <2>3 DEF ShimEarns, Caused, Fresh, VerdictInv, ShimsCaused
  <2>5. \A u \in Tasks : disp'.todo[u] = "cancel" => disp.todo[u] = "cancel"
    BY <1>0, <2>1 DEF Dispatching
  <2> QED
    BY <1>000, <1>2, <2>1, <2>4, <2>5, VerdictFrame DEF HandlerEarns
<1> QED
  BY <1>3, <1>4, <1>5, <1>6, <1>7 DEF Dispatcher, DispatchStep

LEMMA VerdictShim ==
    ASSUME TypeInv, SupervisedInv, VerdictInv, NEW t \in Tasks, NEW a \in Attempts,
           \/ ShimProcess(t, a) \/ ShimTimesOut(t, a) \/ ShimKills(t, a)
           \/ ShimCrash(t, a) \/ WorkloadExits(t, a)
    PROVE  VerdictInv'
<1>0. UNCHANGED <<disp, kills>>
  BY DEF ShimProcess, ShimTimesOut, ShimKills, ShimCrash, WorkloadExits, ShimGet,
         ShimLaunch, ShimLaunchFails, ShimStarted, ShimReaps, ShimCompletes,
         ShimPersists, ShimWrites
<1>00. /\ shims \in [Tasks -> [Attempts -> Shim]] /\ shims[t][a] \in Shim
       /\ \A u \in Tasks : db[u] \in Row
       /\ Caused(t, a) /\ Fresh(t, a)
  BY DEF TypeInv, TypeOK, VerdictInv, ShimsCaused
<1>1. \A u \in Tasks : RowEarns(u)
  <2>1. CASE ShimStarted(t, a)
    <3>1. a \in 0..MaxAttempts
      BY MaxAttemptsAssumption DEF Attempts
    <3> QED
      BY <1>00, <2>1, <3>1, TransactionFlag, TransactionStatus, UpdateEarns
      DEF ShimStarted
  <2>2. CASE ShimCompletes(t, a)
    <3> DEFINE verdict == shims[t][a].out
    <3>1. /\ verdict \in Status
          /\ Update(t, CompleteTask(db[t], verdict))
          /\ verdict = "cancelled" => db[t].kill
          /\ verdict = "success" => Exited0(t)
          /\ verdict # "absent"
      BY <1>00, <2>2 DEF ShimCompletes, ShimIs, Caused, Exited0, Shim, SupervisedInv,
                         VerdictIsTerminal, Terminal
    <3> HIDE DEF verdict
    <3>2. /\ CompleteTask(db[t], verdict).kill = db[t].kill
          /\ CompleteTask(db[t], verdict).status = verdict
      BY <1>00, <3>1, TransactionFlag, TransactionStatus
    <3> QED
      BY <3>1, <3>2, UpdateEarns
  <2>3. CASE UNCHANGED db
    BY <2>3 DEF RowEarns
  <2> QED
    BY <2>1, <2>2, <2>3
    DEF ShimProcess, ShimTimesOut, ShimKills, ShimCrash, WorkloadExits, ShimGet,
        ShimLaunch, ShimLaunchFails, ShimReaps, ShimPersists, ShimWrites
<1>2. ASSUME NEW x, shims' = [shims EXCEPT ![t][a] = x],
             shims[t][a].work = "exit0" => x.work = "exit0",
             x.pc = "complete" => /\ x.out = "cancelled" => db[t].kill
                                  /\ x.out = "success" => x.work = "exit0",
             x.pc \in {"unborn", "init", "launch"} => x.work = "none"
      PROVE  VerdictInv'
  <2>1. /\ shims'[t][a] = x
        /\ \A u \in Tasks, b \in Attempts :
             (u # t \/ b # a) => shims'[u][b] = shims[u][b]
    BY <1>00, <1>2
  <2>2. \A u \in Tasks, b \in Attempts : ShimEarns(u, b)
    BY <1>1, <1>2, <2>1 DEF ShimEarns, Caused, Fresh, RowEarns
  <2> QED
    BY <1>0, <1>1, <2>2, VerdictFrame DEF HandlerEarns
<1> DEFINE s == shims[t][a]
<1>3. CASE ShimGet(t, a)
  <2>1. s.pc = "init" /\ s.work = "none"
    BY <1>00, <1>3 DEF ShimGet, ShimIs, Fresh
  <2>2. CASE shims' = [shims EXCEPT ![t][a] = [s EXCEPT !.pc = "gone"]]
    <3> DEFINE x == [s EXCEPT !.pc = "gone"]
    <3>1. x.pc = "gone" /\ x.work = s.work
      BY <1>00 DEF Shim
    <3> HIDE DEF x
    <3> QED
      BY <1>2, <2>2, <3>1 DEF x
  <2>3. CASE /\ shims' = [shims EXCEPT ![t][a] = [s EXCEPT !.pc = "complete",
                                                           !.out = "cancelled"]]
             /\ db[t].kill
    <3> DEFINE x == [s EXCEPT !.pc = "complete", !.out = "cancelled"]
    <3>1. x.pc = "complete" /\ x.work = s.work /\ x.out = "cancelled"
      BY <1>00 DEF Shim
    <3> HIDE DEF x
    <3> QED
      BY <1>2, <2>1, <2>3, <3>1 DEF x
  <2>4. CASE shims' = [shims EXCEPT ![t][a] = [s EXCEPT !.pc = "launch"]]
    <3> DEFINE x == [s EXCEPT !.pc = "launch"]
    <3>1. x.pc = "launch" /\ x.work = s.work
      BY <1>00 DEF Shim
    <3> HIDE DEF x
    <3> QED
      BY <1>2, <2>1, <2>4, <3>1 DEF x
  <2> QED
    BY <1>3, <2>2, <2>3, <2>4 DEF ShimGet
<1>4. CASE ShimLaunch(t, a)
  <2> DEFINE x == [s EXCEPT !.pc = "launched", !.work = "alive"]
  <2>1. shims' = [shims EXCEPT ![t][a] = x] /\ s.work = "none"
    BY <1>00, <1>4 DEF ShimLaunch, ShimIs, Fresh
  <2>2. x.pc = "launched"
    BY <1>00 DEF Shim
  <2> HIDE DEF x
  <2> QED
    BY <1>2, <2>1, <2>2
<1>5. CASE ShimLaunchFails(t, a)
  <2>1. PICK w \in {"none", "alive"} :
          shims' = [shims EXCEPT ![t][a] =
                      [s EXCEPT !.pc = "complete", !.work = w, !.out = "failed"]]
    BY <1>5 DEF ShimLaunchFails
  <2> DEFINE x == [s EXCEPT !.pc = "complete", !.work = w, !.out = "failed"]
  <2>2. s.work = "none"
    BY <1>00, <1>5 DEF ShimLaunchFails, ShimIs, Fresh
  <2>3. x.pc = "complete" /\ x.out = "failed"
    BY <1>00 DEF Shim
  <2>4. shims' = [shims EXCEPT ![t][a] = x]
    BY <2>1
  <2> HIDE DEF x
  <2> QED
    BY <1>2, <2>2, <2>3, <2>4
<1>6. CASE ShimStarted(t, a)
  <2> DEFINE x == [s EXCEPT !.pc = "supervise"]
  <2>1. shims' = [shims EXCEPT ![t][a] = x]
    BY <1>00, <1>6 DEF ShimStarted, ShimGoes
  <2>2. x.pc = "supervise" /\ x.work = s.work
    BY <1>00 DEF Shim
  <2> HIDE DEF x
  <2> QED
    BY <1>2, <2>1, <2>2
\* classify_completion says cancelled only if the flag is set, success only if the
\* exit code is 0.
<1>7. CASE ShimReaps(t, a)
  <2> DEFINE x == [s EXCEPT !.pc = "complete", !.timeout = FALSE,
                            !.out = Classify(s.work, s.timeout, db[t].kill)]
  <2>1. shims' = [shims EXCEPT ![t][a] = x]
    BY <1>7 DEF ShimReaps
  <2>2. /\ x.pc = "complete" /\ x.work = s.work
        /\ x.out = Classify(s.work, s.timeout, db[t].kill)
    BY <1>00 DEF Shim
  <2>3. /\ x.out = "cancelled" => db[t].kill
        /\ x.out = "success" => s.work = "exit0"
    BY <2>2 DEF Classify
  <2> HIDE DEF x
  <2> QED
    BY <1>2, <2>1, <2>2, <2>3
<1>8. CASE ShimCompletes(t, a) \/ ShimPersists(t, a) \/ ShimWrites(t, a) \/ ShimCrash(t, a)
  <2>1. ASSUME NEW p \in {"persist", "write", "gone", "dead"}, NEW to, NEW o,
               shims' = [shims EXCEPT ![t][a] =
                           [s EXCEPT !.pc = p, !.timeout = to, !.out = o]]
        PROVE  VerdictInv'
    <3> DEFINE x == [s EXCEPT !.pc = p, !.timeout = to, !.out = o]
    <3>1. x.pc = p /\ x.work = s.work
      BY <1>00 DEF Shim
    <3>2. shims' = [shims EXCEPT ![t][a] = x]
      BY <2>1
    <3> HIDE DEF x
    <3> QED
      BY <1>2, <2>1, <3>1, <3>2
  <2>2. ASSUME NEW p \in {"persist", "write", "gone"}, NEW o,
               shims' = [shims EXCEPT ![t][a] = [s EXCEPT !.pc = p, !.out = o]]
        PROVE  VerdictInv'
    <3> DEFINE x == [s EXCEPT !.pc = p, !.out = o]
    <3>1. x.pc = p /\ x.work = s.work
      BY <1>00 DEF Shim
    <3>2. shims' = [shims EXCEPT ![t][a] = x]
      BY <2>2
    <3> HIDE DEF x
    <3> QED
      BY <1>2, <2>2, <3>1, <3>2
  <2>3. CASE ShimCompletes(t, a)
    BY <2>2, <2>3 DEF ShimCompletes
  <2>4. CASE ShimPersists(t, a)
    BY <2>2, <2>4 DEF ShimPersists
  <2>5. CASE ShimWrites(t, a)
    BY <2>2, <2>5 DEF ShimWrites
  <2>6. CASE ShimCrash(t, a)
    BY <2>1, <2>6 DEF ShimCrash
  <2> QED
    BY <1>8, <2>3, <2>4, <2>5, <2>6
<1>9. CASE ShimTimesOut(t, a)
  <2> DEFINE x == [s EXCEPT !.timeout = TRUE]
  <2>1. shims' = [shims EXCEPT ![t][a] = x]
    BY <1>00, <1>9 DEF ShimTimesOut
  <2>2. x.pc = s.pc /\ x.work = s.work /\ s.pc = "supervise"
    BY <1>00, <1>9 DEF Shim, ShimTimesOut, ShimIs
  <2> HIDE DEF x
  <2> QED
    BY <1>2, <2>1, <2>2
\* Only a workload that is alive ends, so no success loses its exit with 0.
<1>10. CASE ShimKills(t, a) \/ WorkloadExits(t, a)
  <2>1. PICK w \in {"exit0", "exitbad"} :
          shims' = [shims EXCEPT ![t][a] = [s EXCEPT !.work = w]]
    BY <1>00, <1>10 DEF ShimKills, WorkloadExits
  <2> DEFINE x == [s EXCEPT !.work = w]
  <2>2. s.work = "alive"
    BY <1>10 DEF ShimKills, WorkloadExits
  <2>3. x.pc = s.pc /\ x.out = s.out
    BY <1>00 DEF Shim
  <2>4. shims' = [shims EXCEPT ![t][a] = x]
    BY <2>1
  <2> HIDE DEF x
  <2> QED
    BY <1>00, <1>2, <2>2, <2>3, <2>4 DEF Caused, Fresh
<1> QED
  BY <1>3, <1>4, <1>5, <1>6, <1>7, <1>8, <1>9, <1>10 DEF ShimProcess

LEMMA VerdictKill ==
    ASSUME TypeInv, VerdictInv, NEW t \in Tasks, NEW k \in Killers,
           KillGet(t, k) \/ KillHandler(t, k) \/ KillDropped(t, k)
    PROVE  VerdictInv'
<1>0. /\ UNCHANGED disp
      /\ shims \in [Tasks -> [Attempts -> Shim]]
      /\ kills \in [Tasks -> [Killers -> Kill]]
      /\ \A u \in Tasks : db[u] \in Row
  BY DEF TypeInv, TypeOK, KillGet, KillHandler, KillDropped, KillFlag, KillRead,
         KillCancel, KillSignal, KillEscalate
<1>1. \A u \in Tasks : RowEarns(u)
  <2>1. CASE KillFlag(t, k)
    <3>1. db[t].status # "absent"
      BY <2>1 DEF KillFlag, KillIs, VerdictInv, AbsentClear
    <3> DEFINE row == SetCancelRequested(db[t])
    <3>2. Update(t, row)
      BY <2>1 DEF KillFlag
    <3>3. row.kill /\ row.status = db[t].status
      BY <1>0, TransactionFlag, TransactionStatus
    <3> HIDE DEF row
    <3> QED
      BY <3>1, <3>2, <3>3, UpdateEarns
  <2>2. CASE KillCancel(t, k)
    <3>1. db[t].kill
      BY <2>2 DEF KillCancel, KillIs, VerdictInv, KillersFlagged
    <3> QED
      BY <1>0, <2>2, <3>1, TransactionFlag, TransactionStatus, UpdateEarns
      DEF KillCancel
  <2>3. CASE UNCHANGED db
    BY <2>3 DEF RowEarns
  <2> QED
    BY <2>1, <2>2, <2>3
    DEF KillGet, KillHandler, KillDropped, KillRead, KillSignal, KillEscalate
<1>2. \A u \in Tasks, b \in Attempts : ShimEarns(u, b)
  <2>1. CASE UNCHANGED shims
    BY <2>1 DEF ShimEarns
  <2>2. CASE KillEscalate(t, k)
    <3>1. PICK pg : \/ UNCHANGED shims
                    \/ /\ shims[t][pg].work = "alive"
                       /\ shims' = [shims EXCEPT ![t][pg].work = "exitbad"]
      BY <2>2 DEF KillEscalate
    <3>2. ASSUME NEW u \in Tasks, NEW b \in Attempts PROVE ShimEarns(u, b)
      <4>1. \/ shims'[u][b] = shims[u][b]
            \/ /\ shims[u][b].work = "alive"
               /\ shims'[u][b] = [shims[u][b] EXCEPT !.work = "exitbad"]
        <5>1. CASE UNCHANGED shims
          BY <5>1
        <5>2. CASE /\ shims[t][pg].work = "alive"
                   /\ shims' = [shims EXCEPT ![t][pg].work = "exitbad"]
          BY <1>0, <5>2
        <5> QED
          BY <3>1, <5>1, <5>2
      <4>2. CASE /\ shims[u][b].work = "alive"
                 /\ shims'[u][b] = [shims[u][b] EXCEPT !.work = "exitbad"]
        <5>1. shims'[u][b].pc = shims[u][b].pc /\ shims'[u][b].out = shims[u][b].out
          <6>1. shims[u][b] \in Shim
            BY <1>0
          <6> QED
            BY <4>2, <6>1 DEF Shim
        <5>2. Caused(u, b) /\ Fresh(u, b) /\ RowEarns(u)
          BY <1>1 DEF VerdictInv, ShimsCaused
        <5> QED
          BY <4>2, <5>1, <5>2 DEF ShimEarns, Caused, Fresh, RowEarns
      <4> QED
        BY <4>1, <4>2 DEF ShimEarns
    <3> QED
      BY <3>2
  <2> QED
    BY <2>1, <2>2
    DEF KillGet, KillHandler, KillDropped, KillFlag, KillRead, KillCancel, KillSignal
\* Only the handler that just set the flag gets to "read".
<1>3. \A u \in Tasks, l \in Killers : HandlerEarns(u, l)
  <2> USE DEF HandlerEarns
  <2>1. CASE KillFlag(t, k)
    <3>1. db'[t].kill
      BY <1>0, <2>1, TransactionFlag DEF KillFlag, Update, TypeInv, TypeOK
    <3>2. \A u \in Tasks, l \in Killers :
            (u # t \/ l # k) => kills'[u][l] = kills[u][l]
      BY <1>0, <2>1 DEF KillFlag, KillGoes
    <3>3. kills'[t][k].pc = "read"
      BY <1>0, <2>1 DEF KillFlag, KillGoes, Kill
    <3> QED
      BY <3>1, <3>2, <3>3
  <2>2. CASE KillRead(t, k)
    <3>1. kills[t][k].pc = "read"
      BY <2>2 DEF KillRead, KillIs
    <3>2. \A u \in Tasks, l \in Killers :
            (u # t \/ l # k) => kills'[u][l] = kills[u][l]
      BY <1>0, <2>2 DEF KillRead
    <3>3. kills'[t][k].pc \in {"cancel", "signal"}
      BY <1>0, <2>2 DEF KillRead
    <3> QED
      BY <3>1, <3>2, <3>3
  <2>3. ASSUME NEW x, kills' = [kills EXCEPT ![t][k] = x], x.pc \notin {"read", "cancel"},
               x.pc = "flag" => db[t].status # "absent"
        PROVE  \A u \in Tasks, l \in Killers : HandlerEarns(u, l)
    BY <1>0, <2>3
  <2>4. CASE KillGet(t, k) \/ KillCancel(t, k) \/ KillSignal(t, k)
    <3>1. PICK step \in {"done", "flag", "escalate"} :
            KillGoes(t, k, step) /\ (step = "flag" => db[t].status # "absent")
      BY <2>4 DEF KillGet, KillCancel, KillSignal
    <3>2. kills' = [kills EXCEPT ![t][k] = [kills[t][k] EXCEPT !.pc = step]]
      BY <1>0, <3>1 DEF KillGoes
    <3>3. [kills[t][k] EXCEPT !.pc = step].pc = step
      BY <1>0 DEF Kill
    <3> QED
      BY <2>3, <3>1, <3>2, <3>3
  <2>5. CASE KillEscalate(t, k) \/ KillDropped(t, k)
    <3>1. kills' = [kills EXCEPT ![t][k] = [pc |-> "done", pg |-> 0]]
      BY <2>5 DEF KillEscalate, KillDropped
    <3> QED
      BY <2>3, <3>1
  <2> QED
    BY <2>1, <2>2, <2>4, <2>5 DEF KillHandler
<1> QED
  BY <1>0, <1>1, <1>2, <1>3, VerdictFrame

LEMMA VerdictOthers ==
    ASSUME TypeInv, VerdictInv, Crash \/ Recovery \/ \E t \in Tasks : Submit(t)
    PROVE  VerdictInv'
<1>0. \A t \in Tasks : db[t] \in Row
  BY DEF TypeInv, TypeOK
<1>1. UNCHANGED shims
  <2>1. CASE Crash \/ \E t \in Tasks : Submit(t)
    BY <2>1 DEF Crash, Submit
  <2>2. CASE Recovery
    BY <2>2 DEF Recovery, Restart, RecoverEnd, RecoverStep, RecoverRelease,
                RecoverProbe, RecoverReserve, RecoverLose, RecoverPersist, RecoverWrite
  <2> QED
    BY <2>1, <2>2
<1>2. \A t \in Tasks : disp'.todo[t] = "skip" \/ disp'.todo[t] = disp.todo[t]
  <2>1. disp' = Idle \/ disp' = disp
    <3>1. CASE Crash
      BY <3>1 DEF Crash
    <3>2. CASE \E t \in Tasks : Submit(t)
      BY <3>2 DEF Submit
    <3>3. CASE Recovery
      BY <3>3 DEF Recovery, Restart, RecoverEnd, RecoverStep, RecoverRelease,
                  RecoverProbe, RecoverReserve, RecoverLose, RecoverPersist, RecoverWrite
    <3> QED
      BY <3>1, <3>2, <3>3
  <2> QED
    BY <2>1 DEF Idle
<1>3. \A t \in Tasks, k \in Killers : HandlerEarns(t, k)
  <2> USE DEF HandlerEarns
  <2>1. CASE Crash
    BY <2>1 DEF Crash, NoKill
  <2>2. CASE Recovery \/ \E t \in Tasks : Submit(t)
    BY <2>2 DEF Recovery, Restart, RecoverEnd, RecoverStep, RecoverRelease, RecoverProbe,
                RecoverReserve, RecoverLose, RecoverPersist, RecoverWrite, Submit
  <2> QED
    BY <2>1, <2>2
<1>4. \A t \in Tasks : RowEarns(t)
  <2>1. ASSUME NEW t \in Tasks, Submit(t) PROVE \A u \in Tasks : RowEarns(u)
    <3> DEFINE n == 1 + Cardinality({u \in Tasks : db[u].status # "absent"})
    <3>1. Update(t, InsertTask(n)) /\ db[t].status = "absent" /\ UNCHANGED shims
      BY <2>1 DEF Submit
    <3>2. InsertTask(n).status = "accepted"
      BY DEF InsertTask, NoRow
    <3> HIDE DEF n
    <3>3. ~ db[t].kill
      BY <3>1 DEF VerdictInv, AbsentClear
    <3> QED
      BY <3>1, <3>2, <3>3, UpdateEarns
  <2>2. ASSUME NEW t \in Tasks, RecoverRelease(t) \/ RecoverReserve(t) \/ RecoverLose(t)
        PROVE  \A u \in Tasks : RowEarns(u)
    <3>1. "failed" \in Status
      BY DEF Status, Terminal
    <3>2. CASE RecoverRelease(t)
      BY <1>0, <3>2, TransactionFlag, TransactionStatus, UpdateEarns DEF RecoverRelease
    <3>3. CASE RecoverReserve(t)
      BY <1>0, <3>3, TransactionFlag, TransactionStatus, UpdateEarns DEF RecoverReserve
    <3>4. CASE RecoverLose(t)
      <4> DEFINE row == CompleteTask(db[t], "failed")
      <4>1. Update(t, row)
        BY <3>4 DEF RecoverLose, MarkRecoveryLost
      <4>2. row.kill = db[t].kill /\ row.status \in {"failed", db[t].status}
        BY <1>0, <3>1, TransactionFlag, TransactionStatus
      <4> HIDE DEF row
      <4> QED
        BY <4>1, <4>2, UpdateEarns
    <3> QED
      BY <2>2, <3>2, <3>3, <3>4
  <2>3. CASE UNCHANGED db
    BY <2>3 DEF RowEarns
  <2> QED
    BY <2>1, <2>2, <2>3 DEF Crash, Recovery, RecoverStep, Restart, RecoverEnd,
                            RecoverProbe, RecoverPersist, RecoverWrite
<1> QED
  BY <1>1, <1>2, <1>3, <1>4, VerdictFrame DEF ShimEarns

LEMMA VerdictInit == Init => VerdictInv
  BY DEF Init, VerdictInv, VerdictIsEarned, KillersFlagged, CancelsFlagged, ShimsCaused,
         AbsentClear, Caused, Fresh, NoRow, NoShim, Idle, NoKill

\* A task ends as cancelled only if somebody asked for it, as success only if a
\* workload of it exited with 0: cancel_accepted_task is reached behind the flag,
\* complete_task with what classify_completion made of the flag and the exit code,
\* and neither the flag nor the exit code changes before the row is written.
THEOREM VerdictsAreEarned == Spec => []VerdictIsEarned
<1>1. Init => TypeInv /\ SupervisedInv /\ VerdictInv
  BY TypeInvInit, SupervisedInit, VerdictInit
<1>2. (TypeInv /\ SupervisedInv /\ VerdictInv) /\ [Next]_vars
        => (TypeInv /\ SupervisedInv /\ VerdictInv)'
  <2>1. TypeInv /\ SupervisedInv /\ VerdictInv /\ [Next]_vars => VerdictInv'
    <3> SUFFICES ASSUME TypeInv, SupervisedInv, VerdictInv, [Next]_vars PROVE VerdictInv'
      OBVIOUS
    <3>1. CASE UNCHANGED vars
      BY <3>1 DEF vars, VerdictInv, VerdictIsEarned, KillersFlagged, CancelsFlagged,
                  ShimsCaused, AbsentClear, Caused, Fresh
    <3>2. CASE Next
      BY <3>2, VerdictDispatch, VerdictShim, VerdictKill, VerdictOthers DEF Next
    <3> QED
      BY <3>1, <3>2
  <2> QED
    BY <2>1, TypeInvNext, SupervisedNext
<1>3. VerdictInv => VerdictIsEarned
  BY DEF VerdictInv
<1> QED
  BY <1>1, <1>2, <1>3, PTL DEF Spec
=============================================================================
