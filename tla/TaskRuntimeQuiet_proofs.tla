---------------------- MODULE TaskRuntimeQuiet_proofs ----------------------
(***************************************************************************)
(* What holds while nothing is killed: the events tell who holds a         *)
(* reservation; until the server first crashes, and then until it is back, *)
(* the rows implement the pool of slots of SlotPool; and the recovery pass *)
(* after that crash finds nothing to rebuild, so that the slots are        *)
(* respected until the second one, and the workloads under supervision are *)
(* within them until the first.                                            *)
(***************************************************************************)
EXTENDS TaskRuntimeDispatch_proofs

-----------------------------------------------------------------------------
(* The events balance *)

Balanced(row) == row.held = (IF HasActiveReservation(row) THEN 1 ELSE 0)

\* Nobody asked for a kill, so the dispatcher has nothing to cancel:
\* cancel_accepted_task is the one transaction whose events may lie.
NoKills == \A t \in Tasks : ~db[t].kill /\ disp.todo[t] # "cancel"

\* A reservation is made only where there is none.
StartsUnreserved ==
    \A t \in Tasks : disp.todo[t] = "start" => ~HasActiveReservation(db[t])

RebuildsUnreserved ==
    \A t \in Tasks : recov.todo[t] \in {"reprobe", "reserve"} =>
        ~HasActiveReservation(db[t])

RecoveryWaits == server.phase # "recovering" => \A t \in Tasks : recov.todo[t] = "skip"

BalanceInv == EventsBalance /\ NoKills /\ StartsUnreserved /\ RebuildsUnreserved
              /\ RecoveryWaits

LEMMA TransactionBalance ==
    ASSUME NEW row \in Row, Balanced(row), ~row.kill
    PROVE  /\ \A a \in 0..MaxAttempts :
                /\ Balanced(MarkDispatched(row, a)) /\ ~MarkDispatched(row, a).kill
                /\ Balanced(MarkStarted(row, a)) /\ ~MarkStarted(row, a).kill
           /\ ~HasActiveReservation(row) =>
                Balanced(ReserveResources(row)) /\ ~ReserveResources(row).kill
           /\ Balanced(ReleaseResources(row)) /\ ~ReleaseResources(row).kill
           /\ \A verdict \in Status : /\ Balanced(CompleteTask(row, verdict))
                                      /\ ~CompleteTask(row, verdict).kill
<1>1. ASSUME NEW a \in 0..MaxAttempts
      PROVE  /\ Balanced(MarkDispatched(row, a)) /\ ~MarkDispatched(row, a).kill
             /\ Balanced(MarkStarted(row, a)) /\ ~MarkStarted(row, a).kill
  BY DEF Balanced, MarkDispatched, MarkStarted, HasActiveReservation, Row
<1>2. ASSUME ~HasActiveReservation(row)
      PROVE  Balanced(ReserveResources(row)) /\ ~ReserveResources(row).kill
  BY <1>2 DEF Balanced, ReserveResources, HasActiveReservation, Row
<1>3. Balanced(ReleaseResources(row)) /\ ~ReleaseResources(row).kill
  BY DEF Balanced, ReleaseResources, HasActiveReservation, Row
<1>4. ASSUME NEW verdict \in Status
      PROVE  Balanced(CompleteTask(row, verdict)) /\ ~CompleteTask(row, verdict).kill
  BY DEF Balanced, CompleteTask, ResAfterEnd, ReleaseEvent, HasActiveReservation, Row
<1> QED
  BY <1>1, <1>2, <1>3, <1>4

\* One row changes by a balanced transaction that makes no reservation.
LEMMA BalanceUpdate ==
    ASSUME TypeInv, BalanceInv, NEW t \in Tasks, NEW row, Update(t, row),
           Balanced(row), ~row.kill,
           HasActiveReservation(row) => HasActiveReservation(db[t])
    PROVE  \A u \in Tasks : /\ Balanced(db'[u]) /\ ~db'[u].kill
                            /\ HasActiveReservation(db'[u]) => HasActiveReservation(db[u])
  BY DEF Update, TypeInv, TypeOK, BalanceInv, EventsBalance, NoKills, Balanced

\* A step of an actor other than recover that makes no reservation.
LEMMA BalanceFrame ==
    ASSUME BalanceInv, UNCHANGED <<recov, server>>,
           \A t \in Tasks :
             /\ Balanced(db'[t]) /\ ~db'[t].kill
             /\ HasActiveReservation(db'[t]) => HasActiveReservation(db[t]),
           \A t \in Tasks :
             /\ disp'.todo[t] # "cancel"
             /\ disp'.todo[t] = "start" =>
                  disp.todo[t] = "start" \/ ~HasActiveReservation(db[t])
    PROVE  BalanceInv'
<1>1. EventsBalance' /\ NoKills'
  BY DEF EventsBalance, NoKills, Balanced
<1>2. StartsUnreserved' /\ RebuildsUnreserved' /\ RecoveryWaits'
  BY DEF BalanceInv, StartsUnreserved, RebuildsUnreserved, RecoveryWaits
<1> QED
  BY <1>1, <1>2 DEF BalanceInv

\* What the invariant says of the rows.
LEMMA BalanceRows ==
    ASSUME TypeInv, BalanceInv
    PROVE  \A t \in Tasks : db[t] \in Row /\ Balanced(db[t]) /\ ~db[t].kill
  BY DEF TypeInv, TypeOK, BalanceInv, EventsBalance, NoKills, Balanced

LEMMA BalanceDispatch ==
    ASSUME TypeInv, BalanceInv, Dispatcher \/ DispatchAbort
    PROVE  BalanceInv'
<1>0. /\ UNCHANGED <<recov, server>> /\ server.phase = "up"
      /\ db \in [Tasks -> Row] /\ disp \in Dispatching
      /\ disp.pid \in 0..MaxAttempts
  <2>1. ASSUME NEW t \in Tasks, DispatchStep(t)
        PROVE  UNCHANGED <<recov, server>> /\ server.phase = "up"
    BY <2>1 DEF Up, TakesUp, DispatchStep, DispatchCancel, DispatchPass,
                DispatchReserve, DispatchSpawn, DispatchMark, DispatchSpawnFails,
                DispatchFail, DispatchPersist, DispatchWrite
  <2>2. UNCHANGED <<recov, server>> /\ server.phase = "up"
    BY <2>1 DEF Up, Dispatcher, DispatchAbort, DispatchCount, DispatchList, DispatchEnd
  <2>3. /\ db \in [Tasks -> Row] /\ disp \in Dispatching
        /\ disp.pid \in 0..MaxAttempts
    BY DEF TypeInv, TypeOK, Dispatching
  <2> QED
    BY <2>2, <2>3
<1>1. \A t \in Tasks : db[t] \in Row /\ Balanced(db[t]) /\ ~db[t].kill
  BY BalanceRows
<1>2. \A t \in Tasks : disp.todo[t] # "cancel"
  BY DEF BalanceInv, NoKills
<1>3. CASE DispatchCount \/ DispatchEnd \/ DispatchAbort
  <2>1. UNCHANGED db
    BY <1>3 DEF DispatchCount, DispatchEnd, DispatchAbort
  <2>2. \A t \in Tasks : disp'.todo[t] = "skip" \/ disp'.todo[t] = disp.todo[t]
    <3>1. CASE DispatchCount
      BY <1>0, <3>1 DEF DispatchCount, Dispatching
    <3>2. CASE DispatchEnd \/ DispatchAbort
      BY <3>2 DEF DispatchEnd, DispatchAbort, Idle
    <3> QED
      BY <1>3, <3>1, <3>2
  <2> QED
    BY <1>0, <1>1, <1>2, <2>1, <2>2, BalanceFrame
<1>4. CASE DispatchList
  <2>1. UNCHANGED db
    BY <1>4 DEF DispatchList
  <2>2. \A t \in Tasks : /\ disp'.todo[t] # "cancel"
                         /\ disp'.todo[t] = "start" => ~HasActiveReservation(db[t])
    BY <1>0, <1>1, <1>4 DEF DispatchList, TodoOf, Dispatching
  <2> QED
    BY <1>0, <1>1, <2>1, <2>2, BalanceFrame
<1>5. ASSUME NEW t \in Tasks,
             \/ DispatchPass(t) \/ DispatchSpawnFails(t) \/ DispatchSpawn(t)
             \/ DispatchPersist(t) \/ DispatchWrite(t)
      PROVE  BalanceInv'
  <2>1. UNCHANGED db
    BY <1>5 DEF DispatchPass, DispatchSpawnFails, DispatchSpawn, DispatchPersist,
                DispatchWrite
  <2>2. \A u \in Tasks : \/ disp'.todo[u] = disp.todo[u]
                         \/ disp'.todo[u] \in {"skip", "fail", "mark", "write"}
    <3>1. CASE DispatchPass(t) \/ DispatchSpawnFails(t)
      BY <1>0, <3>1 DEF DispatchPass, DispatchSpawnFails, DispatchGoes, Dispatching
    <3>2. CASE DispatchSpawn(t)
      BY <1>0, <3>2 DEF DispatchSpawn, Dispatching
    <3>3. CASE DispatchPersist(t) \/ DispatchWrite(t)
      BY <1>0, <3>3 DEF DispatchPersist, DispatchWrite, Dispatching
    <3> QED
      BY <1>5, <3>1, <3>2, <3>3
  <2> QED
    BY <1>0, <1>1, <1>2, <2>1, <2>2, BalanceFrame
<1>6. ASSUME NEW t \in Tasks, DispatchMark(t) \/ DispatchFail(t) PROVE BalanceInv'
  <2>1. \A u \in Tasks : \/ disp'.todo[u] = disp.todo[u]
                         \/ disp'.todo[u] \in {"skip", "persist"}
    BY <1>0, <1>6 DEF DispatchMark, DispatchFail, Dispatching
  <2>2. PICK row : /\ Update(t, row) /\ Balanced(row) /\ ~row.kill
                   /\ HasActiveReservation(row) => HasActiveReservation(db[t])
    <3>1. "failed" \in Status
      BY DEF Status, Terminal
    <3>2. CASE DispatchMark(t)
      BY <1>0, <1>1, <3>2, TransactionBalance, TransactionReservation DEF DispatchMark
    <3>3. CASE DispatchFail(t)
      BY <1>1, <3>1, <3>3, TransactionBalance, TransactionReservation DEF DispatchFail
    <3> QED
      BY <1>6, <3>2, <3>3
  <2>3. \A u \in Tasks :
          /\ Balanced(db'[u]) /\ ~db'[u].kill
          /\ HasActiveReservation(db'[u]) => HasActiveReservation(db[u])
    BY <2>2, BalanceUpdate
  <2> QED
    BY <1>0, <1>2, <2>1, <2>3, BalanceFrame
<1>7. ASSUME NEW t \in Tasks, DispatchReserve(t) PROVE BalanceInv'
  <2>1. /\ db'[t] = ReserveResources(db[t])
        /\ \A u \in Tasks \ {t} : db'[u] = db[u]
        /\ disp'.todo = [disp.todo EXCEPT ![t] = "spawn"]
        /\ disp.todo[t] = "start"
    BY <1>0, <1>7 DEF DispatchReserve, Update, Dispatching
  <2>2. ~HasActiveReservation(db[t])
    BY <2>1 DEF BalanceInv, StartsUnreserved
  <2>3. \A u \in Tasks : Balanced(db'[u]) /\ ~db'[u].kill
    BY <1>1, <2>1, <2>2, TransactionBalance
  <2>4. EventsBalance' /\ NoKills' /\ StartsUnreserved'
    <3>1. \A u \in Tasks : /\ disp'.todo[u] # "cancel"
                           /\ u # t => disp'.todo[u] = disp.todo[u]
                           /\ disp'.todo[t] = "spawn"
      BY <1>0, <1>2, <2>1 DEF Dispatching
    <3> QED
      BY <2>1, <2>3, <3>1 DEF EventsBalance, NoKills, Balanced, BalanceInv, StartsUnreserved
  <2>5. RebuildsUnreserved' /\ RecoveryWaits'
    BY <1>0 DEF BalanceInv, RebuildsUnreserved, RecoveryWaits
  <2> QED
    BY <2>4, <2>5 DEF BalanceInv
<1>8. ASSUME NEW t \in Tasks, DispatchCancel(t) PROVE BalanceInv'
  BY <1>2, <1>8 DEF DispatchCancel
<1> QED
  BY <1>3, <1>4, <1>5, <1>6, <1>7, <1>8 DEF Dispatcher, DispatchStep

LEMMA BalanceShim ==
    ASSUME TypeInv, BalanceInv, NEW t \in Tasks, NEW a \in Attempts,
           \/ ShimProcess(t, a) \/ ShimTimesOut(t, a) \/ ShimKills(t, a)
           \/ ShimCrash(t, a) \/ WorkloadExits(t, a)
    PROVE  BalanceInv'
<1>1. UNCHANGED <<disp, recov, server>>
  BY DEF ShimProcess, ShimTimesOut, ShimKills, ShimCrash, WorkloadExits, ShimGet,
         ShimLaunch, ShimLaunchFails, ShimStarted, ShimReaps, ShimCompletes,
         ShimPersists, ShimWrites
<1>2. /\ \A u \in Tasks : db[u] \in Row /\ Balanced(db[u]) /\ ~db[u].kill
      /\ \A u \in Tasks : disp.todo[u] # "cancel"
  BY BalanceRows DEF BalanceInv, NoKills
<1>3. \A u \in Tasks :
        /\ Balanced(db'[u]) /\ ~db'[u].kill
        /\ HasActiveReservation(db'[u]) => HasActiveReservation(db[u])
  <2>1. CASE ShimStarted(t, a)
    <3>1. a \in 0..MaxAttempts
      BY MaxAttemptsAssumption DEF Attempts
    <3> QED
      BY <1>2, <2>1, <3>1, TransactionBalance, TransactionReservation, BalanceUpdate
      DEF ShimStarted
  <2>2. CASE ShimCompletes(t, a)
    <3>1. shims[t][a].out \in Status
      BY DEF TypeInv, TypeOK, Shim
    <3> QED
      BY <1>2, <2>2, <3>1, TransactionBalance, TransactionReservation, BalanceUpdate
      DEF ShimCompletes
  <2>3. CASE UNCHANGED db
    BY <1>2, <2>3
  <2> QED
    BY <2>1, <2>2, <2>3
    DEF ShimProcess, ShimTimesOut, ShimKills, ShimCrash, WorkloadExits, ShimGet,
        ShimLaunch, ShimLaunchFails, ShimReaps, ShimPersists, ShimWrites
<1> QED
  BY <1>1, <1>2, <1>3, BalanceFrame

LEMMA BalanceSubmit ==
    ASSUME TypeInv, BalanceInv, NEW t \in Tasks, Submit(t)
    PROVE  BalanceInv'
<1> DEFINE n == 1 + Cardinality({u \in Tasks : db[u].status # "absent"})
<1>1. Update(t, InsertTask(n)) /\ UNCHANGED <<disp, recov, server>>
  BY DEF Submit
<1>2. Balanced(InsertTask(n)) /\ ~InsertTask(n).kill /\ ~HasActiveReservation(InsertTask(n))
  BY DEF InsertTask, NoRow, Balanced, HasActiveReservation
<1> HIDE DEF n
<1>3. \A u \in Tasks :
        /\ Balanced(db'[u]) /\ ~db'[u].kill
        /\ HasActiveReservation(db'[u]) => HasActiveReservation(db[u])
  BY <1>1, <1>2, BalanceUpdate
<1> QED
  BY <1>1, <1>3, BalanceFrame DEF BalanceInv, NoKills

\* recover rebuilds the reservation of a row it listed without one, and nobody makes
\* one in between: the dispatcher does not run yet.
LEMMA BalanceRecovery ==
    ASSUME TypeInv, LivesInv, BalanceInv, Crash \/ Recovery
    PROVE  BalanceInv'
<1>0. /\ \A t \in Tasks : db[t] \in Row /\ Balanced(db[t]) /\ ~db[t].kill
      /\ \A t \in Tasks : disp.todo[t] # "cancel"
      /\ recov \in Recovering /\ db \in [Tasks -> Row]
  BY BalanceRows DEF BalanceInv, NoKills, TypeInv, TypeOK
<1>1. CASE Crash
  <2>1. /\ UNCHANGED db
        /\ \A t \in Tasks : disp'.todo[t] = "skip" /\ recov'.todo[t] = "skip"
    BY <1>1 DEF Crash, Idle, NoRecovery
  <2>2. EventsBalance' /\ NoKills'
    BY <1>0, <2>1 DEF EventsBalance, NoKills, Balanced
  <2>3. StartsUnreserved' /\ RebuildsUnreserved' /\ RecoveryWaits'
    BY <2>1 DEF StartsUnreserved, RebuildsUnreserved, RecoveryWaits
  <2> QED
    BY <2>2, <2>3 DEF BalanceInv
<1>2. CASE Recovery
  <2>1. UNCHANGED disp /\ server.phase # "up"
    BY <1>2 DEF Recovery, Restart, RecoverEnd, RecoverStep, RecoverRelease, RecoverProbe,
                RecoverReserve, RecoverLose, RecoverPersist, RecoverWrite, Recovers,
                RecoverIs
  <2>2. \A t \in Tasks : disp'.todo[t] = "skip"
    BY <2>1 DEF LivesInv, DispatcherWaits
  <2>3. ASSUME \A t \in Tasks : Balanced(db'[t]) /\ ~db'[t].kill,
               RebuildsUnreserved', RecoveryWaits'
        PROVE  BalanceInv'
    <3>1. EventsBalance' /\ NoKills' /\ StartsUnreserved'
      BY <2>2, <2>3 DEF EventsBalance, NoKills, StartsUnreserved, Balanced
    <3> QED
      BY <2>3, <3>1 DEF BalanceInv
  <2>4. CASE Restart
    <3>1. UNCHANGED db /\ server'.phase = "recovering"
      BY <2>4 DEF Restart, TypeInv, TypeOK
    <3>2. \A t \in Tasks : recov'.todo[t] = RecoverOf(db[t])
      BY <1>0, <2>4 DEF Restart, Recovering
    <3>3. \A t \in Tasks : RecoverOf(db[t]) \in {"reprobe", "reserve"} =>
            ~HasActiveReservation(db[t])
      BY DEF RecoverOf
    <3> QED
      BY <1>0, <2>3, <3>1, <3>2, <3>3 DEF RebuildsUnreserved, RecoveryWaits
  <2>5. CASE RecoverEnd
    <3>1. UNCHANGED <<db, recov>> /\ \A t \in Tasks : recov.todo[t] = "skip"
      BY <2>5 DEF RecoverEnd
    <3> QED
      BY <1>0, <2>3, <3>1 DEF RebuildsUnreserved, RecoveryWaits
  <2>6. ASSUME NEW t \in Tasks, RecoverStep(t) PROVE BalanceInv'
    <3>1. server'.phase = "recovering"
      BY <2>6 DEF RecoverStep, RecoverRelease, RecoverProbe, RecoverReserve, RecoverLose,
                  RecoverPersist, RecoverWrite, Recovers, RecoverIs
    <3>2. RecoveryWaits'
      BY <3>1 DEF RecoveryWaits
    \* t is not to be rebuilt afterwards, or has no reservation.
    <3>3. ASSUME \A u \in Tasks \ {t} : db'[u] = db[u] /\ recov'.todo[u] = recov.todo[u],
                 Balanced(db'[t]), ~db'[t].kill,
                 recov'.todo[t] \in {"reprobe", "reserve"} => ~HasActiveReservation(db'[t])
          PROVE  BalanceInv'
      <4>1. RebuildsUnreserved'
        BY <3>3 DEF BalanceInv, RebuildsUnreserved
      <4> QED
        BY <1>0, <2>3, <3>2, <3>3, <4>1
    <3>4. \A step : RecoverGoes(t, step) =>
            /\ recov'.todo[t] = step
            /\ \A u \in Tasks \ {t} : recov'.todo[u] = recov.todo[u]
      BY <1>0 DEF RecoverGoes, Recovering
    <3>5. \A row : Update(t, row) =>
            db'[t] = row /\ \A u \in Tasks \ {t} : db'[u] = db[u]
      BY <1>0 DEF Update
    <3>6. CASE RecoverRelease(t)
      <4>1. RecoverGoes(t, "skip") /\ Update(t, ReleaseResources(db[t]))
        BY <3>6 DEF RecoverRelease
      <4>2. Balanced(ReleaseResources(db[t])) /\ ~ReleaseResources(db[t]).kill
        BY <1>0, TransactionBalance
      <4> QED
        BY <3>3, <3>4, <3>5, <4>1, <4>2
    <3>7. CASE RecoverProbe(t)
      <4>1. PICK step : /\ RecoverGoes(t, step)
                        /\ step = "reserve" => recov.todo[t] = "reprobe"
                        /\ step # "reprobe"
        BY <3>7 DEF RecoverProbe
      <4>2. UNCHANGED db
        BY <3>7 DEF RecoverProbe
      <4> QED
        BY <1>0, <3>3, <3>4, <4>1, <4>2 DEF BalanceInv, RebuildsUnreserved
    <3>8. CASE RecoverReserve(t)
      <4>1. /\ RecoverGoes(t, "skip") /\ Update(t, ReserveResources(db[t]))
            /\ recov.todo[t] = "reserve"
        BY <3>8 DEF RecoverReserve, RecoverIs
      <4>2. ~HasActiveReservation(db[t])
        BY <4>1 DEF BalanceInv, RebuildsUnreserved
      <4>3. Balanced(ReserveResources(db[t])) /\ ~ReserveResources(db[t]).kill
        BY <1>0, <4>2, TransactionBalance
      <4> QED
        BY <3>3, <3>4, <3>5, <4>1, <4>3
    <3>9. CASE RecoverLose(t)
      <4>1. RecoverGoes(t, "persist") /\ Update(t, CompleteTask(db[t], "failed"))
        BY <3>9 DEF RecoverLose, MarkRecoveryLost
      <4>2. "failed" \in Status
        BY DEF Status, Terminal
      <4>3. Balanced(CompleteTask(db[t], "failed")) /\ ~CompleteTask(db[t], "failed").kill
        BY <1>0, <4>2, TransactionBalance
      <4> QED
        BY <3>3, <3>4, <3>5, <4>1, <4>3
    <3>10. CASE RecoverPersist(t) \/ RecoverWrite(t)
      <4>1. UNCHANGED db
        BY <3>10 DEF RecoverPersist, RecoverWrite
      <4>2. /\ recov'.todo[t] \in {"write", "skip"}
            /\ \A u \in Tasks \ {t} : recov'.todo[u] = recov.todo[u]
        <5>1. CASE RecoverPersist(t)
          BY <1>0, <5>1 DEF RecoverPersist, Recovering
        <5>2. CASE RecoverWrite(t)
          BY <1>0, <5>2 DEF RecoverWrite, Recovering
        <5> QED
          BY <3>10, <5>1, <5>2
      <4> QED
        BY <1>0, <3>3, <4>1, <4>2
    <3> QED
      BY <2>6, <3>6, <3>7, <3>8, <3>9, <3>10 DEF RecoverStep
  <2> QED
    BY <1>2, <2>4, <2>5, <2>6 DEF Recovery
<1> QED
  BY <1>1, <1>2

LEMMA BalanceInit == Init => BalanceInv
  BY DEF Init, BalanceInv, EventsBalance, NoKills, StartsUnreserved, RebuildsUnreserved,
         RecoveryWaits, NoRow, Idle, NoRecovery, HasActiveReservation

LEMMA BalanceNext ==
    ASSUME Killers = {}
    PROVE  TypeInv /\ LivesInv /\ BalanceInv /\ [Next]_vars => BalanceInv'
<1> SUFFICES ASSUME TypeInv, LivesInv, BalanceInv, [Next]_vars PROVE BalanceInv'
  OBVIOUS
<1>1. CASE UNCHANGED vars
  BY <1>1 DEF vars, BalanceInv, EventsBalance, NoKills, StartsUnreserved,
              RebuildsUnreserved, RecoveryWaits
<1>2. CASE Next
  BY <1>2, BalanceDispatch, BalanceShim, BalanceSubmit, BalanceRecovery DEF Next
<1> QED
  BY <1>1, <1>2

\* As long as nobody kills, the resource_reserved events of a task are one ahead of
\* its resource_released events exactly while it holds a reservation, whatever
\* crashes and recoveries there are: reserve_resources, which does not look, is
\* only called where there is no active reservation.
THEOREM EventsTellReservations ==
    ASSUME Killers = {}
    PROVE  Spec => []EventsBalance
<1>1. Init => TypeInv /\ SupervisedInv /\ LivesInv /\ BalanceInv
  BY TypeInvInit, SupervisedInit, LivesInit, BalanceInit
<1>2. (TypeInv /\ SupervisedInv /\ LivesInv /\ BalanceInv) /\ [Next]_vars
        => (TypeInv /\ SupervisedInv /\ LivesInv /\ BalanceInv)'
  BY TypeInvNext, SupervisedNext, LivesNext, BalanceNext
<1>3. BalanceInv => EventsBalance
  BY DEF BalanceInv
<1> QED
  BY <1>1, <1>2, <1>3, PTL DEF Spec

-----------------------------------------------------------------------------
(* The pool of slots *)

\* Only a task that was accepted holds a slot.
HoldersAccepted ==
    \A t \in Tasks : HasActiveReservation(db[t]) => db[t].status # "absent"

\* The task the dispatcher is about to reserve for is still accepted.
StartsAccepted == \A t \in Tasks : disp.todo[t] = "start" => db[t].status = "accepted"

\* A slot taken is kept until the shim is there, or until complete_task after a
\* spawn that failed.
SpawnsHold ==
    \A t \in Tasks : disp.todo[t] \in {"spawn", "fail"} =>
        HasActiveReservation(db[t]) /\ \A a \in Attempts : ~Spawned(t, a)

\* And until the shim calls complete_task.
ShimsHold ==
    \A t \in Tasks, a \in Attempts :
        shims[t][a].pc \in Unended => HasActiveReservation(db[t])

QuietInv == HoldersAccepted /\ StartsAccepted /\ SpawnsHold /\ ShimsHold

\* The server never crashed, or crashed and was not started again.
FirstRun == server.life = 0 \/ (server.life = 1 /\ server.phase = "down")

KnownInv == TypeInv /\ SupervisedInv /\ LivesInv /\ SlotsInv /\ BalanceInv

\* All that is known of a state of such a run without kills.
QuietContext == FirstRun /\ KnownInv /\ QuietInv

\* In the first run a task has one shim, and the dispatcher starts none but that.
LEMMA OneShim ==
    ASSUME FirstRun, TypeInv, LivesInv
    PROVE  /\ \A t \in Tasks : \A a, b \in Attempts :
                Spawned(t, a) /\ Spawned(t, b) => a = b
           /\ \A t \in Tasks, a \in Attempts :
                Spawned(t, a) => disp.todo[t] \notin {"start", "spawn"}
<1>1. \A t \in Tasks, a \in Attempts : Spawned(t, a) => shims[t][a].life = 0
  <2>1. \A t \in Tasks, a \in Attempts : shims[t][a].life \in Nat
    BY BoundsAssumption DEF TypeInv, TypeOK, Shim
  <2> QED
    BY <2>1 DEF FirstRun, LivesInv, LivesPast
<1>2. \A t \in Tasks : \A a, b \in Attempts : Spawned(t, a) /\ Spawned(t, b) => a = b
  BY <1>1 DEF LivesInv, OneShimPerLife, Spawned
<1>3. ASSUME NEW t \in Tasks, NEW a \in Attempts, Spawned(t, a)
      PROVE  disp.todo[t] \notin {"start", "spawn"}
  <2>1. CASE server.life = 0
    BY <1>1, <1>3, <2>1 DEF LivesInv, StartsFresh, SpawnedNow
  <2>2. CASE server.phase = "down"
    BY <2>2 DEF LivesInv, DispatcherWaits
  <2> QED
    BY <2>1, <2>2 DEF FirstRun
<1> QED
  BY <1>2, <1>3

\* A step that takes no slot away, makes no shim busy and gives the dispatcher no
\* new start.
LEMMA QuietFrame ==
    ASSUME QuietInv,
           \A t \in Tasks :
             /\ HasActiveReservation(db'[t]) <=> HasActiveReservation(db[t])
             /\ db'[t].status = "absent" => db[t].status = "absent"
             /\ disp'.todo[t] = "start" =>
                  db'[t].status = "accepted" \/
                  (disp.todo[t] = "start" /\ db'[t].status = db[t].status)
             /\ disp'.todo[t] \in {"spawn", "fail"} => disp.todo[t] \in {"spawn", "fail"},
           \A t \in Tasks, a \in Attempts :
             /\ shims'[t][a].pc \in Unended => shims[t][a].pc \in Unended
             /\ Spawned(t, a)' <=> Spawned(t, a)
    PROVE  QuietInv'
<1>1. HoldersAccepted'
  BY DEF QuietInv, HoldersAccepted
<1>2. StartsAccepted'
  BY DEF QuietInv, StartsAccepted
<1>3. SpawnsHold'
  BY DEF QuietInv, SpawnsHold
<1>4. ShimsHold'
  BY DEF QuietInv, ShimsHold
<1> QED
  BY <1>1, <1>2, <1>3, <1>4 DEF QuietInv

-----------------------------------------------------------------------------
(* Steps of the pool *)

Stages == [t \in Tasks |-> StageOf(db[t])]

\* What a step does to the pool.
PoolStep == [Pool!Next]_Stages

LEMMA StageMoves ==
    ASSUME TypeInv, NEW t \in Tasks, NEW row, Update(t, row)
    PROVE  /\ Stages' = [Stages EXCEPT ![t] = StageOf(row)]
           /\ Stages[t] = StageOf(db[t])
  BY DEF Stages, Update, TypeInv, TypeOK

LEMMA StageKept ==
    ASSUME TypeInv, NEW t \in Tasks, NEW row, Update(t, row),
           StageOf(row) = StageOf(db[t])
    PROVE  PoolStep
<1>1. Stages' = Stages
  BY StageMoves DEF Stages
<1> QED
  BY <1>1 DEF PoolStep

\* complete_task of a holder gives the slot back with the verdict.
LEMMA StageFinishes ==
    ASSUME TypeInv, NEW t \in Tasks, NEW verdict \in Terminal,
           HasActiveReservation(db[t]), Update(t, CompleteTask(db[t], verdict))
    PROVE  /\ PoolStep
           /\ ~HasActiveReservation(db'[t]) /\ db'[t].status = verdict
           /\ \A u \in Tasks \ {t} : db'[u] = db[u]
<1> DEFINE row == CompleteTask(db[t], verdict)
<1>1. /\ ~HasActiveReservation(row) /\ row.status = verdict
      /\ db'[t] = row /\ \A u \in Tasks \ {t} : db'[u] = db[u]
  BY DEF CompleteTask, ResAfterEnd, HasActiveReservation, Row, Update, TypeInv, TypeOK
<1>2. StageOf(row) = verdict /\ StageOf(db[t]) = "holding"
  BY <1>1 DEF StageOf, Terminal
<1>3. Update(t, row)
  OBVIOUS
<1> HIDE DEF row
<1>4. Stages[t] = "holding" /\ Stages' = [Stages EXCEPT ![t] = verdict]
  BY <1>2, <1>3, StageMoves
<1>5. Pool!Finish(t)
  BY <1>4 DEF Pool!Finish, Pool!Moves, Pool!Verdict, Terminal, Stages
<1> QED
  BY <1>1, <1>5 DEF PoolStep, Pool!Next

\* No row changes, so nothing happens in the pool.
LEMMA PoolFrame == UNCHANGED db => PoolStep
  BY DEF PoolStep, Stages

\* A row that stays accepted or running keeps its stage.
LEMMA StageOfHolder ==
    ASSUME NEW row \in Row
    PROVE  /\ HasActiveReservation(row) <=> StageOf(row) = "holding"
           /\ row.status \in {"accepted", "running"} /\ ~HasActiveReservation(row)
                => StageOf(row) = "waiting"
           /\ row.status = "absent" /\ ~HasActiveReservation(row) => StageOf(row) = "absent"
  BY DEF StageOf, Row, Status, Terminal

LEMMA QuietDispatch ==
    ASSUME QuietContext, Dispatcher \/ DispatchAbort
    PROVE  QuietInv' /\ PoolStep
<1>0. /\ FirstRun /\ TypeInv /\ LivesInv /\ BalanceInv /\ QuietInv
      /\ SlotsHold
      /\ db \in [Tasks -> Row] /\ disp \in Dispatching
      /\ disp.pid \in 0..MaxAttempts
      /\ shims \in [Tasks -> [Attempts -> Shim]]
  <2>1. ASSUME NEW t \in Tasks, DispatchStep(t) PROVE Up
    BY <2>1 DEF DispatchStep, DispatchCancel, DispatchPass, DispatchReserve,
                DispatchSpawn, DispatchMark, DispatchSpawnFails, DispatchFail,
                DispatchPersist, DispatchWrite, TakesUp
  <2>2. Up
    BY <2>1 DEF Dispatcher, DispatchAbort, DispatchCount, DispatchList, DispatchEnd
  <2>3. FirstRun /\ TypeInv /\ LivesInv /\ SlotsInv /\ BalanceInv /\ QuietInv
    BY DEF QuietContext, KnownInv
  <2>4. SlotsHold
    BY <2>2, <2>3 DEF FirstRun, Up, SlotsInv
  <2>5. /\ db \in [Tasks -> Row] /\ disp \in Dispatching
        /\ disp.pid \in 0..MaxAttempts
        /\ shims \in [Tasks -> [Attempts -> Shim]]
    BY <2>3 DEF TypeInv, TypeOK, Dispatching
  <2> QED
    BY <2>3, <2>4, <2>5
<1>1. ASSUME UNCHANGED <<db, shims>>,
             \A t \in Tasks : /\ disp'.todo[t] = "start" =>
                                    disp.todo[t] = "start" \/ db[t].status = "accepted"
                              /\ disp'.todo[t] \in {"spawn", "fail"} =>
                                    disp.todo[t] \in {"spawn", "fail"}
      PROVE  QuietInv' /\ PoolStep
  <2>1. QuietInv'
    BY <1>0, <1>1, QuietFrame DEF Spawned
  <2> QED
    BY <1>1, <2>1, PoolFrame
<1>2. CASE DispatchCount \/ DispatchEnd \/ DispatchAbort
  <2>1. UNCHANGED <<db, shims>>
    BY <1>2 DEF DispatchCount, DispatchEnd, DispatchAbort
  <2>2. \A t \in Tasks : disp'.todo[t] = "skip" \/ disp'.todo[t] = disp.todo[t]
    <3>1. CASE DispatchCount
      BY <1>0, <3>1 DEF DispatchCount, Dispatching
    <3>2. CASE DispatchEnd \/ DispatchAbort
      BY <3>2 DEF DispatchEnd, DispatchAbort, Idle
    <3> QED
      BY <1>2, <3>1, <3>2
  <2> QED
    BY <1>1, <2>1, <2>2
<1>3. CASE DispatchList
  <2>1. UNCHANGED <<db, shims>>
    BY <1>3 DEF DispatchList
  <2>2. \A t \in Tasks : /\ disp'.todo[t] \notin {"spawn", "fail"}
                         /\ disp'.todo[t] = "start" => db[t].status = "accepted"
    BY <1>0, <1>3 DEF DispatchList, TodoOf, Dispatching, Oldest
  <2> QED
    BY <1>1, <2>1, <2>2
<1>4. ASSUME NEW t \in Tasks,
             \/ DispatchPass(t) \/ DispatchSpawnFails(t)
             \/ DispatchPersist(t) \/ DispatchWrite(t)
      PROVE  QuietInv' /\ PoolStep
  <2>1. UNCHANGED <<db, shims>>
    BY <1>4 DEF DispatchPass, DispatchSpawnFails, DispatchPersist, DispatchWrite
  <2>2. \A u \in Tasks : \/ disp'.todo[u] = disp.todo[u]
                         \/ disp'.todo[u] \in {"skip", "write"}
                         \/ disp'.todo[u] = "fail" /\ disp.todo[u] = "spawn"
    <3>1. CASE DispatchPass(t)
      BY <1>0, <3>1 DEF DispatchPass, DispatchGoes, Dispatching
    <3>2. CASE DispatchSpawnFails(t)
      BY <1>0, <3>2 DEF DispatchSpawnFails, DispatchGoes, DispatchIs, Dispatching
    <3>3. CASE DispatchPersist(t)
      BY <1>0, <3>3 DEF DispatchPersist, Dispatching
    <3>4. CASE DispatchWrite(t)
      BY <1>0, <3>4 DEF DispatchWrite, Dispatching
    <3> QED
      BY <1>4, <3>1, <3>2, <3>3, <3>4
  <2> QED
    BY <1>1, <2>1, <2>2
<1>5. ASSUME NEW t \in Tasks, DispatchCancel(t) PROVE QuietInv' /\ PoolStep
  BY <1>0, <1>5 DEF DispatchCancel, BalanceInv, NoKills
\* The one step that takes a slot: the count the dispatcher made covers every
\* reservation there is.
<1>6. ASSUME NEW t \in Tasks, DispatchReserve(t) PROVE QuietInv' /\ PoolStep
  <2>1. /\ Update(t, ReserveResources(db[t]))
        /\ disp.todo[t] = "start" /\ disp.pc = "work" /\ disp.reserved + 1 <= Slots
        /\ disp'.todo = [disp.todo EXCEPT ![t] = "spawn"]
        /\ UNCHANGED shims
    BY <1>0, <1>6 DEF DispatchReserve, TakesUp, CanReserve, Dispatching
  <2>2. db[t].status = "accepted" /\ ~HasActiveReservation(db[t])
    BY <1>0, <2>1 DEF QuietInv, StartsAccepted, BalanceInv, StartsUnreserved
  <2>3. \A a \in Attempts : ~Spawned(t, a)
    BY <1>0, <2>1, OneShim
  <2>4. /\ HasActiveReservation(ReserveResources(db[t]))
        /\ ReserveResources(db[t]).status = "accepted"
    BY <1>0, <2>2 DEF ReserveResources, HasActiveReservation, Row
  <2>5. /\ db'[t] = ReserveResources(db[t]) /\ \A u \in Tasks \ {t} : db'[u] = db[u]
        /\ disp'.todo[t] = "spawn"
        /\ \A u \in Tasks \ {t} : disp'.todo[u] = disp.todo[u]
    BY <1>0, <2>1 DEF Update, Dispatching
  <2>6. QuietInv'
    <3>1. HoldersAccepted' /\ StartsAccepted'
      BY <1>0, <2>4, <2>5 DEF QuietInv, HoldersAccepted, StartsAccepted
    <3>2. SpawnsHold' /\ ShimsHold'
      BY <1>0, <2>1, <2>3, <2>4, <2>5 DEF QuietInv, SpawnsHold, ShimsHold, Spawned
    <3> QED
      BY <1>0, <3>1, <3>2 DEF QuietInv
  <2>7. Stages[t] = "waiting" /\ Stages' = [Stages EXCEPT ![t] = "holding"]
    <3>1. StageOf(db[t]) = "waiting"
      BY <1>0, <2>2, StageOfHolder
    <3>2. StageOf(ReserveResources(db[t])) = "holding"
      BY <2>4 DEF StageOf
    <3> QED
      BY <1>0, <2>1, <3>1, <3>2, StageMoves
  <2>8. Pool!Holding = Reserved
    BY <1>0, StageOfHolder DEF Pool!Holding, Reserved
  <2>9. Cardinality(Reserved) < Slots
    <3>1. Cardinality(Reserved \cup Pending) <= disp.reserved
      BY <1>0, <2>1 DEF SlotsHold, CountCovers
    <3>2. Reserved \in SUBSET (Reserved \cup Pending) /\ Reserved \cup Pending \in SUBSET Tasks
      BY DEF Reserved, Pending
    <3> HIDE DEF Reserved, Pending
    <3>3. /\ Cardinality(Reserved) <= Cardinality(Reserved \cup Pending)
          /\ Cardinality(Reserved) \in Nat /\ Cardinality(Reserved \cup Pending) \in Nat
      BY <3>2, CountSubset
    <3>4. disp.reserved \in Nat /\ Slots \in Nat
      BY <1>0, LimitsAssumption DEF Dispatching
    <3> QED
      BY <2>1, <3>1, <3>3, <3>4
  <2>10. Pool!Take(t)
    <3>1. Pool!Moves(t, "waiting", "holding")
      BY <2>7 DEF Pool!Moves, Stages
    <3>2. Pool!Cardinality(Pool!Holding) = Cardinality(Pool!Holding)
      BY DEF Pool!Cardinality, Cardinality
    <3> QED
      BY <2>8, <2>9, <3>1, <3>2 DEF Pool!Take
  <2> QED
    BY <2>6, <2>10 DEF PoolStep, Pool!Next
<1>7. ASSUME NEW t \in Tasks, DispatchSpawn(t) PROVE QuietInv' /\ PoolStep
  <2>1. /\ UNCHANGED db /\ disp.todo[t] = "spawn"
        /\ disp'.todo = [disp.todo EXCEPT ![t] = "mark"]
    BY <1>0, <1>7 DEF DispatchSpawn, DispatchIs, Dispatching
  <2> DEFINE x == [NoShim EXCEPT !.pc = "init", !.life = server.life]
  <2>2. PICK a \in Attempts : shims' = [shims EXCEPT ![t][a] = x]
    BY <1>7 DEF DispatchSpawn
  <2>2a. x.pc = "init"
    BY DEF NoShim
  <2> HIDE DEF x
  <2>3. \A u \in Tasks, b \in Attempts :
          shims'[u][b] = IF u = t /\ b = a THEN x ELSE shims[u][b]
    BY <1>0, <2>2
  <2>4. /\ disp'.todo[t] = "mark"
        /\ \A u \in Tasks \ {t} : disp'.todo[u] = disp.todo[u]
    BY <1>0, <2>1 DEF Dispatching
  <2>5. HasActiveReservation(db[t])
    BY <1>0, <2>1 DEF QuietInv, SpawnsHold
  <2>6. HoldersAccepted' /\ StartsAccepted'
    BY <1>0, <2>1, <2>4 DEF QuietInv, HoldersAccepted, StartsAccepted
  <2>7. SpawnsHold'
    BY <1>0, <2>1, <2>2a, <2>3, <2>4 DEF QuietInv, SpawnsHold, Spawned
  <2>8. ShimsHold'
    BY <1>0, <2>1, <2>3, <2>5 DEF QuietInv, ShimsHold
  <2> QED
    BY <1>0, <2>1, <2>6, <2>7, <2>8, PoolFrame DEF QuietInv
<1>8. ASSUME NEW t \in Tasks, DispatchMark(t) PROVE QuietInv' /\ PoolStep
  <2> DEFINE row == MarkDispatched(db[t], disp.pid)
  <2>1. /\ Update(t, row) /\ UNCHANGED shims /\ disp.todo[t] = "mark"
        /\ disp'.todo = [disp.todo EXCEPT ![t] = "skip"]
    BY <1>0, <1>8 DEF DispatchMark, DispatchIs, Dispatching
  <2>2. /\ HasActiveReservation(row) <=> HasActiveReservation(db[t])
        /\ row.status = "absent" => db[t].status = "absent"
        /\ row = db[t] \/ (row.status = "running" /\ db[t].status = "accepted")
    BY <1>0 DEF MarkDispatched, HasActiveReservation, Row
  <2> HIDE DEF row
  <2>3. /\ db'[t] = row /\ \A u \in Tasks \ {t} : db'[u] = db[u]
        /\ disp'.todo[t] = "skip"
        /\ \A u \in Tasks \ {t} : disp'.todo[u] = disp.todo[u]
    BY <1>0, <2>1 DEF Update, Dispatching
  <2>4. QuietInv'
    BY <1>0, <2>1, <2>2, <2>3, QuietFrame DEF Spawned
  <2>5. StageOf(row) = StageOf(db[t])
    BY <2>2 DEF StageOf
  <2> QED
    BY <1>0, <2>1, <2>4, <2>5, StageKept
<1>9. ASSUME NEW t \in Tasks, DispatchFail(t) PROVE QuietInv' /\ PoolStep
  <2>1. /\ Update(t, CompleteTask(db[t], "failed")) /\ UNCHANGED shims
        /\ disp.todo[t] = "fail"
        /\ disp'.todo = [disp.todo EXCEPT ![t] = "persist"]
    BY <1>0, <1>9 DEF DispatchFail, DispatchIs, Dispatching
  <2>2. HasActiveReservation(db[t]) /\ \A a \in Attempts : ~Spawned(t, a)
    BY <1>0, <2>1 DEF QuietInv, SpawnsHold
  <2>3. /\ PoolStep
        /\ ~HasActiveReservation(db'[t]) /\ db'[t].status = "failed"
        /\ \A u \in Tasks \ {t} : db'[u] = db[u]
    BY <1>0, <2>1, <2>2, StageFinishes DEF Terminal
  <2>4. /\ disp'.todo[t] = "persist"
        /\ \A u \in Tasks \ {t} : disp'.todo[u] = disp.todo[u]
    BY <1>0, <2>1 DEF Dispatching
  <2>5. HoldersAccepted' /\ StartsAccepted'
    BY <1>0, <2>3, <2>4 DEF QuietInv, HoldersAccepted, StartsAccepted
  <2>6. SpawnsHold'
    BY <1>0, <2>1, <2>3, <2>4 DEF QuietInv, SpawnsHold, Spawned
  <2>7. ShimsHold'
    <3>1. \A a \in Attempts : shims[t][a].pc \notin Unended
      BY <2>2 DEF Spawned, Unended
    <3> QED
      BY <1>0, <2>1, <2>3, <3>1 DEF QuietInv, ShimsHold
  <2> QED
    BY <1>0, <2>3, <2>5, <2>6, <2>7 DEF QuietInv
<1> QED
  BY <1>2, <1>3, <1>4, <1>5, <1>6, <1>7, <1>8, <1>9 DEF Dispatcher, DispatchStep

LEMMA QuietShim ==
    ASSUME QuietContext, NEW t \in Tasks, NEW a \in Attempts,
           \/ ShimProcess(t, a) \/ ShimTimesOut(t, a) \/ ShimKills(t, a)
           \/ ShimCrash(t, a) \/ WorkloadExits(t, a)
    PROVE  QuietInv' /\ PoolStep
<1>0. /\ FirstRun /\ TypeInv /\ LivesInv /\ QuietInv /\ SupervisedInv
      /\ db \in [Tasks -> Row]
      /\ shims \in [Tasks -> [Attempts -> Shim]] /\ shims[t][a] \in Shim
  BY DEF QuietContext, KnownInv, TypeInv, TypeOK
<1>1. UNCHANGED disp
  BY DEF ShimProcess, ShimTimesOut, ShimKills, ShimCrash, WorkloadExits, ShimGet,
         ShimLaunch, ShimLaunchFails, ShimStarted, ShimReaps, ShimCompletes,
         ShimPersists, ShimWrites
<1>2. ASSUME NEW x, shims' = [shims EXCEPT ![t][a] = x], UNCHANGED db,
             x.pc \in Unended => shims[t][a].pc \in Unended,
             x.pc = "unborn" <=> shims[t][a].pc = "unborn"
      PROVE  QuietInv' /\ PoolStep
  <2>1. \A u \in Tasks, b \in Attempts :
          shims'[u][b] = IF u = t /\ b = a THEN x ELSE shims[u][b]
    BY <1>0, <1>2
  <2>2. \A u \in Tasks, b \in Attempts :
          /\ shims'[u][b].pc \in Unended => shims[u][b].pc \in Unended
          /\ Spawned(u, b)' <=> Spawned(u, b)
    BY <1>2, <2>1 DEF Spawned
  <2>3. QuietInv'
    BY <1>0, <1>1, <1>2, <2>2, QuietFrame
  <2> QED
    BY <1>2, <2>3, PoolFrame
<1> DEFINE s == shims[t][a]
<1>3. ASSUME NEW x, shims' = [shims EXCEPT ![t][a] = x], UNCHANGED db, x.pc = s.pc
      PROVE  QuietInv' /\ PoolStep
  BY <1>2, <1>3
<1>4. ASSUME NEW x, shims' = [shims EXCEPT ![t][a] = x], UNCHANGED db,
             s.pc \in Unended, x.pc \in Unended \cup {"gone"}
      PROVE  QuietInv' /\ PoolStep
  BY <1>2, <1>4 DEF Unended
<1>5. ASSUME NEW x, shims' = [shims EXCEPT ![t][a] = x], UNCHANGED db,
             s.pc \in Unended \cup Ended, x.pc \in Ended \cup {"gone", "dead"}
      PROVE  QuietInv' /\ PoolStep
  BY <1>2, <1>5 DEF Unended, Ended
<1>6. CASE ShimGet(t, a)
  <2>1. PICK p \in {"gone", "complete", "launch"}, o \in Status :
          shims' = [shims EXCEPT ![t][a] = [s EXCEPT !.pc = p, !.out = o]]
    <3>1. \A p : [s EXCEPT !.pc = p] = [s EXCEPT !.pc = p, !.out = s.out]
      BY <1>0 DEF Shim
    <3>2. s.out \in Status /\ "cancelled" \in Status
      BY <1>0 DEF Shim, Status, Terminal
    <3>3. CASE IsTerminal(db[t])
      <4>1. shims' = [shims EXCEPT ![t][a] = [s EXCEPT !.pc = "gone"]]
        BY <1>6, <3>3 DEF ShimGet
      <4> QED
        BY <3>1, <3>2, <4>1
    <3>4. CASE ~IsTerminal(db[t]) /\ db[t].kill /\ db[t].pg = 0
      <4>1. shims' = [shims EXCEPT ![t][a] =
                        [s EXCEPT !.pc = "complete", !.out = "cancelled"]]
        BY <1>6, <3>4 DEF ShimGet
      <4> QED
        BY <3>2, <4>1
    <3>5. CASE ~IsTerminal(db[t]) /\ ~(db[t].kill /\ db[t].pg = 0)
      <4>1. shims' = [shims EXCEPT ![t][a] = [s EXCEPT !.pc = "launch"]]
        BY <1>6, <3>5 DEF ShimGet
      <4> QED
        BY <3>1, <3>2, <4>1
    <3> QED
      BY <3>3, <3>4, <3>5
  <2>2. s.pc \in Unended /\ UNCHANGED db
    BY <1>6 DEF ShimGet, ShimIs, Unended
  <2>3. [s EXCEPT !.pc = p, !.out = o].pc \in Unended \cup {"gone"}
    BY <1>0 DEF Shim, Unended
  <2> QED
    BY <1>4, <2>1, <2>2, <2>3
<1>7. CASE ShimLaunch(t, a)
  <2>1. shims' = [shims EXCEPT ![t][a] = [s EXCEPT !.pc = "launched", !.work = "alive"]]
    BY <1>7 DEF ShimLaunch
  <2>2. s.pc \in Unended /\ UNCHANGED db
    BY <1>7 DEF ShimLaunch, ShimIs, Unended
  <2>3. [s EXCEPT !.pc = "launched", !.work = "alive"].pc \in Unended \cup {"gone"}
    BY <1>0 DEF Shim, Unended
  <2> QED
    BY <1>4, <2>1, <2>2, <2>3
<1>8. CASE ShimLaunchFails(t, a)
  <2>1. PICK w : shims' = [shims EXCEPT ![t][a] =
                     [s EXCEPT !.pc = "complete", !.work = w, !.out = "failed"]]
    BY <1>8 DEF ShimLaunchFails
  <2>2. s.pc \in Unended /\ UNCHANGED db
    BY <1>8 DEF ShimLaunchFails, ShimIs, Unended
  <2>3. [s EXCEPT !.pc = "complete", !.work = w, !.out = "failed"].pc \in Unended \cup {"gone"}
    BY <1>0 DEF Shim, Unended
  <2> QED
    BY <1>4, <2>1, <2>2, <2>3
<1>9. CASE ShimReaps(t, a)
  <2>1. PICK o : shims' = [shims EXCEPT ![t][a] =
                     [s EXCEPT !.pc = "complete", !.timeout = FALSE, !.out = o]]
    BY <1>9 DEF ShimReaps
  <2>2. s.pc \in Unended /\ UNCHANGED db
    BY <1>9 DEF ShimReaps, ShimIs, Unended
  <2>3. [s EXCEPT !.pc = "complete", !.timeout = FALSE, !.out = o].pc \in Unended \cup {"gone"}
    BY <1>0 DEF Shim, Unended
  <2> QED
    BY <1>4, <2>1, <2>2, <2>3
\* mark_started does not look at the status, but its shim holds the slot, so the row
\* is not terminal in the pool's eyes.
<1>10. CASE ShimStarted(t, a)
  <2> DEFINE row == MarkStarted(db[t], a)
  <2>1. Update(t, row) /\ s.pc = "launched"
        /\ shims' = [shims EXCEPT ![t][a].pc = "supervise"]
    BY <1>10 DEF ShimStarted, ShimIs, ShimGoes
  <2>2. HasActiveReservation(db[t])
    BY <1>0, <2>1 DEF QuietInv, ShimsHold, Unended
  <2>3. HasActiveReservation(row) /\ row.status = "running"
    BY <1>0, <2>2 DEF MarkStarted, HasActiveReservation, Row
  <2> HIDE DEF row
  <2>4. db'[t] = row /\ \A u \in Tasks \ {t} : db'[u] = db[u]
    BY <1>0, <2>1 DEF Update
  <2>5. \A u \in Tasks, b \in Attempts :
          /\ shims'[u][b].pc \in Unended => shims[u][b].pc \in Unended
          /\ Spawned(u, b)' <=> Spawned(u, b)
    <3>1. shims'[t][a].pc = "supervise"
      BY <1>0, <2>1 DEF Shim
    <3>2. \A u \in Tasks, b \in Attempts :
            (u # t \/ b # a) => shims'[u][b] = shims[u][b]
      BY <1>0, <2>1
    <3> QED
      BY <2>1, <3>1, <3>2 DEF Spawned, Unended
  <2>6. disp.todo[t] # "start"
    <3>1. Spawned(t, a)
      BY <2>1 DEF Spawned
    <3> QED
      BY <1>0, <3>1, OneShim
  <2>7. QuietInv'
    BY <1>0, <1>1, <2>2, <2>3, <2>4, <2>5, <2>6, QuietFrame
  <2>8. StageOf(row) = StageOf(db[t])
    BY <2>2, <2>3 DEF StageOf
  <2> QED
    BY <1>0, <2>1, <2>7, <2>8, StageKept
<1>11. CASE ShimCompletes(t, a)
  <2> DEFINE x == [s EXCEPT !.pc = "persist", !.out = "absent"]
  <2>1. Update(t, CompleteTask(db[t], s.out)) /\ s.pc = "complete"
        /\ shims' = [shims EXCEPT ![t][a] = x]
    BY <1>11 DEF ShimCompletes, ShimIs
  <2>2. s.out \in Terminal
    BY <1>0, <2>1 DEF SupervisedInv, VerdictIsTerminal
  <2>3. HasActiveReservation(db[t]) /\ Spawned(t, a)
    BY <1>0, <2>1 DEF QuietInv, ShimsHold, Unended, Spawned
  <2>4. /\ PoolStep
        /\ ~HasActiveReservation(db'[t]) /\ db'[t].status = s.out
        /\ \A u \in Tasks \ {t} : db'[u] = db[u]
    BY <1>0, <2>1, <2>2, <2>3, StageFinishes
  <2>5. x.pc = "persist"
    BY <1>0 DEF Shim
  <2> HIDE DEF x
  <2>6. \A u \in Tasks, b \in Attempts :
          shims'[u][b] = IF u = t /\ b = a THEN x ELSE shims[u][b]
    BY <1>0, <2>1
  \* No other shim of t is there to lose the slot.
  <2>7. /\ \A b \in Attempts : Spawned(t, b) => b = a
        /\ disp.todo[t] \notin {"start", "spawn", "fail"}
    BY <1>0, <2>3, OneShim DEF QuietInv, SpawnsHold
  <2>8. HoldersAccepted' /\ StartsAccepted'
    BY <1>0, <1>1, <2>4, <2>7 DEF QuietInv, HoldersAccepted, StartsAccepted
  <2>9. SpawnsHold'
    BY <1>0, <1>1, <2>4, <2>6, <2>7 DEF QuietInv, SpawnsHold, Spawned
  <2>10. ShimsHold'
    <3>1. \A b \in Attempts : shims'[t][b].pc \notin Unended
      BY <2>5, <2>6, <2>7 DEF Spawned, Unended
    <3> QED
      BY <1>0, <2>4, <2>6, <3>1 DEF QuietInv, ShimsHold
  <2> QED
    BY <1>0, <1>1, <2>4, <2>8, <2>9, <2>10 DEF QuietInv
<1>12. CASE ShimPersists(t, a)
  <2>1. PICK o : shims' = [shims EXCEPT ![t][a] = [s EXCEPT !.pc = "write", !.out = o]]
    BY <1>12 DEF ShimPersists
  <2>2. s.pc \in Ended /\ UNCHANGED db
    BY <1>12 DEF ShimPersists, ShimIs, Ended
  <2>3. [s EXCEPT !.pc = "write", !.out = o].pc \in Ended
    BY <1>0 DEF Shim, Ended
  <2> QED
    BY <1>5, <2>1, <2>2, <2>3
<1>13. CASE ShimWrites(t, a)
  <2>1. shims' = [shims EXCEPT ![t][a] = [s EXCEPT !.pc = "gone", !.out = "absent"]]
    BY <1>13 DEF ShimWrites
  <2>2. s.pc \in Ended /\ UNCHANGED db
    BY <1>13 DEF ShimWrites, ShimIs, Ended
  <2>3. [s EXCEPT !.pc = "gone", !.out = "absent"].pc = "gone"
    BY <1>0 DEF Shim
  <2> QED
    BY <1>5, <2>1, <2>2, <2>3
<1>14. CASE ShimCrash(t, a)
  <2>1. shims' = [shims EXCEPT ![t][a] =
                    [s EXCEPT !.pc = "dead", !.timeout = FALSE, !.out = "absent"]]
    BY <1>14 DEF ShimCrash
  <2>2. s.pc \in Unended \cup Ended /\ UNCHANGED db
    BY <1>14 DEF ShimCrash, ProcessExists
  <2>3. [s EXCEPT !.pc = "dead", !.timeout = FALSE, !.out = "absent"].pc = "dead"
    BY <1>0 DEF Shim
  <2> QED
    BY <1>5, <2>1, <2>2, <2>3
<1>15. CASE ShimTimesOut(t, a)
  <2>1. shims' = [shims EXCEPT ![t][a] = [s EXCEPT !.timeout = TRUE]] /\ UNCHANGED db
    BY <1>0, <1>15 DEF ShimTimesOut
  <2>2. [s EXCEPT !.timeout = TRUE].pc = s.pc
    BY <1>0 DEF Shim
  <2> QED
    BY <1>3, <2>1, <2>2
<1>16. CASE ShimKills(t, a) \/ WorkloadExits(t, a)
  <2>1. PICK w : shims' = [shims EXCEPT ![t][a] = [s EXCEPT !.work = w]]
    BY <1>0, <1>16 DEF ShimKills, WorkloadExits
  <2>2. [s EXCEPT !.work = w].pc = s.pc /\ UNCHANGED db
    BY <1>0, <1>16 DEF Shim, ShimKills, WorkloadExits
  <2> QED
    BY <1>3, <2>1, <2>2
<1> QED
  BY <1>6, <1>7, <1>8, <1>9, <1>10, <1>11, <1>12, <1>13, <1>14, <1>15, <1>16
  DEF ShimProcess

LEMMA QuietSubmit ==
    ASSUME QuietContext, NEW t \in Tasks, Submit(t)
    PROVE  QuietInv' /\ PoolStep
<1> DEFINE n == 1 + Cardinality({u \in Tasks : db[u].status # "absent"})
<1>0. TypeInv /\ QuietInv /\ db \in [Tasks -> Row]
  BY DEF QuietContext, KnownInv, TypeInv, TypeOK
<1>1. /\ Update(t, InsertTask(n)) /\ UNCHANGED <<disp, shims>>
      /\ db[t].status = "absent"
  BY DEF Submit
<1>2. InsertTask(n).status = "accepted" /\ ~HasActiveReservation(InsertTask(n))
  BY DEF InsertTask, NoRow, HasActiveReservation
<1>3. StageOf(InsertTask(n)) = "waiting"
  BY <1>2 DEF StageOf
<1> HIDE DEF n
<1>4. ~HasActiveReservation(db[t])
  BY <1>0, <1>1 DEF QuietInv, HoldersAccepted
<1>5. StageOf(db[t]) = "absent"
  BY <1>0, <1>1, <1>4, StageOfHolder
<1>6. Stages[t] = "absent" /\ Stages' = [Stages EXCEPT ![t] = "waiting"]
  BY <1>0, <1>1, <1>3, <1>5, StageMoves
<1>7. Pool!Enter(t)
  BY <1>6 DEF Pool!Enter, Pool!Moves, Stages
<1>8. db'[t] = InsertTask(n) /\ \A u \in Tasks \ {t} : db'[u] = db[u]
  BY <1>0, <1>1 DEF Update
<1>9. QuietInv'
  BY <1>0, <1>1, <1>2, <1>4, <1>8, QuietFrame DEF Spawned
<1> QED
  BY <1>7, <1>9 DEF PoolStep, Pool!Next

LEMMA QuietInit == Init => QuietInv
  BY DEF Init, QuietInv, HoldersAccepted, StartsAccepted, SpawnsHold, ShimsHold, NoRow,
         Idle, NoShim, Unended, HasActiveReservation

\* QuietInv is inductive while the first run lasts, and each step is one of the pool.
LEMMA QuietNext ==
    ASSUME Killers = {}
    PROVE  QuietContext /\ [Next]_vars => PoolStep /\ (FirstRun' => QuietInv')
<1> SUFFICES ASSUME QuietContext, [Next]_vars PROVE PoolStep /\ QuietInv'
  OBVIOUS
<1>0. FirstRun /\ TypeInv /\ LivesInv /\ QuietInv
  BY DEF QuietContext, KnownInv
<1>1. CASE UNCHANGED vars
  <2>1. QuietInv'
    BY <1>0, <1>1 DEF vars, QuietInv, HoldersAccepted, StartsAccepted,
                      SpawnsHold, ShimsHold, Spawned
  <2> QED
    BY <1>1, <2>1, PoolFrame DEF vars
<1>2. CASE Crash \/ Restart
  <2>1. UNCHANGED <<db, shims>>
    BY <1>2 DEF Crash, Restart
  <2>2. \A t \in Tasks : disp'.todo[t] = "skip" \/ disp'.todo[t] = disp.todo[t]
    BY <1>2 DEF Crash, Restart, Idle
  <2>3. QuietInv'
    BY <1>0, <2>1, <2>2, QuietFrame DEF Spawned
  <2> QED
    BY <2>1, <2>3, PoolFrame
<1>3. CASE RecoverEnd \/ \E t \in Tasks : RecoverStep(t)
  <2>1. server.phase = "recovering"
    BY <1>3 DEF RecoverEnd, RecoverStep, RecoverRelease, RecoverProbe, RecoverReserve,
                RecoverLose, RecoverPersist, RecoverWrite, Recovers, RecoverIs
  <2>2. server.phase \in {"up", "down"}
    BY DEF FirstRun, QuietContext, KnownInv, SlotsInv
  <2> QED
    BY <2>1, <2>2
<1>4. CASE Next /\ ~(Crash \/ Recovery)
  BY <1>4, QuietDispatch, QuietShim, QuietSubmit DEF Next
<1> QED
  BY <1>1, <1>2, <1>3, <1>4 DEF Recovery

LEMMA KnownInit == Init => KnownInv
  BY TypeInvInit, SupervisedInit, LivesInit, SlotsInit, BalanceInit DEF KnownInv

LEMMA KnownNext ==
    ASSUME Killers = {}
    PROVE  KnownInv /\ [Next]_vars => KnownInv'
  BY TypeInvNext, SupervisedNext, LivesNext, SlotsNext, BalanceNext DEF KnownInv

\* The first run ends for good.
LEMMA FirstRunNext ==
    ASSUME KnownInv, [Next]_vars, FirstRun'
    PROVE  FirstRun
<1>1. TypeInv /\ server.life \in Nat
  BY BoundsAssumption DEF KnownInv, TypeInv, TypeOK
<1>2. CASE Crash
  <2>1. server'.life = server.life + 1
    BY <1>2 DEF Crash
  <2>2. server'.life \in {0, 1}
    BY DEF FirstRun
  <2>3. server.life = 0
    BY <1>1, <2>1, <2>2
  <2> QED
    BY <2>3 DEF FirstRun
<1>3. CASE Recovery
  <2>1. CASE server'.life = 0
    BY <1>1, <1>3, <2>1, RecoveryAlone DEF FirstRun
  <2>2. CASE server'.phase = "down"
    <3>1. server'.phase # "down"
      BY <1>1, <1>3
      DEF Recovery, Restart, RecoverEnd, RecoverStep, RecoverRelease, RecoverProbe,
          RecoverReserve, RecoverLose, RecoverPersist, RecoverWrite, Recovers, RecoverIs,
          TypeInv, TypeOK
    <3> QED
      BY <2>2, <3>1
  <2> QED
    BY <2>1, <2>2 DEF FirstRun
<1>4. CASE UNCHANGED vars
  BY <1>4 DEF vars, FirstRun
<1>5. CASE Next /\ ~Crash /\ ~Recovery
  BY <1>1, <1>5, ServerKept DEF FirstRun
<1> QED
  BY <1>2, <1>3, <1>4, <1>5

QuietSoFar == KnownInv /\ (FirstRun => QuietInv)

LEMMA QuietAlways ==
    ASSUME Killers = {}
    PROVE  /\ Init => QuietSoFar
           /\ QuietSoFar /\ [Next]_vars => QuietSoFar'
<1>1. Init => QuietSoFar
  BY KnownInit, QuietInit DEF QuietSoFar
<1>2. QuietSoFar /\ [Next]_vars => QuietSoFar'
  BY KnownNext, FirstRunNext, QuietNext DEF QuietSoFar, QuietContext
<1> QED
  BY <1>1, <1>2

\* Without kills and crashes of the server the rows implement the pool of slots: a
\* task waits, takes a slot that is free, once, keeps it until the step that ends
\* it, and its verdict is final.  Crashes of shims, spawns that fail and cycles of
\* the dispatcher that end early are allowed for.
THEOREM RowsImplementSlotPool ==
    ASSUME Killers = {}, MaxCrashes = 0
    PROVE  Spec => ImplementsSlotPool
<1>1. Init => Pool!Init
  BY DEF Init, Pool!Init, NoRow, StageOf, HasActiveReservation, Terminal
<1>2. QuietSoFar /\ [Next]_vars => [Pool!Next]_([t \in Tasks |-> StageOf(db[t])])
  <2>1. QuietSoFar => QuietContext
    BY DEF QuietSoFar, QuietContext, FirstRun, KnownInv, TypeInv, TypeOK
  <2> QED
    BY <2>1, QuietNext DEF PoolStep, Stages
<1> QED
  BY <1>1, <1>2, QuietAlways, PTL DEF Spec, ImplementsSlotPool, Pool!Spec

-----------------------------------------------------------------------------
(* The slots over a crash *)

\* A running row holds its slot, so that the recovery pass after the first crash
\* does not find one to be rebuilt.
RunningHolds == \A t \in Tasks : db[t].status = "running" => HasActiveReservation(db[t])

NothingToRebuild == \A t \in Tasks : recov.todo[t] \notin {"reprobe", "reserve"}

OnceInv == /\ FirstRun => RunningHolds
           /\ server.life <= 1 => SlotsHold /\ NothingToRebuild

LEMMA RunningHoldsUpdate ==
    ASSUME TypeInv, RunningHolds, NEW t \in Tasks, NEW row, Update(t, row),
           row.status = "running" => HasActiveReservation(row)
    PROVE  RunningHolds'
  BY DEF TypeInv, TypeOK, Update, RunningHolds

\* mark_dispatched and mark_started find the slot their task took before the spawn.
LEMMA RunningHoldsNext ==
    ASSUME Killers = {}, QuietContext, RunningHolds, [Next]_vars, FirstRun'
    PROVE  RunningHolds'
<1>0. /\ FirstRun /\ TypeInv /\ SupervisedInv /\ LivesInv /\ SlotsInv /\ BalanceInv
      /\ QuietInv
      /\ \A t \in Tasks : db[t] \in Row
  BY DEF QuietContext, KnownInv, TypeInv, TypeOK
<1>1. CASE UNCHANGED db
  BY <1>1 DEF RunningHolds
<1>2. ASSUME NEW t \in Tasks, NEW row, Update(t, row),
             row.status = "running" => HasActiveReservation(row)
      PROVE  RunningHolds'
  BY <1>0, <1>2, RunningHoldsUpdate
<1>3. ASSUME NEW t \in Tasks, Submit(t) PROVE RunningHolds'
  <2>1. \A n : InsertTask(n).status = "accepted"
    BY DEF InsertTask, NoRow
  <2> QED
    BY <1>2, <1>3, <2>1 DEF Submit
<1>4. ASSUME NEW t \in Tasks, DispatchStep(t) PROVE RunningHolds'
  <2>1. CASE DispatchCancel(t)
    BY <1>0, <2>1 DEF DispatchCancel, BalanceInv, NoKills
  <2>2. CASE DispatchReserve(t)
    <3>1. HasActiveReservation(ReserveResources(db[t]))
      BY <1>0 DEF ReserveResources, HasActiveReservation, Row
    <3> QED
      BY <1>2, <2>2, <3>1 DEF DispatchReserve
  <2>3. CASE DispatchMark(t)
    <3>1. PICK a \in Attempts : Spawned(t, a)
      BY <1>0, <2>3 DEF DispatchMark, DispatchIs, SupervisedInv, MarksSpawned, Spawned
    <3>2. Up /\ server.life = 0
      BY <1>0, <2>3 DEF DispatchMark, FirstRun, Up
    <3>3. SpawnedNow(t)
      BY <1>0, <3>1, <3>2, BoundsAssumption
      DEF LivesInv, LivesPast, SpawnedNow, TypeInv, TypeOK, Shim
    <3>4. db[t].status = "accepted" => HasActiveReservation(db[t])
      BY <1>0, <3>3 DEF LivesInv, SpawnedHolds
    <3>5. LET row == MarkDispatched(db[t], disp.pid)
          IN  row.status = "running" => HasActiveReservation(row)
      BY <1>0, <3>4 DEF MarkDispatched, HasActiveReservation, Row, RunningHolds
    <3> QED
      BY <1>2, <2>3, <3>5 DEF DispatchMark
  <2>4. CASE DispatchFail(t)
    <3>1. CompleteTask(db[t], "failed").status = "failed"
      BY <1>0 DEF CompleteTask, Row
    <3> QED
      BY <1>2, <2>4, <3>1 DEF DispatchFail
  <2>5. CASE DispatchPass(t) \/ DispatchSpawn(t) \/ DispatchSpawnFails(t)
             \/ DispatchPersist(t) \/ DispatchWrite(t)
    BY <1>1, <2>5 DEF DispatchPass, DispatchSpawn, DispatchSpawnFails, DispatchPersist,
                      DispatchWrite
  <2> QED
    BY <1>4, <2>1, <2>2, <2>3, <2>4, <2>5 DEF DispatchStep
<1>5. ASSUME NEW t \in Tasks, NEW a \in Attempts, ShimStarted(t, a) PROVE RunningHolds'
  <2>1. HasActiveReservation(db[t])
    BY <1>0, <1>5 DEF ShimStarted, ShimIs, QuietInv, ShimsHold, Unended
  <2>2. HasActiveReservation(MarkStarted(db[t], a))
    BY <1>0, <2>1 DEF MarkStarted, HasActiveReservation, Row
  <2> QED
    BY <1>2, <1>5, <2>2 DEF ShimStarted
<1>6. ASSUME NEW t \in Tasks, NEW a \in Attempts, ShimCompletes(t, a) PROVE RunningHolds'
  <2>1. shims[t][a].out \in Terminal
    BY <1>0, <1>6 DEF ShimCompletes, ShimIs, SupervisedInv, VerdictIsTerminal
  <2>2. CompleteTask(db[t], shims[t][a].out).status # "running"
    BY <1>0, <2>1 DEF CompleteTask, Row, Terminal
  <2> QED
    BY <1>2, <1>6, <2>2 DEF ShimCompletes
<1>7. ASSUME NEW t \in Tasks, NEW a \in Attempts,
             \/ ShimGet(t, a) \/ ShimLaunch(t, a) \/ ShimLaunchFails(t, a)
             \/ ShimReaps(t, a) \/ ShimPersists(t, a) \/ ShimWrites(t, a)
             \/ ShimTimesOut(t, a) \/ ShimKills(t, a) \/ ShimCrash(t, a)
             \/ WorkloadExits(t, a)
      PROVE  RunningHolds'
  BY <1>1, <1>7 DEF ShimGet, ShimLaunch, ShimLaunchFails, ShimReaps, ShimPersists,
     ShimWrites, ShimTimesOut, ShimKills, ShimCrash, WorkloadExits
<1>8. CASE DispatchCount \/ DispatchList \/ DispatchEnd \/ DispatchAbort \/ Crash \/ Restart
  BY <1>1, <1>8 DEF DispatchCount, DispatchList, DispatchEnd, DispatchAbort, Crash, Restart
<1>9. CASE RecoverEnd \/ \E t \in Tasks : RecoverStep(t)
  <2>1. server.phase = "recovering"
    BY <1>9 DEF RecoverEnd, RecoverStep, RecoverRelease, RecoverProbe, RecoverReserve,
                RecoverLose, RecoverPersist, RecoverWrite, Recovers, RecoverIs
  <2>2. server.phase \in {"up", "down"}
    BY <1>0 DEF FirstRun, SlotsInv
  <2> QED
    BY <2>1, <2>2
<1>10. CASE UNCHANGED vars
  BY <1>1, <1>10 DEF vars
<1> QED
  BY <1>3, <1>4, <1>5, <1>6, <1>7, <1>8, <1>9, <1>10
  DEF Next, Dispatcher, ShimProcess, Recovery

\* The recovery pass only gives reservations back.
LEMMA OnceRecovery ==
    ASSUME QuietSoFar, OnceInv, server.life <= 1, Recovery
    PROVE  SlotsHold' /\ NothingToRebuild'
<1>0. /\ TypeInv /\ SlotsHold /\ NothingToRebuild
      /\ recov \in Recovering /\ db \in [Tasks -> Row]
      /\ server.life \in Nat
  BY BoundsAssumption DEF QuietSoFar, KnownInv, TypeInv, TypeOK, OnceInv
<1>1. disp' = disp
  BY <1>0, RecoveryAlone
<1>2. ASSUME UNCHANGED db PROVE SlotsHold'
  BY <1>0, <1>1, <1>2, SlotsFrame
<1>3. ASSUME NEW t \in Tasks, NEW row, Update(t, row),
             HasActiveReservation(row) => HasActiveReservation(db[t])
      PROVE  SlotsHold'
  BY <1>0, <1>1, <1>3, SlotsUpdate, SlotsFrame
<1>4. CASE Restart
  <2>1. server.phase = "down" /\ server.life = 1
    BY <1>0, <1>4 DEF Restart, QuietSoFar, KnownInv, SlotsInv
  <2>2. RunningHolds
    BY <2>1 DEF FirstRun, OnceInv
  <2>3. \A t \in Tasks : recov'.todo[t] = RecoverOf(db[t])
    BY <1>0, <1>4 DEF Restart, Recovering
  <2>4. \A t \in Tasks : RecoverOf(db[t]) \notin {"reprobe", "reserve"}
    BY <2>2 DEF RunningHolds, RecoverOf
  <2> QED
    BY <1>2, <1>4, <2>3, <2>4 DEF Restart, NothingToRebuild
<1>5. CASE RecoverEnd
  BY <1>0, <1>2, <1>5 DEF RecoverEnd, NothingToRebuild
<1>6. ASSUME NEW t \in Tasks, RecoverStep(t) PROVE SlotsHold' /\ NothingToRebuild'
  <2>1. ASSUME NEW step, step # "reprobe", step # "reserve",
               recov'.todo = [recov.todo EXCEPT ![t] = step]
        PROVE  NothingToRebuild'
    BY <1>0, <2>1 DEF NothingToRebuild, Recovering
  <2>2. ASSUME NEW step, step # "reprobe", step # "reserve", RecoverGoes(t, step)
        PROVE  NothingToRebuild'
    <3>1. recov'.todo = [recov.todo EXCEPT ![t] = step]
      BY <1>0, <2>2 DEF RecoverGoes, Recovering
    <3> QED
      BY <2>1, <2>2, <3>1
  <2>3. CASE RecoverRelease(t)
    <3>1. HasActiveReservation(ReleaseResources(db[t])) => HasActiveReservation(db[t])
      BY DEF ReleaseResources
    <3>2. Update(t, ReleaseResources(db[t])) /\ RecoverGoes(t, "skip")
      BY <2>3 DEF RecoverRelease
    <3>3. SlotsHold'
      BY <1>3, <3>1, <3>2
    <3>4. NothingToRebuild'
      BY <2>2, <3>2
    <3> QED
      BY <3>3, <3>4
  <2>4. CASE RecoverProbe(t)
    <3>1. recov.todo[t] = "probe"
      BY <1>0, <2>4 DEF RecoverProbe, NothingToRebuild
    <3>2. PICK step \in {"lose", "skip"} : RecoverGoes(t, step)
      BY <2>4, <3>1 DEF RecoverProbe
    <3> QED
      BY <1>2, <2>2, <2>4, <3>2 DEF RecoverProbe
  <2>5. CASE RecoverReserve(t)
    BY <1>0, <2>5 DEF RecoverReserve, RecoverIs, NothingToRebuild
  <2>6. CASE RecoverLose(t)
    <3>1. "failed" \in Status
      BY DEF Status, Terminal
    <3>2. HasActiveReservation(MarkRecoveryLost(db[t])) => HasActiveReservation(db[t])
      BY <1>0, <3>1, TransactionReservation DEF MarkRecoveryLost
    <3>3. Update(t, MarkRecoveryLost(db[t])) /\ RecoverGoes(t, "persist")
      BY <2>6 DEF RecoverLose
    <3>4. SlotsHold'
      BY <1>3, <3>2, <3>3
    <3>5. NothingToRebuild'
      BY <2>2, <3>3
    <3> QED
      BY <3>4, <3>5
  <2>7. CASE RecoverPersist(t)
    <3>1. recov'.todo = [recov.todo EXCEPT ![t] = "write"]
      BY <1>0, <2>7 DEF RecoverPersist, Recovering
    <3> QED
      BY <1>2, <2>1, <2>7, <3>1 DEF RecoverPersist
  <2>8. CASE RecoverWrite(t)
    <3>1. recov'.todo = [recov.todo EXCEPT ![t] = "skip"]
      BY <1>0, <2>8 DEF RecoverWrite, Recovering
    <3> QED
      BY <1>2, <2>1, <2>8, <3>1 DEF RecoverWrite
  <2> QED
    BY <1>6, <2>3, <2>4, <2>5, <2>6, <2>7, <2>8 DEF RecoverStep
<1> QED
  BY <1>4, <1>5, <1>6 DEF Recovery

LEMMA OnceInit == Init => OnceInv
<1> SUFFICES ASSUME Init PROVE OnceInv
  OBVIOUS
<1>1. SlotsHold
  BY SlotsInit DEF Init, SlotsInv
<1>2. RunningHolds /\ NothingToRebuild
  BY DEF Init, RunningHolds, NothingToRebuild, NoRow, NoRecovery
<1> QED
  BY <1>1, <1>2 DEF OnceInv

LEMMA OnceNext ==
    ASSUME Killers = {}
    PROVE  QuietSoFar /\ OnceInv /\ [Next]_vars => OnceInv'
<1> SUFFICES ASSUME QuietSoFar, OnceInv, [Next]_vars PROVE OnceInv'
  OBVIOUS
<1>0. TypeInv /\ KnownInv /\ server.life \in Nat
  BY BoundsAssumption DEF QuietSoFar, KnownInv, TypeInv, TypeOK
<1>1. FirstRun' => RunningHolds'
  BY <1>0, FirstRunNext, RunningHoldsNext DEF QuietSoFar, QuietContext, OnceInv
<1>2. ASSUME server'.life <= 1 PROVE SlotsHold' /\ NothingToRebuild'
  <2>1. CASE UNCHANGED vars
    BY <1>2, <2>1 DEF vars, OnceInv, SlotsHold, CountCovers, WithinSlots, Reserved,
                      Pending, NothingToRebuild
  <2>2. CASE Crash
    <3>1. SlotsHold /\ disp' = Idle /\ UNCHANGED db /\ recov' = NoRecovery
      BY <1>0, <1>2, <2>2 DEF Crash, OnceInv
    <3> QED
      BY <3>1 DEF Idle, NoRecovery, SlotsHold, CountCovers, WithinSlots, Reserved,
                  NothingToRebuild
  <2>3. CASE Recovery
    BY <1>0, <1>2, <2>3, RecoveryAlone, OnceRecovery
  <2>4. CASE Next /\ ~Crash /\ ~Recovery
    BY <1>0, <1>2, <2>4, ServerKept, SlotsStep DEF OnceInv, NothingToRebuild
  <2> QED
    BY <2>1, <2>2, <2>3, <2>4
<1> QED
  BY <1>1, <1>2 DEF OnceInv

\* Without kills the slots are respected over a crash of the server, the recovery pass
\* after it and all that follows until a second one, whatever crashes of shims and
\* errors of cycles there are: recover only rebuilds the reservation of a running row
\* that has none, and before the first crash there is no such row.
THEOREM SlotsRespectedOverCrash ==
    ASSUME Killers = {}
    PROVE  Spec => []SlotsRespected
<1>1. OnceInv => SlotsRespected
  BY DEF OnceInv, SlotsHold, WithinSlots, SlotsRespected
<1> QED
  BY <1>1, QuietAlways, OnceInit, OnceNext, PTL DEF Spec

-----------------------------------------------------------------------------
(* Workloads *)

\* A workload is there from ShimLaunch on; when it outlives the slot of its task, that
\* is because its launch failed.
WorkInv ==
    \A t \in Tasks, a \in Attempts :
        /\ shims[t][a].pc \in {"unborn", "init", "launch"} => shims[t][a].work = "none"
        /\ shims[t][a].pc = "complete" /\ shims[t][a].work = "alive"
              => shims[t][a].out = "failed"
        /\ shims[t][a].work = "alive" /\ ~HasActiveReservation(db[t])
              => db[t].status = "failed"

LEMMA WorkInit == Init => WorkInv
  BY DEF Init, WorkInv, NoShim

\* A step that leaves the shims alone, and no row without its slot unless it had none
\* and says failed as before, or is a row without workload.
LEMMA WorkRows ==
    ASSUME WorkInv, UNCHANGED shims,
           \A t \in Tasks :
             \/ HasActiveReservation(db'[t])
             \/ /\ ~HasActiveReservation(db[t])
                /\ db[t].status = "failed" => db'[t].status = "failed"
             \/ \A a \in Attempts : shims[t][a].work # "alive"
    PROVE  WorkInv'
  BY DEF WorkInv

\* What a shim does to itself.
LEMMA WorkShim ==
    ASSUME WorkInv, NEW t \in Tasks, NEW a \in Attempts, UNCHANGED db,
           \A u \in Tasks, b \in Attempts :
             u # t \/ b # a => shims'[u][b] = shims[u][b],
           LET s == shims'[t][a]
           IN  /\ s.pc \in {"unborn", "init", "launch"} => s.work = "none"
               /\ s.pc = "complete" /\ s.work = "alive" => s.out = "failed"
               /\ s.work = "alive"
                     => shims[t][a].work = "alive" \/ HasActiveReservation(db[t])
    PROVE  WorkInv'
<1> SUFFICES ASSUME NEW u \in Tasks, NEW b \in Attempts
             PROVE  /\ shims'[u][b].pc \in {"unborn", "init", "launch"}
                          => shims'[u][b].work = "none"
                    /\ shims'[u][b].pc = "complete" /\ shims'[u][b].work = "alive"
                          => shims'[u][b].out = "failed"
                    /\ shims'[u][b].work = "alive" /\ ~HasActiveReservation(db[u])
                          => db[u].status = "failed"
  BY DEF WorkInv
<1>1. CASE u = t /\ b = a
  BY <1>1 DEF WorkInv
<1>2. CASE u # t \/ b # a
  BY <1>2 DEF WorkInv
<1> QED
  BY <1>1, <1>2

\* A shim, and the workload it started.
LEMMA WorkShimStep ==
    ASSUME Killers = {}, QuietContext, WorkInv, NEW t \in Tasks, NEW a \in Attempts,
           \/ ShimProcess(t, a) \/ ShimTimesOut(t, a) \/ ShimKills(t, a)
           \/ ShimCrash(t, a) \/ WorkloadExits(t, a)
    PROVE  WorkInv'
<1>0. /\ shims \in [Tasks -> [Attempts -> Shim]] /\ db \in [Tasks -> Row]
      /\ shims[t][a] \in Shim /\ ShimsHold
      /\ FirstRun /\ TypeInv /\ LivesInv
  BY DEF QuietContext, KnownInv, QuietInv, TypeInv, TypeOK
<1>1. CASE ShimStarted(t, a)
  <2>1. shims[t][a].pc = "launched" /\ HasActiveReservation(db[t])
    BY <1>0, <1>1 DEF ShimStarted, ShimIs, ShimsHold, Unended
  <2>2. /\ db'[t] = MarkStarted(db[t], a)
        /\ \A u \in Tasks \ {t} : db'[u] = db[u]
    BY <1>0, <1>1 DEF ShimStarted, Update
  <2>3. HasActiveReservation(db'[t])
    BY <1>0, <2>1, <2>2 DEF MarkStarted, HasActiveReservation, Row
  <2>4. \A u \in Tasks, b \in Attempts :
          shims'[u][b] = IF u = t /\ b = a THEN [shims[t][a] EXCEPT !.pc = "supervise"]
                                          ELSE shims[u][b]
    BY <1>0, <1>1 DEF ShimStarted, ShimGoes
  <2>5. \A u \in Tasks, b \in Attempts :
          /\ shims'[u][b].work = shims[u][b].work /\ shims'[u][b].out = shims[u][b].out
          /\ shims'[u][b].pc = shims[u][b].pc \/ shims'[u][b].pc = "supervise"
    BY <1>0, <2>4 DEF Shim
  <2> QED
    BY <2>2, <2>3, <2>5 DEF WorkInv
<1>2. CASE ShimCompletes(t, a)
  <2>1. /\ shims[t][a].pc = "complete"
        /\ db'[t] = CompleteTask(db[t], shims[t][a].out)
        /\ \A u \in Tasks \ {t} : db'[u] = db[u]
    BY <1>0, <1>2 DEF ShimCompletes, ShimIs, Update
  <2>2. \A u \in Tasks, b \in Attempts :
          /\ shims'[u][b].work = shims[u][b].work
          /\ shims'[u][b] = shims[u][b] \/ shims'[u][b].pc = "persist"
    BY <1>0, <1>2 DEF ShimCompletes, Shim
  <2>3. ASSUME NEW b \in Attempts, shims[t][b].work = "alive"
        PROVE  db'[t].status = "failed"
    <3>1. Spawned(t, a) /\ Spawned(t, b)
      BY <2>1, <2>3 DEF WorkInv, Spawned
    <3>2. a = b
      BY <1>0, <3>1, OneShim
    <3>3. shims[t][a].out = "failed"
      BY <2>1, <2>3, <3>2 DEF WorkInv
    <3> QED
      BY <1>0, <2>1, <3>3 DEF CompleteTask, Row
  <2> QED
    BY <2>1, <2>2, <2>3 DEF WorkInv
<1>3. CASE ShimGet(t, a)
  <2>1. /\ shims'[t][a].work = shims[t][a].work /\ shims[t][a].pc = "init"
        /\ \A u \in Tasks, b \in Attempts : u # t \/ b # a => shims'[u][b] = shims[u][b]
    BY <1>0, <1>3 DEF ShimGet, ShimIs, Shim
  <2>2. shims'[t][a].work = "none"
    BY <2>1 DEF WorkInv
  <2> QED
    BY <1>3, <2>1, <2>2, WorkShim DEF ShimGet
<1>4. CASE ShimLaunch(t, a)
  <2>1. /\ shims'[t][a].pc = "launched" /\ UNCHANGED db
        /\ \A u \in Tasks, b \in Attempts : u # t \/ b # a => shims'[u][b] = shims[u][b]
    BY <1>0, <1>4 DEF ShimLaunch, Shim
  <2>2. HasActiveReservation(db[t])
    BY <1>0, <1>4 DEF ShimLaunch, ShimIs, ShimsHold, Unended
  <2> QED
    BY <2>1, <2>2, WorkShim
<1>5. CASE ShimLaunchFails(t, a)
  <2>1. /\ shims'[t][a].pc = "complete" /\ shims'[t][a].out = "failed" /\ UNCHANGED db
        /\ \A u \in Tasks, b \in Attempts : u # t \/ b # a => shims'[u][b] = shims[u][b]
    BY <1>0, <1>5 DEF ShimLaunchFails, Shim
  <2>2. HasActiveReservation(db[t])
    BY <1>0, <1>5 DEF ShimLaunchFails, ShimIs, ShimsHold, Unended
  <2> QED
    BY <2>1, <2>2, WorkShim
<1>6. CASE ShimReaps(t, a)
  <2>1. /\ shims'[t][a].pc = "complete" /\ shims'[t][a].work # "alive" /\ UNCHANGED db
        /\ \A u \in Tasks, b \in Attempts : u # t \/ b # a => shims'[u][b] = shims[u][b]
    BY <1>0, <1>6 DEF ShimReaps, Shim
  <2> QED
    BY <2>1, WorkShim
<1>7. CASE ShimKills(t, a) \/ WorkloadExits(t, a)
  <2>1. /\ shims'[t][a].pc = shims[t][a].pc /\ shims'[t][a].work # "alive"
        /\ shims[t][a].work = "alive" /\ UNCHANGED db
        /\ \A u \in Tasks, b \in Attempts : u # t \/ b # a => shims'[u][b] = shims[u][b]
    <3>1. PICK w \in {"exit0", "exitbad"} : shims' = [shims EXCEPT ![t][a].work = w]
      BY <1>7 DEF ShimKills, WorkloadExits
    <3>2. shims[t][a].work = "alive" /\ UNCHANGED db
      BY <1>7 DEF ShimKills, WorkloadExits
    <3>3. /\ shims'[t][a] = [shims[t][a] EXCEPT !.work = w]
          /\ \A u \in Tasks, b \in Attempts : u # t \/ b # a => shims'[u][b] = shims[u][b]
      BY <1>0, <3>1
    <3>4. shims'[t][a].pc = shims[t][a].pc /\ shims'[t][a].work = w
      BY <1>0, <3>3 DEF Shim
    <3> QED
      BY <3>1, <3>2, <3>3, <3>4
  <2>2. shims'[t][a].pc \notin {"unborn", "init", "launch"}
    BY <2>1 DEF WorkInv
  <2> QED
    BY <2>1, <2>2, WorkShim
<1>8. CASE ShimPersists(t, a) \/ ShimWrites(t, a) \/ ShimCrash(t, a) \/ ShimTimesOut(t, a)
  <2>1. UNCHANGED db
    BY <1>8 DEF ShimPersists, ShimWrites, ShimCrash, ShimTimesOut
  <2>2. /\ shims'[t][a].pc \in {"write", "gone", "dead", "supervise"}
        /\ shims'[t][a].work = shims[t][a].work
        /\ \A u \in Tasks, b \in Attempts : u # t \/ b # a => shims'[u][b] = shims[u][b]
    <3>1. CASE ShimPersists(t, a)
      BY <1>0, <3>1 DEF ShimPersists, Shim
    <3>2. CASE ShimWrites(t, a)
      BY <1>0, <3>2 DEF ShimWrites, Shim
    <3>3. CASE ShimCrash(t, a)
      BY <1>0, <3>3 DEF ShimCrash, Shim
    <3>4. CASE ShimTimesOut(t, a)
      BY <1>0, <3>4 DEF ShimTimesOut, ShimIs, Shim
    <3> QED
      BY <1>8, <3>1, <3>2, <3>3, <3>4
  <2> QED
    BY <2>1, <2>2, WorkShim
<1> QED
  BY <1>1, <1>2, <1>3, <1>4, <1>5, <1>6, <1>7, <1>8 DEF ShimProcess

\* A step of the dispatcher.
LEMMA WorkDispatch ==
    ASSUME Killers = {}, QuietContext, WorkInv, NEW t \in Tasks, DispatchStep(t)
    PROVE  WorkInv'
<1>0. /\ shims \in [Tasks -> [Attempts -> Shim]] /\ db \in [Tasks -> Row]
      /\ db[t] \in Row /\ disp.pid \in 0..MaxAttempts
      /\ QuietInv /\ BalanceInv
  BY DEF QuietContext, KnownInv, TypeInv, TypeOK, Dispatching
<1>1. CASE DispatchReserve(t)
  <2>1. HasActiveReservation(ReserveResources(db[t]))
    BY <1>0 DEF ReserveResources, HasActiveReservation, Row
  <2>2. HasActiveReservation(db'[t]) /\ \A u \in Tasks \ {t} : db'[u] = db[u]
    BY <1>0, <1>1, <2>1 DEF DispatchReserve, Update
  <2>3. UNCHANGED shims
    BY <1>1 DEF DispatchReserve
  <2> QED
    BY <2>2, <2>3, WorkRows
<1>2. CASE DispatchMark(t)
  <2>1. HasActiveReservation(MarkDispatched(db[t], disp.pid)) <=> HasActiveReservation(db[t])
    BY <1>0 DEF MarkDispatched, HasActiveReservation, Row
  <2>2. db[t].status = "failed" => MarkDispatched(db[t], disp.pid).status = "failed"
    BY <1>0 DEF MarkDispatched
  <2>3. /\ db'[t] = MarkDispatched(db[t], disp.pid)
        /\ \A u \in Tasks \ {t} : db'[u] = db[u]
    BY <1>0, <1>2 DEF DispatchMark, Update
  <2>4. UNCHANGED shims
    BY <1>2 DEF DispatchMark
  <2> QED
    BY <2>1, <2>2, <2>3, <2>4, WorkRows
<1>3. CASE DispatchFail(t)
  <2>1. \A a \in Attempts : shims[t][a].pc = "unborn"
    BY <1>0, <1>3 DEF DispatchFail, DispatchIs, QuietInv, SpawnsHold, Spawned
  <2>2. \A a \in Attempts : shims[t][a].work # "alive"
    BY <2>1 DEF WorkInv
  <2>3. \A u \in Tasks \ {t} : db'[u] = db[u]
    BY <1>0, <1>3 DEF DispatchFail, Update
  <2>4. UNCHANGED shims
    BY <1>3 DEF DispatchFail
  <2> QED
    BY <2>2, <2>3, <2>4, WorkRows
<1>4. CASE DispatchSpawn(t)
  <2>1. UNCHANGED db
    BY <1>4 DEF DispatchSpawn
  <2>2. PICK a \in Attempts :
          /\ shims'[t][a].pc = "init" /\ shims'[t][a].work = "none"
          /\ \A u \in Tasks, b \in Attempts : u # t \/ b # a => shims'[u][b] = shims[u][b]
    BY <1>0, <1>4 DEF DispatchSpawn, NoShim
  <2> QED
    BY <2>1, <2>2, WorkShim
<1>5. CASE DispatchCancel(t)
  BY <1>0, <1>5 DEF DispatchCancel, BalanceInv, NoKills
<1>6. CASE DispatchPass(t) \/ DispatchSpawnFails(t) \/ DispatchPersist(t) \/ DispatchWrite(t)
  BY <1>6 DEF DispatchPass, DispatchSpawnFails, DispatchPersist, DispatchWrite, WorkInv
<1> QED
  BY <1>1, <1>2, <1>3, <1>4, <1>5, <1>6 DEF DispatchStep

\* WorkInv is inductive while the first run lasts.
LEMMA WorkNext ==
    ASSUME Killers = {}, QuietContext, WorkInv, [Next]_vars, FirstRun'
    PROVE  WorkInv'
<1>0. TypeInv /\ LivesInv /\ SlotsInv /\ FirstRun /\ db \in [Tasks -> Row]
  BY DEF QuietContext, KnownInv, TypeInv, TypeOK
<1>1. ASSUME UNCHANGED <<db, shims>> PROVE WorkInv'
  BY <1>1 DEF WorkInv
<1>2. ASSUME NEW t \in Tasks, Submit(t) PROVE WorkInv'
  <2>1. \A a \in Attempts : shims[t][a].work # "alive"
    BY <1>0, <1>2 DEF Submit, LivesInv, AbsentUnborn, Spawned, WorkInv
  <2>2. UNCHANGED shims /\ \A u \in Tasks \ {t} : db'[u] = db[u]
    BY <1>0, <1>2 DEF Submit, Update
  <2> QED
    BY <2>1, <2>2, WorkRows
<1>3. CASE DispatchCount \/ DispatchList \/ DispatchEnd \/ DispatchAbort \/ Crash \/ Restart
  BY <1>1, <1>3 DEF DispatchCount, DispatchList, DispatchEnd, DispatchAbort, Crash, Restart
<1>4. CASE RecoverEnd \/ \E t \in Tasks : RecoverStep(t)
  <2>1. server.phase = "recovering"
    BY <1>4 DEF RecoverEnd, RecoverStep, RecoverRelease, RecoverProbe, RecoverReserve,
                RecoverLose, RecoverPersist, RecoverWrite, Recovers, RecoverIs
  <2>2. server.phase \in {"up", "down"}
    BY <1>0 DEF FirstRun, SlotsInv
  <2> QED
    BY <2>1, <2>2
<1>5. CASE UNCHANGED vars
  BY <1>1, <1>5 DEF vars
<1> QED
  BY <1>2, <1>3, <1>4, <1>5, WorkDispatch, WorkShimStep DEF Next, Dispatcher, Recovery

\* In the first run a task has one shim, and that one holds the slot of the task.
LEMMA WithinSlotsInFirstRun ==
    ASSUME QuietContext, WorkInv, WithinSlots
    PROVE  WorkloadsWithinSlots
<1> DEFINE supervised == {ta \in Tasks \X Attempts :
                            shims[ta[1]][ta[2]].pc \in {"launched", "supervise"}}
           task == [ta \in supervised |-> ta[1]]
<1>1. \A ta \in supervised : /\ ta = <<ta[1], ta[2]>> /\ ta[1] \in Tasks /\ ta[2] \in Attempts
                             /\ Spawned(ta[1], ta[2]) /\ ta[1] \in Reserved
  BY DEF QuietContext, QuietInv, ShimsHold, Unended, Spawned, Reserved
<1>2. \A t \in Tasks : \A a, b \in Attempts : Spawned(t, a) /\ Spawned(t, b) => a = b
  BY OneShim DEF QuietContext, KnownInv
<1>3. task \in Injection(supervised, Reserved)
  <2>1. task \in [supervised -> Reserved]
    BY <1>1
  <2>2. ASSUME NEW x \in supervised, NEW y \in supervised, task[x] = task[y] PROVE x = y
    BY <1>1, <1>2, <2>2
  <2> QED
    BY <2>1, <2>2 DEF Injection, IsInjective
<1>4. IsFiniteSet(Reserved)
  BY TasksAssumption, FS_Subset DEF Reserved
<1>5. Cardinality(supervised) <= Cardinality(Reserved)
  BY <1>3, <1>4, FS_Injection
<1>6. Cardinality(supervised) \in Nat /\ Cardinality(Reserved) \in Nat /\ Slots \in Nat
  BY <1>3, <1>4, FS_Injection, FS_CardinalityType, LimitsAssumption
<1>7. Cardinality(supervised) <= Slots
  BY <1>5, <1>6 DEF WithinSlots
<1> HIDE DEF supervised
<1> QED
  BY <1>7 DEF WorkloadsWithinSlots, WorkInv, supervised

\* Without kills, until the server first crashes and on until it is back, shims
\* supervise at most max_running_tasks workloads (a slot is taken before the spawn and
\* given back by complete_task, after wait4), and a workload that runs outside the
\* slots is one whose task failed: setup_cgroup left it behind (spawn_task_process).
THEOREM SupervisedWithinSlots ==
    ASSUME Killers = {}
    PROVE  Spec => [](FirstRun => WorkloadsWithinSlots)
<1> DEFINE WorkSoFar == FirstRun => WorkInv
<1>1. Init => WorkSoFar
  BY WorkInit
<1>2. QuietSoFar /\ WorkSoFar /\ [Next]_vars => WorkSoFar'
  BY FirstRunNext, WorkNext DEF QuietSoFar, QuietContext
<1>3. QuietSoFar /\ OnceInv /\ WorkSoFar => (FirstRun => WorkloadsWithinSlots)
  BY WithinSlotsInFirstRun DEF QuietSoFar, QuietContext, OnceInv, SlotsHold, FirstRun
<1> HIDE DEF WorkSoFar
<1> QED
  BY <1>1, <1>2, <1>3, QuietAlways, OnceInit, OnceNext, PTL DEF Spec
=============================================================================
