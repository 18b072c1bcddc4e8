-------------------------- MODULE TaskRuntime_proofs --------------------------
(***************************************************************************)
(* Theorems about TaskRuntime, for every set of tasks and of kill requests *)
(* and every value of the limits and bounds.                               *)
(***************************************************************************)
EXTENDS TaskRuntime, FiniteSetTheorems, TLAPS

-----------------------------------------------------------------------------
(* Types of the transactions *)

\* A new row is a row.
LEMMA InsertType ==
    ASSUME NEW n \in Nat
    PROVE  NoRow \in Row /\ InsertTask(n) \in Row
<1>1. NoRow \in Row
  BY MaxAttemptsAssumption DEF NoRow, Row, Status, Reservation
<1>2. \A row \in Row : [row EXCEPT !.status = "accepted", !.born = n] \in Row
  BY DEF Row, Status
<1> QED
  BY <1>1, <1>2 DEF InsertTask

\* Every transaction of the repository maps a row to a row.
LEMMA TransactionTypes ==
    ASSUME NEW row \in Row
    PROVE  /\ \A a \in 0..MaxAttempts :
                MarkDispatched(row, a) \in Row /\ MarkStarted(row, a) \in Row
           /\ ReserveResources(row) \in Row
           /\ ReleaseResources(row) \in Row
           /\ SetCancelRequested(row) \in Row
           /\ CancelAccepted(row) \in Row
           /\ \A verdict \in Status : CompleteTask(row, verdict) \in Row
<1>1. /\ row.held + 1 \in Int
      /\ row.held - 1 \in Int
      /\ row.held - ReleaseEvent(row) \in Int
      /\ ResAfterEnd(row) \in Reservation
  BY DEF Row, ReleaseEvent, ResAfterEnd, Reservation
<1>2. ASSUME NEW a \in 0..MaxAttempts
      PROVE  MarkDispatched(row, a) \in Row /\ MarkStarted(row, a) \in Row
  BY DEF MarkDispatched, MarkStarted, Row, Status
<1>3. SetCancelRequested(row) \in Row
  BY DEF SetCancelRequested, Row
<1>4. ReserveResources(row) \in Row
  <2>1. ASSUME NEW h \in Int
        PROVE  [row EXCEPT !.res = "active", !.held = h] \in Row
    BY DEF Row, Reservation
  <2>2. ReserveResources(row) = [row EXCEPT !.res = "active", !.held = row.held + 1]
    BY DEF ReserveResources
  <2> QED
    BY <1>1, <2>1, <2>2
<1>5. ReleaseResources(row) \in Row
  <2>1. ASSUME NEW h \in Int
        PROVE  [row EXCEPT !.res = "released", !.held = h] \in Row
    BY DEF Row, Reservation
  <2>2. ReleaseResources(row) \in
          {row, [row EXCEPT !.res = "released", !.held = row.held - 1]}
    BY DEF ReleaseResources
  <2> QED
    BY <1>1, <2>1, <2>2
<1>6. CancelAccepted(row) \in Row
  <2> DEFINE updated == IF row.status = "accepted"
                          THEN [row EXCEPT !.status = "cancelled",
                                           !.res    = ResAfterEnd(row)]
                          ELSE row
  <2>1. updated \in Row
    BY <1>1 DEF Row, Status, Terminal
  <2>2. updated.held - ReleaseEvent(row) \in Int
    BY <2>1 DEF Row, ReleaseEvent
  <2>3. \A u \in Row, h \in Int : [u EXCEPT !.held = h] \in Row
    BY DEF Row
  <2>4. CancelAccepted(row) = [updated EXCEPT !.held = updated.held - ReleaseEvent(row)]
    BY DEF CancelAccepted
  <2> HIDE DEF updated
  <2> QED
    BY <2>1, <2>2, <2>3, <2>4
<1>7. ASSUME NEW verdict \in Status PROVE CompleteTask(row, verdict) \in Row
  <2>1. ASSUME NEW h \in Int, NEW r \in Reservation
        PROVE  [row EXCEPT !.status = verdict, !.res = r, !.held = h] \in Row
    BY DEF Row
  <2>2. ASSUME NEW h \in Int
        PROVE  [row EXCEPT !.status = verdict, !.res = ResAfterEnd(row), !.held = h]
                 \in Row
    BY <1>1, <2>1
  <2>3. CompleteTask(row, verdict) =
          [row EXCEPT !.status = verdict, !.res = ResAfterEnd(row),
                      !.held = row.held - ReleaseEvent(row)]
    BY DEF CompleteTask
  <2> QED
    BY <1>1, <2>2, <2>3
<1> QED
  BY <1>2, <1>3, <1>4, <1>5, <1>6, <1>7

-----------------------------------------------------------------------------
(* Type correctness *)

\* The dispatcher is in the middle of one task at a time.
OneAtATime ==
    \A t, u \in Tasks :
        (disp.todo[t] \in DispatchBusy /\ disp.todo[u] \in DispatchBusy) => t = u

\* A reservation the dispatcher may still take back is in its count, so the
\* saturating subtraction of subtract_reservation never saturates.
ReservationCounted ==
    \A t \in Tasks : disp.todo[t] \in {"spawn", "fail"} => disp.reserved >= 1

\* Outside the walk through the list there is nothing left to do.
NothingLeft == disp.pc # "work" => \A t \in Tasks : disp.todo[t] = "skip"

TypeInv == TypeOK /\ OneAtATime /\ ReservationCounted /\ NothingLeft

LEMMA TypeInvInit == Init => TypeInv
<1> SUFFICES ASSUME Init PROVE TypeInv
  OBVIOUS
<1>1. db \in [Tasks -> Row]
  BY InsertType DEF Init
<1>2. shims \in [Tasks -> [Attempts -> Shim]]
  BY BoundsAssumption DEF Init, NoShim, Shim, ShimStep, Work, Status
<1>3. disp \in Dispatching
  BY MaxAttemptsAssumption DEF Init, Idle, Dispatching, DispatchTodo, Status
<1>4. recov \in Recovering /\ kills \in [Tasks -> [Killers -> Kill]]
  BY MaxAttemptsAssumption
  DEF Init, NoRecovery, Recovering, RecoverTodo, NoKill, Kill, KillStep, Status
<1>5. TypeOK
  BY <1>1, <1>2, <1>3, <1>4, BoundsAssumption DEF TypeOK, Init, Status
<1> QED
  BY <1>5 DEF TypeInv, OneAtATime, ReservationCounted, NothingLeft, Init, Idle, DispatchBusy

\* Counting tasks gives a natural number.
LEMMA TaskCount ==
    ASSUME NEW S \in SUBSET Tasks
    PROVE  Cardinality(S) \in Nat
  BY TasksAssumption, FS_Subset, FS_CardinalityType

\* The updates the dispatcher makes to its state.
LEMMA DispatchUpdates ==
    ASSUME NEW d \in Dispatching, NEW t \in Tasks
    PROVE  /\ \A step \in DispatchTodo : [d EXCEPT !.todo[t] = step] \in Dispatching
           /\ \A step \in DispatchTodo, n \in Nat :
                [d EXCEPT !.todo[t] = step, !.reserved = n] \in Dispatching
           /\ \A step \in DispatchTodo, a \in 0..MaxAttempts :
                [d EXCEPT !.todo[t] = step, !.pid = a] \in Dispatching
           /\ \A step \in DispatchTodo, st \in Status :
                [d EXCEPT !.todo[t] = step, !.out = st] \in Dispatching
  BY DEF Dispatching

\* Every step of the dispatcher keeps the invariant.
LEMMA TypeInvDispatch ==
    ASSUME TypeInv, Dispatcher
    PROVE  TypeInv'
<1> USE DEF TypeInv, TypeOK, OneAtATime, ReservationCounted, NothingLeft, DispatchBusy
<1>1. CASE DispatchCount
  <2>1. Cardinality(Reserved) \in Nat
    BY TaskCount DEF Reserved
  <2>2. disp' \in Dispatching
    <3>1. \A n \in Nat : [disp EXCEPT !.pc = "counted", !.reserved = n] \in Dispatching
      BY DEF Dispatching
    <3> QED
      BY <1>1, <2>1, <3>1 DEF DispatchCount
  <2>3. disp'.todo = disp.todo /\ disp.pc = "idle"
    BY <1>1 DEF DispatchCount, Dispatching
  <2> QED
    BY <1>1, <2>2, <2>3 DEF DispatchCount
<1>2. CASE DispatchList
  <2>1. \A t \in Tasks : TodoOf(db[t]) \in {"cancel", "skip", "start"}
    BY DEF TodoOf
  <2>2. PICK todo \in [Tasks -> {"cancel", "skip", "start"}] :
          disp' = [disp EXCEPT !.pc = "work", !.todo = todo]
    BY <1>2, <2>1 DEF DispatchList
  <2>3. /\ disp'.pc = "work" /\ disp'.todo = todo
        /\ disp' \in Dispatching
    <3>1. todo \in [Tasks -> DispatchTodo]
      BY DEF DispatchTodo
    <3> QED
      BY <2>2, <3>1 DEF Dispatching
  <2> QED
    BY <1>2, <2>2, <2>3 DEF DispatchList
<1>3. CASE DispatchEnd
  BY <1>3, MaxAttemptsAssumption DEF DispatchEnd, Idle, Dispatching, DispatchTodo, Status
<1>4. ASSUME NEW t \in Tasks, DispatchCancel(t) PROVE TypeInv'
  <2>1. disp.pc = "work" /\ \A u \in Tasks : disp.todo[u] \notin DispatchBusy
    BY <1>4 DEF DispatchCancel, TakesUp
  <2>2. disp' \in Dispatching
    BY <1>4, DispatchUpdates DEF DispatchCancel, DispatchGoes, DispatchTodo
  <2>3. /\ disp'.reserved = disp.reserved /\ disp'.pc = disp.pc
        /\ disp'.todo = [disp.todo EXCEPT ![t] = "persist"]
    BY <1>4 DEF DispatchCancel, DispatchGoes, Dispatching
  <2>4. OneAtATime' /\ ReservationCounted' /\ NothingLeft'
    BY <2>1, <2>3 DEF Dispatching
  <2>5. db' \in [Tasks -> Row]
    BY <1>4, TransactionTypes DEF DispatchCancel, Update
  <2> QED
    BY <1>4, <2>2, <2>4, <2>5 DEF DispatchCancel
<1>5. ASSUME NEW t \in Tasks, DispatchPass(t) PROVE TypeInv'
  <2>1. disp.pc = "work" /\ \A u \in Tasks : disp.todo[u] \notin DispatchBusy
    BY <1>5 DEF DispatchPass, TakesUp
  <2>2. disp' \in Dispatching
    BY <1>5, DispatchUpdates DEF DispatchPass, DispatchGoes, DispatchTodo
  <2>3. disp'.pc = disp.pc /\ disp'.todo = [disp.todo EXCEPT ![t] = "skip"]
    BY <1>5 DEF DispatchPass, DispatchGoes, Dispatching
  <2>4. OneAtATime' /\ ReservationCounted' /\ NothingLeft'
    BY <2>1, <2>3 DEF Dispatching
  <2> QED
    BY <1>5, <2>2, <2>4 DEF DispatchPass
<1>6. ASSUME NEW t \in Tasks, DispatchReserve(t) PROVE TypeInv'
  <2>1. disp.reserved + 1 \in Nat
    BY DEF Dispatching
  <2>2. disp' = [disp EXCEPT !.todo[t] = "spawn", !.reserved = disp.reserved + 1]
    BY <1>6 DEF DispatchReserve
  <2>3. disp' \in Dispatching
    BY <2>1, <2>2, DispatchUpdates DEF DispatchTodo
  <2>4. db' \in [Tasks -> Row]
    BY <1>6, TransactionTypes DEF DispatchReserve, Update
  <2>5. /\ disp'.reserved = disp.reserved + 1 /\ disp'.pc = disp.pc
        /\ disp'.todo = [disp.todo EXCEPT ![t] = "spawn"]
    BY <2>2 DEF Dispatching
  <2>6. disp.pc = "work" /\ \A u \in Tasks : disp.todo[u] \notin DispatchBusy
    BY <1>6 DEF DispatchReserve, TakesUp
  <2>7. OneAtATime' /\ ReservationCounted' /\ NothingLeft'
    BY <2>1, <2>5, <2>6 DEF Dispatching
  <2> QED
    BY <1>6, <2>3, <2>4, <2>7 DEF DispatchReserve
<1>7. ASSUME NEW t \in Tasks, DispatchSpawn(t) PROVE TypeInv'
  <2>1. PICK a \in Attempts :
          /\ shims' = [shims EXCEPT ![t][a] = [NoShim EXCEPT !.pc = "init",
                                                           !.life = server.life]]
          /\ disp' = [disp EXCEPT !.todo[t] = "mark", !.pid = a]
    BY <1>7 DEF DispatchSpawn
  <2>2. disp' \in Dispatching
    <3>1. "mark" \in DispatchTodo /\ a \in 0..MaxAttempts
      BY MaxAttemptsAssumption DEF DispatchTodo, Attempts
    <3> QED
      BY <2>1, <3>1, DispatchUpdates
  <2>3. [NoShim EXCEPT !.pc = "init", !.life = server.life] \in Shim
    <3>1. NoShim \in Shim
      BY BoundsAssumption DEF NoShim, Shim, ShimStep, Work, Status
    <3>2. \A s \in Shim, l \in 0..MaxCrashes : [s EXCEPT !.pc = "init", !.life = l] \in Shim
      BY DEF Shim, ShimStep, Unended
    <3> QED
      BY <3>1, <3>2
  <2>4. shims' \in [Tasks -> [Attempts -> Shim]]
    BY <2>1, <2>3
  <2>5. /\ disp'.reserved = disp.reserved /\ disp'.pc = disp.pc
        /\ disp'.todo = [disp.todo EXCEPT ![t] = "mark"]
    BY <2>1 DEF Dispatching
  <2>6. OneAtATime' /\ ReservationCounted' /\ NothingLeft'
    BY <1>7, <2>5 DEF DispatchSpawn, DispatchIs, Dispatching
  <2> QED
    BY <1>7, <2>2, <2>4, <2>6 DEF DispatchSpawn
<1>8. ASSUME NEW t \in Tasks, DispatchMark(t) PROVE TypeInv'
  <2>1. disp' = [disp EXCEPT !.todo[t] = "skip", !.pid = 0]
    BY <1>8 DEF DispatchMark
  <2>2. disp' \in Dispatching
    <3>1. "skip" \in DispatchTodo /\ 0 \in 0..MaxAttempts
      BY MaxAttemptsAssumption DEF DispatchTodo
    <3> QED
      BY <2>1, <3>1, DispatchUpdates
  <2>3. /\ disp'.reserved = disp.reserved /\ disp'.pc = disp.pc
        /\ disp'.todo = [disp.todo EXCEPT ![t] = "skip"]
    BY <2>1 DEF Dispatching
  <2>4. OneAtATime' /\ ReservationCounted' /\ NothingLeft'
    BY <2>3 DEF Dispatching
  <2>5. db' \in [Tasks -> Row]
    BY <1>8, TransactionTypes DEF DispatchMark, Update, Dispatching
  <2> QED
    BY <1>8, <2>2, <2>4, <2>5 DEF DispatchMark
<1>9. ASSUME NEW t \in Tasks, DispatchSpawnFails(t) PROVE TypeInv'
  BY <1>9 DEF DispatchSpawnFails, DispatchIs, DispatchGoes, Dispatching, DispatchTodo
<1>10. ASSUME NEW t \in Tasks, DispatchFail(t) PROVE TypeInv'
  <2>1. disp.reserved - 1 \in Nat
    BY <1>10 DEF DispatchFail, DispatchIs, Dispatching
  <2>2. disp' = [disp EXCEPT !.todo[t] = "persist", !.reserved = disp.reserved - 1]
    BY <1>10 DEF DispatchFail
  <2>3. disp' \in Dispatching
    BY <2>1, <2>2, DispatchUpdates DEF DispatchTodo
  <2>4. disp'.todo = [disp.todo EXCEPT ![t] = "persist"] /\ disp'.pc = disp.pc
    BY <2>2 DEF Dispatching
  <2>5. disp.pc = "work" /\ \A u \in Tasks \ {t} : disp.todo[u] \notin DispatchBusy
    BY <1>10 DEF DispatchFail, DispatchIs
  <2>6. OneAtATime' /\ ReservationCounted' /\ NothingLeft'
    BY <2>4, <2>5 DEF Dispatching
  <2>7. db' \in [Tasks -> Row]
    BY <1>10, TransactionTypes DEF DispatchFail, Update, Status, Terminal
  <2> QED
    BY <1>10, <2>3, <2>6, <2>7 DEF DispatchFail
<1>11. ASSUME NEW t \in Tasks, DispatchPersist(t) \/ DispatchWrite(t) PROVE TypeInv'
  <2>1. PICK step \in {"write", "skip"}, st \in Status :
          /\ disp' = [disp EXCEPT !.todo[t] = step, !.out = st]
          /\ disp.pc = "work" /\ disp.todo[t] \in {"persist", "write"}
    BY <1>11 DEF DispatchPersist, DispatchWrite, DispatchIs, Row, Status
  <2>2. disp' \in Dispatching
    BY <2>1, DispatchUpdates DEF DispatchTodo
  <2>3. /\ disp'.reserved = disp.reserved /\ disp'.pc = disp.pc
        /\ disp'.todo = [disp.todo EXCEPT ![t] = step]
    BY <2>1 DEF Dispatching
  <2>4. OneAtATime' /\ ReservationCounted' /\ NothingLeft'
    <3>1. \A u \in Tasks \ {t} : disp.todo[u] \notin DispatchBusy
      BY <2>1
    <3>2. \A u \in Tasks \ {t} : disp'.todo[u] \notin DispatchBusy
      BY <2>3, <3>1 DEF Dispatching
    <3>3. disp'.todo[t] \in {"write", "skip"} /\ disp'.pc = "work"
      BY <2>1, <2>3 DEF Dispatching
    <3> QED
      BY <3>2, <3>3
  <2>5. result' \in [Tasks -> Status]
    BY <1>11 DEF DispatchPersist, DispatchWrite, Dispatching
  <2> QED
    BY <1>11, <2>2, <2>4, <2>5 DEF DispatchPersist, DispatchWrite
<1> QED
  BY <1>1, <1>2, <1>3, <1>4, <1>5, <1>6, <1>7, <1>8, <1>9, <1>10, <1>11
  DEF Dispatcher, DispatchStep

\* The updates the shims make to their state.
LEMMA ShimUpdates ==
    ASSUME NEW s \in Shim
    PROVE  /\ \A pc \in ShimStep :
                /\ [s EXCEPT !.pc = pc] \in Shim
                /\ \A st \in Status : [s EXCEPT !.pc = pc, !.out = st] \in Shim
                /\ \A w \in Work : [s EXCEPT !.pc = pc, !.work = w] \in Shim
                /\ \A w \in Work, st \in Status :
                     [s EXCEPT !.pc = pc, !.work = w, !.out = st] \in Shim
                /\ \A b \in BOOLEAN, st \in Status :
                     [s EXCEPT !.pc = pc, !.timeout = b, !.out = st] \in Shim
           /\ \A w \in Work : [s EXCEPT !.work = w] \in Shim
           /\ [s EXCEPT !.timeout = TRUE] \in Shim
  BY DEF Shim

\* Every step of a shim or of its workload keeps the type of the shims, and the
\* status a shim is about to write is a status.
LEMMA TypeInvShim ==
    ASSUME TypeInv, NEW t \in Tasks, NEW a \in Attempts,
           \/ ShimProcess(t, a) \/ ShimTimesOut(t, a) \/ ShimKills(t, a)
           \/ ShimCrash(t, a) \/ WorkloadExits(t, a)
    PROVE  TypeInv'
<1> USE DEF TypeInv, TypeOK
<1> DEFINE s == shims[t][a]
<1>0. s \in Shim /\ s.out \in Status /\ db[t] \in Row /\ db[t].status \in Status
  BY DEF Shim, Row
<1>1. /\ UNCHANGED <<server, disp, recov, kills>>
      /\ (OneAtATime /\ ReservationCounted /\ NothingLeft)'
  BY DEF OneAtATime, ReservationCounted, NothingLeft, ShimProcess, ShimGet, ShimLaunch,
         ShimLaunchFails, ShimStarted, ShimReaps, ShimCompletes, ShimPersists,
         ShimWrites, ShimTimesOut, ShimKills, ShimCrash, WorkloadExits
<1>2. db' \in [Tasks -> Row]
  <2>1. a \in 0..MaxAttempts
    BY MaxAttemptsAssumption DEF Attempts
  <2>2. CASE ShimStarted(t, a)
    BY <1>0, <2>1, <2>2, TransactionTypes DEF ShimStarted, Update
  <2>3. CASE ShimCompletes(t, a)
    BY <1>0, <2>3, TransactionTypes DEF ShimCompletes, Update
  <2>4. CASE UNCHANGED db
    BY <2>4
  <2> QED
    BY <2>2, <2>3, <2>4
    DEF ShimProcess, ShimGet, ShimLaunch, ShimLaunchFails, ShimReaps, ShimPersists,
        ShimWrites, ShimTimesOut, ShimKills, ShimCrash, WorkloadExits
<1>3. result' \in [Tasks -> Status]
  <2>1. CASE ShimWrites(t, a)
    BY <1>0, <2>1 DEF ShimWrites
  <2>2. CASE UNCHANGED result
    BY <2>2
  <2> QED
    BY <2>1, <2>2
    DEF ShimProcess, ShimGet, ShimLaunch, ShimLaunchFails, ShimStarted, ShimReaps,
        ShimCompletes, ShimPersists, ShimTimesOut, ShimKills, ShimCrash, WorkloadExits
<1>5. faults' \in [shim : 0..MaxShimCrashes, cycle : 0..MaxFaults]
  <2>1. CASE ShimCrash(t, a)
    <3>1. faults.shim + 1 \in 0..MaxShimCrashes
      BY <2>1, BoundsAssumption DEF ShimCrash
    <3>2. faults' = [faults EXCEPT !.shim = faults.shim + 1]
      BY <2>1 DEF ShimCrash
    <3>3. \A n \in 0..MaxShimCrashes :
            [faults EXCEPT !.shim = n] \in [shim : 0..MaxShimCrashes, cycle : 0..MaxFaults]
      OBVIOUS
    <3> QED
      BY <3>1, <3>2, <3>3
  <2>2. CASE UNCHANGED faults
    BY <2>2
  <2> QED
    BY <2>1, <2>2
    DEF ShimProcess, ShimGet, ShimLaunch, ShimLaunchFails, ShimStarted, ShimReaps,
        ShimCompletes, ShimPersists, ShimWrites, ShimTimesOut, ShimKills, WorkloadExits
<1>4. shims' \in [Tasks -> [Attempts -> Shim]]
  <2> SUFFICES \E x \in Shim : shims' = [shims EXCEPT ![t][a] = x]
    OBVIOUS
  <2>1. /\ {"gone", "complete", "launch", "launched", "supervise", "persist", "write", "dead"}
               \subseteq ShimStep
        /\ {"absent", "cancelled", "failed", "success"} \subseteq Status
        /\ {"none", "alive", "exit0", "exitbad"} = Work
    BY DEF ShimStep, Unended, Ended, Status, Terminal, Work
  <2>2. CASE ShimGet(t, a)
    BY <1>0, <2>1, <2>2, ShimUpdates DEF ShimGet
  <2>3. CASE ShimLaunch(t, a)
    BY <1>0, <2>1, <2>3, ShimUpdates DEF ShimLaunch
  <2>4. CASE ShimLaunchFails(t, a)
    BY <1>0, <2>1, <2>4, ShimUpdates DEF ShimLaunchFails
  <2>5. CASE ShimStarted(t, a)
    BY <1>0, <2>1, <2>5, ShimUpdates DEF ShimStarted, ShimGoes
  <2>6. CASE ShimReaps(t, a)
    BY <1>0, <2>1, <2>6, ShimUpdates DEF ShimReaps, Classify
  <2>7. CASE ShimCompletes(t, a) \/ ShimPersists(t, a) \/ ShimWrites(t, a)
    BY <1>0, <2>1, <2>7, ShimUpdates DEF ShimCompletes, ShimPersists, ShimWrites
  <2>8. CASE ShimTimesOut(t, a)
    BY <1>0, <2>8, ShimUpdates DEF ShimTimesOut
  <2>9. CASE ShimKills(t, a) \/ WorkloadExits(t, a)
    BY <1>0, <2>1, <2>9, ShimUpdates DEF ShimKills, WorkloadExits
  <2>10. CASE ShimCrash(t, a)
    BY <1>0, <2>1, <2>10, ShimUpdates DEF ShimCrash
  <2> QED
    BY <2>2, <2>3, <2>4, <2>5, <2>6, <2>7, <2>8, <2>9, <2>10 DEF ShimProcess
<1> QED
  BY <1>1, <1>2, <1>3, <1>4, <1>5

\* The kill handlers only change the row, their own state and, when they escalate,
\* the workload.
LEMMA TypeInvKill ==
    ASSUME TypeInv, NEW t \in Tasks, NEW k \in Killers,
           KillGet(t, k) \/ KillHandler(t, k) \/ KillDropped(t, k)
    PROVE  TypeInv'
<1> USE DEF TypeInv, TypeOK
<1>0. /\ kills[t][k] \in Kill /\ db[t] \in Row /\ db[t].pg \in 0..MaxAttempts
      /\ {"flag", "read", "cancel", "signal", "escalate", "done"} \subseteq KillStep
      /\ 0 \in 0..MaxAttempts
  BY MaxAttemptsAssumption DEF Row, KillStep
<1>1. /\ UNCHANGED <<result, server, disp, recov, faults>>
      /\ (OneAtATime /\ ReservationCounted /\ NothingLeft)'
  BY DEF OneAtATime, ReservationCounted, NothingLeft, KillHandler, KillGet, KillFlag,
         KillRead, KillCancel, KillSignal, KillEscalate, KillDropped
<1>2. db' \in [Tasks -> Row]
  BY <1>0, TransactionTypes
  DEF Update, KillHandler, KillGet, KillFlag, KillRead, KillCancel, KillSignal,
      KillEscalate, KillDropped
<1>3. kills' \in [Tasks -> [Killers -> Kill]]
  <2> SUFFICES \E x \in Kill : kills' = [kills EXCEPT ![t][k] = x]
    OBVIOUS
  <2>1. /\ \A pc \in KillStep : [kills[t][k] EXCEPT !.pc = pc] \in Kill
        /\ \A pc \in KillStep, a \in 0..MaxAttempts : [pc |-> pc, pg |-> a] \in Kill
    BY <1>0 DEF Kill
  <2>2. CASE KillGet(t, k)
    BY <1>0, <2>1, <2>2 DEF KillGet, KillGoes
  <2>3. CASE KillFlag(t, k) \/ KillCancel(t, k)
    BY <1>0, <2>1, <2>3 DEF KillFlag, KillCancel, KillGoes
  <2>4. CASE KillRead(t, k)
    BY <1>0, <2>1, <2>4 DEF KillRead
  <2>5. CASE KillSignal(t, k)
    BY <1>0, <2>1, <2>5 DEF KillSignal, KillGoes
  <2>6. CASE KillEscalate(t, k) \/ KillDropped(t, k)
    BY <1>0, <2>1, <2>6 DEF KillEscalate, KillDropped
  <2> QED
    BY <2>2, <2>3, <2>4, <2>5, <2>6 DEF KillHandler
<1>4. shims' \in [Tasks -> [Attempts -> Shim]]
  <2>1. CASE KillEscalate(t, k)
    <3> DEFINE pg == IF kills[t][k].pg # 0 THEN kills[t][k].pg ELSE db[t].pg
    <3>1. pg \in 0..MaxAttempts
      BY <1>0 DEF Kill
    <3>2. CASE UNCHANGED shims
      BY <3>2
    <3>3. CASE pg # 0 /\ shims' = [shims EXCEPT ![t][pg].work = "exitbad"]
      <4>1. pg \in Attempts
        BY <3>1, <3>3, MaxAttemptsAssumption DEF Attempts
      <4> HIDE DEF pg
      <4>2. shims[t][pg] \in Shim /\ "exitbad" \in Work
        BY <4>1 DEF Work
      <4>3. [shims[t][pg] EXCEPT !.work = "exitbad"] \in Shim
        BY <4>2, ShimUpdates
      <4> QED
        BY <3>3, <4>1, <4>3
    <3> QED
      BY <2>1, <3>2, <3>3 DEF KillEscalate
  <2>2. CASE UNCHANGED shims
    BY <2>2
  <2> QED
    BY <2>1, <2>2 DEF KillHandler, KillGet, KillFlag, KillRead, KillCancel, KillSignal,
                         KillDropped
<1> QED
  BY <1>1, <1>2, <1>3, <1>4

\* A crash of the server, and the recovery pass of the next incarnation.
LEMMA TypeInvRecovery ==
    ASSUME TypeInv, Crash \/ Recovery
    PROVE  TypeInv'
<1> USE DEF TypeInv, TypeOK
<1>1. CASE Crash
  <2>1. disp' = Idle /\ recov' = NoRecovery
    BY <1>1 DEF Crash
  <2>2. /\ disp' \in Dispatching /\ recov' \in Recovering
        /\ OneAtATime' /\ ReservationCounted' /\ NothingLeft'
    BY <2>1, MaxAttemptsAssumption
    DEF Idle, Dispatching, DispatchTodo, DispatchBusy, NoRecovery, Recovering, RecoverTodo,
        Status, OneAtATime, ReservationCounted, NothingLeft
  <2>3. server' \in [phase : {"down", "recovering", "up"}, life : 0..MaxCrashes]
    BY <1>1, BoundsAssumption DEF Crash
  <2>4. kills' \in [Tasks -> [Killers -> Kill]]
    <3>1. NoKill \in Kill /\ [pc |-> "done", pg |-> 0] \in Kill
      BY MaxAttemptsAssumption DEF NoKill, Kill, KillStep
    <3> QED
      BY <1>1, <3>1 DEF Crash
  <2> QED
    BY <1>1, <2>2, <2>3, <2>4 DEF Crash
<1>2. ASSUME Recovery PROVE TypeInv'
  <2>0. /\ UNCHANGED <<disp, kills, shims, faults>>
        /\ (OneAtATime /\ ReservationCounted /\ NothingLeft)'
    BY <1>2
    DEF Recovery, RecoverStep, Restart, RecoverEnd, RecoverRelease, RecoverProbe,
        RecoverReserve, RecoverLose, RecoverPersist, RecoverWrite,
        OneAtATime, ReservationCounted, NothingLeft
  <2>1. /\ \A t \in Tasks : \A step \in RecoverTodo :
             [recov EXCEPT !.todo[t] = step] \in Recovering
        /\ \A t \in Tasks : \A step \in RecoverTodo, st \in Status :
             [recov EXCEPT !.todo[t] = step, !.out = st] \in Recovering
        /\ \A todo \in [Tasks -> RecoverTodo] : [recov EXCEPT !.todo = todo] \in Recovering
    BY DEF Recovering
  <2>2. /\ {"skip", "lose", "reserve", "persist", "write"} \subseteq RecoverTodo
        /\ {"absent", "failed"} \subseteq Status
        /\ \A t \in Tasks : db[t].status \in Status /\ recov.out \in Status
    BY DEF RecoverTodo, Status, Terminal, Row, Recovering
  <2>3. CASE Restart
    <3>1. \A t \in Tasks : RecoverOf(db[t]) \in RecoverTodo
      BY DEF RecoverOf, RecoverTodo, HasActiveReservation
    <3>2. recov' \in Recovering
      BY <2>1, <2>3, <3>1 DEF Restart
    <3> QED
      BY <2>0, <2>3, <3>2 DEF Restart
  <2>4. CASE RecoverEnd
    BY <2>0, <2>4 DEF RecoverEnd
  <2>5. ASSUME NEW t \in Tasks, RecoverRelease(t) \/ RecoverReserve(t) \/ RecoverLose(t)
        PROVE  TypeInv'
    <3>1. PICK step \in {"skip", "persist"} : recov' = [recov EXCEPT !.todo[t] = step]
      BY <2>5 DEF RecoverRelease, RecoverReserve, RecoverLose, RecoverGoes
    <3>2. recov' \in Recovering
      BY <2>1, <2>2, <3>1
    <3>3. db' \in [Tasks -> Row]
      <4>1. /\ db[t] \in Row
            /\ ReleaseResources(db[t]) \in Row
            /\ ReserveResources(db[t]) \in Row
            /\ MarkRecoveryLost(db[t]) \in Row
        BY <2>2, TransactionTypes DEF MarkRecoveryLost
      <4> QED
        BY <2>5, <4>1 DEF RecoverRelease, RecoverReserve, RecoverLose, Update
    <3> QED
      BY <2>0, <2>5, <3>2, <3>3 DEF RecoverRelease, RecoverReserve, RecoverLose
  <2>6. ASSUME NEW t \in Tasks, RecoverProbe(t) PROVE TypeInv'
    <3>1. PICK step \in {"lose", "skip", "reserve"} :
            recov' = [recov EXCEPT !.todo[t] = step]
      <4> DEFINE step == IF ~ProcessExists(t, db[t].shim) THEN "lose"
                         ELSE IF recov.todo[t] = "probe" THEN "skip"
                         ELSE "reserve"
      <4>1. recov' = [recov EXCEPT !.todo[t] = step]
        BY <2>6 DEF RecoverProbe, RecoverGoes
      <4>2. step \in {"lose", "skip", "reserve"}
        OBVIOUS
      <4> HIDE DEF step
      <4> QED
        BY <4>1, <4>2
    <3>2. recov' \in Recovering
      BY <2>1, <2>2, <3>1
    <3> QED
      BY <2>0, <2>6, <3>2 DEF RecoverProbe
  <2>7. ASSUME NEW t \in Tasks, RecoverPersist(t) \/ RecoverWrite(t) PROVE TypeInv'
    <3>1. PICK step \in {"write", "skip"}, st \in {db[t].status, "absent"} :
            recov' = [recov EXCEPT !.todo[t] = step, !.out = st]
      BY <2>7 DEF RecoverPersist, RecoverWrite
    <3>2. recov' \in Recovering
      BY <2>1, <2>2, <3>1
    <3>3. result' \in [Tasks -> Status]
      BY <2>2, <2>7 DEF RecoverPersist, RecoverWrite
    <3> QED
      BY <2>0, <2>7, <3>2, <3>3 DEF RecoverPersist, RecoverWrite
  <2> QED
    BY <1>2, <2>3, <2>4, <2>5, <2>6, <2>7 DEF Recovery, RecoverStep
<1> QED
  BY <1>1, <1>2

\* Submission, and an error that ends a dispatch cycle.
LEMMA TypeInvOthers ==
    ASSUME TypeInv, DispatchAbort \/ \E t \in Tasks : Submit(t)
    PROVE  TypeInv'
<1> USE DEF TypeInv, TypeOK
<1>1. ASSUME NEW t \in Tasks, Submit(t) PROVE TypeInv'
  <2> DEFINE S == {u \in Tasks : db[u].status # "absent"}
  <2>1. 1 + Cardinality(S) \in Nat
    <3>1. S \in SUBSET Tasks
      OBVIOUS
    <3> HIDE DEF S
    <3>2. Cardinality(S) \in Nat
      BY <3>1, TaskCount
    <3> QED
      BY <3>2
  <2>2. db' \in [Tasks -> Row]
    <3> HIDE DEF S
    <3>1. InsertTask(1 + Cardinality(S)) \in Row
      BY <2>1, InsertType
    <3>2. Update(t, InsertTask(1 + Cardinality(S)))
      BY <1>1 DEF Submit, S
    <3> QED
      BY <3>1, <3>2 DEF Update
  <2> QED
    BY <1>1, <2>2 DEF Submit, OneAtATime, ReservationCounted, NothingLeft
<1>2. CASE DispatchAbort
  <2>1. /\ disp' \in Dispatching
        /\ OneAtATime' /\ ReservationCounted' /\ NothingLeft'
    BY <1>2, MaxAttemptsAssumption
    DEF DispatchAbort, Idle, Dispatching, DispatchTodo, DispatchBusy, Status,
        OneAtATime, ReservationCounted, NothingLeft
  <2>2. faults' \in [shim : 0..MaxShimCrashes, cycle : 0..MaxFaults]
    <3>1. faults.cycle + 1 \in 0..MaxFaults
      BY <1>2, BoundsAssumption DEF DispatchAbort
    <3>2. faults' = [faults EXCEPT !.cycle = faults.cycle + 1]
      BY <1>2 DEF DispatchAbort
    <3>3. \A n \in 0..MaxFaults :
            [faults EXCEPT !.cycle = n] \in [shim : 0..MaxShimCrashes, cycle : 0..MaxFaults]
      OBVIOUS
    <3> QED
      BY <3>1, <3>2, <3>3
  <2> QED
    BY <1>2, <2>1, <2>2 DEF DispatchAbort
<1> QED
  BY <1>1, <1>2

\* TypeInv is inductive.
LEMMA TypeInvNext == TypeInv /\ [Next]_vars => TypeInv'
<1> SUFFICES ASSUME TypeInv, [Next]_vars PROVE TypeInv'
  OBVIOUS
<1>1. CASE UNCHANGED vars
  BY <1>1 DEF vars, TypeInv, TypeOK, OneAtATime, ReservationCounted, NothingLeft
<1>2. CASE Next
  BY <1>2, TypeInvDispatch, TypeInvShim, TypeInvKill, TypeInvRecovery, TypeInvOthers
  DEF Next
<1> QED
  BY <1>1, <1>2

\* Type correctness: every row, every actor's state and every count keeps its type.
\* The count of reserved slots in particular never drops below zero, which
\* subtract_reservation would hide by saturating.
THEOREM TypeCorrect == Spec => []TypeOK
<1>1. TypeInv => TypeOK
  BY DEF TypeInv
<1> QED
  BY <1>1, TypeInvInit, TypeInvNext, PTL DEF Spec

-----------------------------------------------------------------------------
(* A running row is supervised *)

Alive == Unended \cup {"dead"}

\* A shim that is past complete_task found, or made, the row terminal, and no row
\* goes back to accepted: so the shim mark_dispatched names is still to end.
NotEndedYet ==
    \A t \in Tasks : db[t].status \in {"absent", "accepted"} =>
        \A a \in Attempts : shims[t][a].pc \notin Ended \cup {"gone"}

\* The shim about to be recorded was spawned.
MarksSpawned ==
    \A t \in Tasks : disp.todo[t] = "mark" =>
        disp.pid \in Attempts /\ shims[t][disp.pid].pc # "unborn"

\* complete_task is only given a terminal status.
VerdictIsTerminal ==
    \A t \in Tasks : \A a \in Attempts :
        shims[t][a].pc = "complete" => shims[t][a].out \in Terminal

SupervisedInv == RunningIsSupervised /\ NotEndedYet /\ MarksSpawned /\ VerdictIsTerminal

\* What each transaction does to the status.
LEMMA TransactionStatus ==
    ASSUME NEW row \in Row
    PROVE  /\ \A a \in 0..MaxAttempts :
                /\ MarkDispatched(row, a).status =
                     IF row.status = "accepted" THEN "running" ELSE row.status
                /\ MarkStarted(row, a).status = "running"
           /\ ReserveResources(row).status = row.status
           /\ ReleaseResources(row).status = row.status
           /\ SetCancelRequested(row).status = row.status
           /\ CancelAccepted(row).status =
                IF row.status = "accepted" THEN "cancelled" ELSE row.status
           /\ \A verdict \in Status : CompleteTask(row, verdict).status = verdict
  BY DEF Row, MarkDispatched, MarkStarted, ReserveResources, ReleaseResources,
         SetCancelRequested, CancelAccepted, CompleteTask

\* A step that leaves the shims where they are and makes no row running.
LEMMA SupervisedFrame ==
    ASSUME TypeInv, SupervisedInv,
           \A t \in Tasks : \/ db'[t].status = db[t].status
                            \/ db'[t].status \in Terminal
                            \/ {db[t].status, db'[t].status} = {"absent", "accepted"},
           \A t \in Tasks : \A a \in Attempts : /\ shims'[t][a].pc = shims[t][a].pc
                                                /\ shims'[t][a].out = shims[t][a].out,
           \A t \in Tasks : disp'.todo[t] = "mark" =>
                             disp.todo[t] = "mark" /\ disp'.pid = disp.pid
    PROVE  SupervisedInv'
<1>1. RunningIsSupervised'
  BY DEF SupervisedInv, RunningIsSupervised, Terminal
<1>2. NotEndedYet'
  BY DEF SupervisedInv, NotEndedYet, Terminal
<1>3. MarksSpawned' /\ VerdictIsTerminal'
  BY DEF SupervisedInv, MarksSpawned, VerdictIsTerminal
<1> QED
  BY <1>1, <1>2, <1>3 DEF SupervisedInv

\* A step of a shim that is not at its end afterwards, mark_started included.
LEMMA SupervisedMoves ==
    ASSUME TypeInv, SupervisedInv, NEW t \in Tasks, NEW a \in Attempts, NEW x,
           shims' = [shims EXCEPT ![t][a] = x],
           x.pc \in Alive,
           x.pc = "complete" => x.out \in Terminal,
           \A u \in Tasks : \/ db'[u].status = db[u].status
                            \/ u = t /\ db'[u].status = "running",
           \A u \in Tasks : disp'.todo[u] = "mark" =>
                             \/ disp.todo[u] = "mark" /\ disp'.pid = disp.pid
                             \/ u = t /\ disp'.pid = a
    PROVE  SupervisedInv'
<1>1. /\ shims'[t][a] = x
      /\ \A u \in Tasks, b \in Attempts :
           (u # t \/ b # a) => shims'[u][b] = shims[u][b]
  BY DEF TypeInv, TypeOK
<1>2. x.pc \notin Ended \cup {"gone", "unborn"}
  BY DEF Alive, Unended, Ended
<1>3. RunningIsSupervised'
  BY <1>1 DEF SupervisedInv, RunningIsSupervised, Alive
<1>4. NotEndedYet'
  BY <1>1, <1>2 DEF SupervisedInv, NotEndedYet
<1>5. MarksSpawned'
  BY <1>1, <1>2 DEF SupervisedInv, MarksSpawned
<1>6. VerdictIsTerminal'
  BY <1>1 DEF SupervisedInv, VerdictIsTerminal
<1> QED
  BY <1>3, <1>4, <1>5, <1>6 DEF SupervisedInv

\* A step after which a shim has nothing more to do with the row.
LEMMA SupervisedEnds ==
    ASSUME TypeInv, SupervisedInv, NEW t \in Tasks, NEW a \in Attempts, NEW x,
           shims' = [shims EXCEPT ![t][a] = x],
           x.pc \in Ended \cup {"gone"},
           \A u \in Tasks \ {t} : db'[u].status = db[u].status,
           \/ db'[t].status \in Terminal
           \/ db'[t].status = db[t].status /\ shims[t][a].pc \in Ended,
           UNCHANGED disp
    PROVE  SupervisedInv'
<1>1. /\ shims'[t][a] = x
      /\ \A u \in Tasks, b \in Attempts :
           (u # t \/ b # a) => shims'[u][b] = shims[u][b]
  BY DEF TypeInv, TypeOK
<1>2. x.pc \notin Alive \cup {"unborn"}
  BY DEF Alive, Unended, Ended
<1>3. RunningIsSupervised'
  <2>1. shims[t][a].pc \in Ended => shims[t][a].pc \notin Unended \cup {"dead"}
    BY DEF Ended, Unended
  <2> QED
    BY <1>1, <2>1 DEF SupervisedInv, RunningIsSupervised, Terminal
<1>4. NotEndedYet'
  BY <1>1 DEF SupervisedInv, NotEndedYet, Terminal
<1>5. MarksSpawned'
  BY <1>1, <1>2 DEF SupervisedInv, MarksSpawned
<1>6. VerdictIsTerminal'
  BY <1>1, <1>2 DEF SupervisedInv, VerdictIsTerminal, Alive, Unended
<1> QED
  BY <1>3, <1>4, <1>5, <1>6 DEF SupervisedInv

\* The dispatcher keeps SupervisedInv: mark_dispatched records a shim that has not
\* reached its end if the row is still accepted.
LEMMA SupervisedDispatch ==
    ASSUME TypeInv, SupervisedInv, Dispatcher
    PROVE  SupervisedInv'
<1> USE DEF TypeInv, TypeOK
<1>0. \A t \in Tasks : db[t] \in Row
  OBVIOUS
<1>1. CASE DispatchCount \/ DispatchList \/ DispatchEnd
  <2>1. \A t \in Tasks : \/ disp'.todo[t] # "mark"
                         \/ UNCHANGED <<disp.todo, disp.pid>>
    <3>1. CASE DispatchCount
      BY <3>1 DEF DispatchCount, Dispatching
    <3>2. CASE DispatchList
      <4>1. \A t \in Tasks : TodoOf(db[t]) # "mark"
        BY DEF TodoOf
      <4>2. \A t \in Tasks : disp'.todo[t] \in {TodoOf(db[t]), "skip"}
        BY <3>2 DEF DispatchList, Dispatching
      <4> QED
        BY <4>1, <4>2
    <3>3. CASE DispatchEnd
      BY <3>3 DEF DispatchEnd, Idle
    <3> QED
      BY <1>1, <3>1, <3>2, <3>3
  <2> QED
    BY <1>1, <2>1, SupervisedFrame DEF DispatchCount, DispatchList, DispatchEnd
<1>2. ASSUME NEW t \in Tasks,
             \/ DispatchCancel(t) \/ DispatchPass(t) \/ DispatchReserve(t)
             \/ DispatchSpawnFails(t) \/ DispatchFail(t)
             \/ DispatchPersist(t) \/ DispatchWrite(t)
      PROVE  SupervisedInv'
  <2>1. UNCHANGED shims
    BY <1>2 DEF DispatchCancel, DispatchPass, DispatchReserve, DispatchSpawnFails,
                DispatchFail, DispatchPersist, DispatchWrite
  <2>2. \A u \in Tasks : disp'.todo[u] = "mark" =>
                          disp.todo[u] = "mark" /\ disp'.pid = disp.pid
    <3>1. /\ disp'.pid = disp.pid
          /\ \E step \in DispatchTodo \ {"mark"} :
               disp'.todo = [disp.todo EXCEPT ![t] = step]
      <4>1. {"persist", "skip", "spawn", "fail", "write"} \subseteq DispatchTodo \ {"mark"}
        BY DEF DispatchTodo
      <4>2. CASE DispatchCancel(t) \/ DispatchPass(t) \/ DispatchSpawnFails(t)
        BY <4>1, <4>2
        DEF DispatchCancel, DispatchPass, DispatchSpawnFails, DispatchGoes, Dispatching
      <4>3. CASE DispatchReserve(t) \/ DispatchFail(t)
        BY <4>1, <4>3 DEF DispatchReserve, DispatchFail, Dispatching
      <4>4. CASE DispatchPersist(t) \/ DispatchWrite(t)
        BY <4>1, <4>4 DEF DispatchPersist, DispatchWrite, Dispatching
      <4> QED
        BY <1>2, <4>2, <4>3, <4>4
    <3> QED
      BY <3>1 DEF Dispatching
  <2>3. "failed" \in Status /\ "failed" \in Terminal /\ "cancelled" \in Terminal
    BY DEF Status, Terminal
  <2>4. \A u \in Tasks : db'[u].status = db[u].status \/ db'[u].status \in Terminal
    <3>1. CASE DispatchCancel(t)
      BY <1>0, <2>3, <3>1, TransactionStatus DEF DispatchCancel, Update
    <3>2. CASE DispatchReserve(t)
      BY <1>0, <3>2, TransactionStatus DEF DispatchReserve, Update
    <3>3. CASE DispatchFail(t)
      BY <1>0, <2>3, <3>3, TransactionStatus DEF DispatchFail, Update
    <3>4. CASE UNCHANGED db
      BY <3>4
    <3> QED
      BY <1>2, <3>1, <3>2, <3>3, <3>4
      DEF DispatchPass, DispatchSpawnFails, DispatchPersist, DispatchWrite
  <2> QED
    BY <2>1, <2>2, <2>4, SupervisedFrame
<1>3. ASSUME NEW t \in Tasks, DispatchSpawn(t) PROVE SupervisedInv'
  <2>1. PICK a \in Attempts :
          /\ IsFresh(t, a)
          /\ shims' = [shims EXCEPT ![t][a] = [NoShim EXCEPT !.pc = "init",
                                                           !.life = server.life]]
          /\ disp' = [disp EXCEPT !.todo[t] = "mark", !.pid = a]
    BY <1>3 DEF DispatchSpawn
  <2>2. [NoShim EXCEPT !.pc = "init", !.life = server.life].pc = "init"
    BY DEF NoShim
  <2>3. PICK x : shims' = [shims EXCEPT ![t][a] = x] /\ x.pc = "init"
    BY <2>1, <2>2
  <2>4. x.pc \in Alive /\ (x.pc = "complete" => x.out \in Terminal)
    BY <2>3 DEF Alive, Unended
  <2>5. disp'.pid = a /\ disp'.todo = [disp.todo EXCEPT ![t] = "mark"]
    BY <2>1 DEF Dispatching
  <2>6. \A u \in Tasks : disp'.todo[u] = "mark" => u = t /\ disp'.pid = a
    BY <1>3, <2>5 DEF DispatchSpawn, DispatchIs, OneAtATime, DispatchBusy, Dispatching
  <2>7. \A u \in Tasks : db'[u].status = db[u].status
    BY <1>3 DEF DispatchSpawn
  <2> HIDE DEF TypeInv, TypeOK
  <2> QED
    BY <2>3, <2>4, <2>6, <2>7, SupervisedMoves
<1>4. ASSUME NEW t \in Tasks, DispatchMark(t) PROVE SupervisedInv'
  <2> DEFINE a == disp.pid
  <2>1. a \in Attempts /\ a \in 0..MaxAttempts /\ shims[t][a].pc # "unborn"
    BY <1>4 DEF DispatchMark, DispatchIs, SupervisedInv, MarksSpawned, Dispatching
  <2>2. /\ UNCHANGED shims
        /\ db' = [db EXCEPT ![t] = MarkDispatched(db[t], a)]
        /\ disp'.todo = [disp.todo EXCEPT ![t] = "skip"]
    BY <1>4 DEF DispatchMark, Update, Dispatching
  <2>3. \A u \in Tasks : disp'.todo[u] # "mark"
    BY <1>4, <2>2 DEF DispatchMark, DispatchIs, OneAtATime, DispatchBusy, Dispatching
  <2>4. db'[t].status = IF db[t].status = "accepted" THEN "running" ELSE db[t].status
    BY <1>0, <2>1, <2>2, TransactionStatus
  <2>5. \A u \in Tasks \ {t} : db'[u] = db[u]
    BY <2>2
  <2>6. CASE db[t].status = "accepted"
    <3>1. shims[t][a].pc \in Alive
      <4>1. shims[t][a].pc \in ShimStep
        BY <2>1 DEF Shim
      <4>2. shims[t][a].pc \notin Ended \cup {"gone"}
        BY <2>1, <2>6 DEF SupervisedInv, NotEndedYet
      <4> QED
        BY <2>1, <4>1, <4>2 DEF ShimStep, Alive
    <3>2. RunningIsSupervised'
      BY <2>1, <2>2, <2>5, <3>1 DEF SupervisedInv, RunningIsSupervised, Alive
    <3>3. NotEndedYet'
      BY <2>2, <2>4, <2>5, <2>6 DEF SupervisedInv, NotEndedYet
    <3>4. MarksSpawned' /\ VerdictIsTerminal'
      BY <2>2, <2>3 DEF SupervisedInv, MarksSpawned, VerdictIsTerminal
    <3> QED
      BY <3>2, <3>3, <3>4 DEF SupervisedInv
  <2>7. CASE db[t].status # "accepted"
    BY <2>2, <2>3, <2>4, <2>5, <2>7, SupervisedFrame
  <2> QED
    BY <2>6, <2>7
<1> QED
  BY <1>1, <1>2, <1>3, <1>4 DEF Dispatcher, DispatchStep

\* The shims and workloads keep SupervisedInv.
LEMMA SupervisedShim ==
    ASSUME TypeInv, SupervisedInv, NEW t \in Tasks, NEW a \in Attempts,
           \/ ShimProcess(t, a) \/ ShimTimesOut(t, a) \/ ShimKills(t, a)
           \/ ShimCrash(t, a) \/ WorkloadExits(t, a)
    PROVE  SupervisedInv'
<1> DEFINE s == shims[t][a]
<1>0. /\ s \in Shim /\ s.out \in Status /\ a \in 0..MaxAttempts
      /\ \A u \in Tasks : db[u] \in Row /\ db[u].status \in Status
  BY MaxAttemptsAssumption DEF TypeInv, TypeOK, Shim, Attempts, Row
<1>1. /\ {"complete", "launch", "launched", "supervise", "dead"} \subseteq Alive
      /\ {"complete", "launch", "launched", "supervise", "dead", "gone", "persist", "write"}
             \subseteq ShimStep
      /\ {"persist", "write", "gone"} \subseteq Ended \cup {"gone"}
      /\ {"cancelled", "failed", "success"} \subseteq Terminal
      /\ {"absent", "cancelled", "failed", "success"} \subseteq Status
      /\ {"none", "alive", "exit0", "exitbad"} = Work
  BY DEF Alive, Unended, Ended, ShimStep, Terminal, Status, Work
<1>2. CASE UNCHANGED <<db, disp>> /\ \E x :
             /\ shims' = [shims EXCEPT ![t][a] = x]
             /\ x.pc \in Alive
             /\ x.pc = "complete" => x.out \in Terminal
  BY <1>2, SupervisedMoves
<1>3. CASE ShimGet(t, a)
  <2>1. CASE IsTerminal(db[t])
    <3>1. [s EXCEPT !.pc = "gone"].pc = "gone"
      BY <1>0, <1>1 DEF Shim
    <3>2. /\ shims' = [shims EXCEPT ![t][a] = [s EXCEPT !.pc = "gone"]]
          /\ UNCHANGED <<db, disp>> /\ db[t].status \in Terminal
      BY <1>3, <2>1 DEF ShimGet, IsTerminal
    <3> QED
      BY <1>1, <3>1, <3>2, SupervisedEnds
  <2>2. CASE ~IsTerminal(db[t])
    <3>1. PICK x \in {[s EXCEPT !.pc = "complete", !.out = "cancelled"],
                      [s EXCEPT !.pc = "launch"]} :
            shims' = [shims EXCEPT ![t][a] = x] /\ UNCHANGED <<db, disp>>
      BY <1>3, <2>2 DEF ShimGet
    <3>2. /\ x.pc \in {"complete", "launch"}
          /\ x.pc = "complete" => x.out \in Terminal
      BY <1>0, <1>1, <3>1 DEF Shim
    <3> QED
      BY <1>1, <1>2, <3>1, <3>2
  <2> QED
    BY <2>1, <2>2
<1>4. CASE ShimLaunch(t, a) \/ ShimLaunchFails(t, a)
  <2>1. PICK w \in {"none", "alive"} :
          \E x \in {[s EXCEPT !.pc = "launched", !.work = w],
                    [s EXCEPT !.pc = "complete", !.work = w, !.out = "failed"]} :
            shims' = [shims EXCEPT ![t][a] = x] /\ UNCHANGED <<db, disp>>
    BY <1>4 DEF ShimLaunch, ShimLaunchFails
  <2>2. PICK x \in {[s EXCEPT !.pc = "launched", !.work = w],
                    [s EXCEPT !.pc = "complete", !.work = w, !.out = "failed"]} :
            shims' = [shims EXCEPT ![t][a] = x] /\ UNCHANGED <<db, disp>>
    BY <2>1
  <2>3. /\ x.pc \in {"complete", "launched"}
        /\ x.pc = "complete" => x.out \in Terminal
    BY <1>0, <1>1, <2>2 DEF Shim
  <2> QED
    BY <1>1, <1>2, <2>2, <2>3
<1>5. CASE ShimStarted(t, a)
  <2>1. /\ shims' = [shims EXCEPT ![t][a] = [s EXCEPT !.pc = "supervise"]]
        /\ db' = [db EXCEPT ![t] = MarkStarted(db[t], a)]
        /\ UNCHANGED disp
    BY <1>5 DEF ShimStarted, ShimGoes, Update
  <2>2. [s EXCEPT !.pc = "supervise"].pc = "supervise"
    BY <1>0, <1>1 DEF Shim
  <2>3. \A u \in Tasks : \/ db'[u].status = db[u].status
                         \/ u = t /\ db'[u].status = "running"
    BY <1>0, <2>1, TransactionStatus DEF TypeInv, TypeOK
  <2> QED
    BY <1>1, <2>1, <2>2, <2>3, SupervisedMoves
<1>6. CASE ShimReaps(t, a)
  <2> DEFINE v == Classify(s.work, s.timeout, db[t].kill)
             x == [s EXCEPT !.pc = "complete", !.timeout = FALSE, !.out = v]
  <2>1. v \in Terminal /\ v \in Status
    BY <1>1 DEF Classify
  <2>2. shims' = [shims EXCEPT ![t][a] = x] /\ UNCHANGED <<db, disp>>
    BY <1>6 DEF ShimReaps
  <2> HIDE DEF v
  <2>3. x.pc = "complete" /\ x.out = v
    BY <1>0, <1>1, <2>1 DEF Shim
  <2> QED
    BY <1>1, <1>2, <2>1, <2>2, <2>3
<1>7. CASE ShimCompletes(t, a)
  <2> DEFINE x == [s EXCEPT !.pc = "persist", !.out = "absent"]
  <2>1. s.out \in Terminal
    BY <1>7 DEF ShimCompletes, ShimIs, SupervisedInv, VerdictIsTerminal
  <2>2. /\ shims' = [shims EXCEPT ![t][a] = x] /\ UNCHANGED disp
        /\ db' = [db EXCEPT ![t] = CompleteTask(db[t], s.out)]
    BY <1>7 DEF ShimCompletes, Update
  <2>3. x.pc = "persist"
    BY <1>0, <1>1 DEF Shim
  <2>4. db'[t].status = s.out /\ \A u \in Tasks \ {t} : db'[u].status = db[u].status
    BY <1>0, <2>2, TransactionStatus DEF TypeInv, TypeOK
  <2> QED
    BY <1>1, <2>1, <2>2, <2>3, <2>4, SupervisedEnds
<1>8. CASE ShimPersists(t, a) \/ ShimWrites(t, a)
  <2>1. PICK x \in {[s EXCEPT !.pc = "write", !.out = db[t].status],
                    [s EXCEPT !.pc = "gone", !.out = "absent"]} :
          shims' = [shims EXCEPT ![t][a] = x] /\ UNCHANGED <<db, disp>>
    BY <1>8 DEF ShimPersists, ShimWrites
  <2>2. x.pc \in {"write", "gone"}
    BY <1>0, <1>1, <2>1 DEF Shim
  <2>3. s.pc \in Ended
    BY <1>8 DEF ShimPersists, ShimWrites, ShimIs, Ended
  <2> QED
    BY <1>1, <2>1, <2>2, <2>3, SupervisedEnds
<1>9. CASE ShimTimesOut(t, a) \/ ShimKills(t, a) \/ WorkloadExits(t, a)
  <2>1. PICK x :
          /\ shims' = [shims EXCEPT ![t][a] = x] /\ UNCHANGED <<db, disp>>
          /\ x.pc = s.pc /\ x.out = s.out
    <3>1. CASE ShimTimesOut(t, a)
      <4>1. /\ shims' = [shims EXCEPT ![t][a] = [s EXCEPT !.timeout = TRUE]]
            /\ UNCHANGED <<db, disp>>
        BY <1>1, <3>1 DEF ShimTimesOut
      <4>2. /\ [s EXCEPT !.timeout = TRUE].pc = s.pc
            /\ [s EXCEPT !.timeout = TRUE].out = s.out
        BY <1>0 DEF Shim
      <4> QED
        BY <4>1, <4>2
    <3>2. CASE ShimKills(t, a) \/ WorkloadExits(t, a)
      <4>1. PICK w \in Work : /\ shims' = [shims EXCEPT ![t][a] = [s EXCEPT !.work = w]]
                              /\ UNCHANGED <<db, disp>>
        BY <1>1, <3>2 DEF ShimKills, WorkloadExits
      <4>2. [s EXCEPT !.work = w].pc = s.pc /\ [s EXCEPT !.work = w].out = s.out
        BY <1>0 DEF Shim
      <4> QED
        BY <4>1, <4>2
    <3> QED
      BY <1>9, <3>1, <3>2
  <2>2. \A u \in Tasks : \A b \in Attempts : /\ shims'[u][b].pc = shims[u][b].pc
                                             /\ shims'[u][b].out = shims[u][b].out
    BY <2>1 DEF TypeInv, TypeOK
  <2> QED
    BY <2>1, <2>2, SupervisedFrame
<1>10. CASE ShimCrash(t, a)
  <2> DEFINE x == [s EXCEPT !.pc = "dead", !.timeout = FALSE, !.out = "absent"]
  <2>1. shims' = [shims EXCEPT ![t][a] = x] /\ UNCHANGED <<db, disp>>
    BY <1>10 DEF ShimCrash
  <2>2. x.pc = "dead"
    BY <1>0, <1>1 DEF Shim
  <2> QED
    BY <1>1, <1>2, <2>1, <2>2
<1> QED
  BY <1>3, <1>4, <1>5, <1>6, <1>7, <1>8, <1>9, <1>10 DEF ShimProcess

\* Submission, kill, crash and recovery keep SupervisedInv: they make no row running.
LEMMA SupervisedOthers ==
    ASSUME TypeInv, SupervisedInv,
           \/ DispatchAbort
           \/ \E t \in Tasks : Submit(t)
           \/ \E t \in Tasks, k \in Killers :
                KillGet(t, k) \/ KillHandler(t, k) \/ KillDropped(t, k)
           \/ Crash
           \/ Recovery
    PROVE  SupervisedInv'
<1> USE DEF TypeInv, TypeOK
<1>0. \A t \in Tasks : db[t] \in Row
  OBVIOUS
<1>1. CASE DispatchAbort \/ \E t \in Tasks : Submit(t)
  <2>1. \A u \in Tasks : \/ db'[u].status = db[u].status
                         \/ {db[u].status, db'[u].status} = {"absent", "accepted"}
    <3>1. \A n : InsertTask(n).status = "accepted"
      BY DEF InsertTask, NoRow
    <3>2. CASE DispatchAbort
      BY <3>2 DEF DispatchAbort
    <3>3. ASSUME NEW t \in Tasks, Submit(t)
          PROVE  \A u \in Tasks : \/ db'[u].status = db[u].status
                                  \/ {db[u].status, db'[u].status} = {"absent", "accepted"}
      BY <3>1, <3>3 DEF Submit, Update
    <3> QED
      BY <1>1, <3>2, <3>3
  <2>2. /\ shims' = shims
        /\ \A u \in Tasks : disp'.todo[u] = "mark" => disp' = disp
    <3>1. CASE DispatchAbort
      BY <3>1 DEF DispatchAbort, Idle
    <3>2. CASE \E t \in Tasks : Submit(t)
      BY <3>2 DEF Submit
    <3> QED
      BY <1>1, <3>1, <3>2
  <2> HIDE DEF TypeInv, TypeOK
  <2> QED
    BY <2>1, <2>2, SupervisedFrame
<1>2. ASSUME NEW t \in Tasks, NEW k \in Killers,
             KillGet(t, k) \/ KillHandler(t, k) \/ KillDropped(t, k)
      PROVE  SupervisedInv'
  <2>1. \A u \in Tasks : db'[u].status = db[u].status \/ db'[u].status \in Terminal
    <3>1. CASE KillFlag(t, k)
      BY <1>0, <3>1, TransactionStatus DEF KillFlag, Update
    <3>2. CASE KillCancel(t, k)
      BY <1>0, <3>2, TransactionStatus DEF KillCancel, Update, Terminal
    <3>3. CASE UNCHANGED db
      BY <3>3
    <3> QED
      BY <1>2, <3>1, <3>2, <3>3
      DEF KillHandler, KillGet, KillRead, KillSignal, KillEscalate, KillDropped
  <2>2. \A u \in Tasks : \A a \in Attempts : /\ shims'[u][a].pc = shims[u][a].pc
                                             /\ shims'[u][a].out = shims[u][a].out
    <3>1. CASE KillEscalate(t, k)
      <4>1. PICK a : \/ UNCHANGED shims
                     \/ shims' = [shims EXCEPT ![t][a].work = "exitbad"]
        BY <3>1 DEF KillEscalate
      <4>2. CASE shims' = [shims EXCEPT ![t][a].work = "exitbad"]
        <5>1. \A s \in Shim : /\ [s EXCEPT !.work = "exitbad"].pc = s.pc
                              /\ [s EXCEPT !.work = "exitbad"].out = s.out
          BY DEF Shim
        <5> QED
          BY <4>2, <5>1
      <4> QED
        BY <4>1, <4>2
    <3>2. CASE UNCHANGED shims
      BY <3>2
    <3> QED
      BY <1>2, <3>1, <3>2 DEF KillHandler, KillGet, KillFlag, KillRead, KillCancel, KillSignal,
                             KillDropped
  <2>3. UNCHANGED disp
    BY <1>2 DEF KillHandler, KillGet, KillFlag, KillRead, KillCancel, KillSignal,
                KillEscalate, KillDropped
  <2> HIDE DEF TypeInv, TypeOK
  <2> QED
    BY <2>1, <2>2, <2>3, SupervisedFrame
<1>3. CASE Crash
  <2>1. /\ UNCHANGED <<db, shims>> /\ \A u \in Tasks : disp'.todo[u] # "mark"
    BY <1>3 DEF Crash, Idle
  <2> HIDE DEF TypeInv, TypeOK
  <2> QED
    BY <2>1, SupervisedFrame
<1>4. CASE Recovery
  <2>1. UNCHANGED <<disp, shims>>
    BY <1>4
    DEF Recovery, RecoverStep, Restart, RecoverEnd, RecoverRelease, RecoverProbe,
        RecoverReserve, RecoverLose, RecoverPersist, RecoverWrite
  <2>2. \A u \in Tasks : db'[u].status = db[u].status \/ db'[u].status \in Terminal
    <3>1. ASSUME NEW t \in Tasks, RecoverRelease(t) \/ RecoverReserve(t) \/ RecoverLose(t)
          PROVE  \A u \in Tasks : db'[u].status = db[u].status \/ db'[u].status \in Terminal
      <4>1. /\ "failed" \in Status /\ "failed" \in Terminal
            /\ ReleaseResources(db[t]).status = db[t].status
            /\ ReserveResources(db[t]).status = db[t].status
            /\ MarkRecoveryLost(db[t]).status = "failed"
        BY <1>0, TransactionStatus DEF MarkRecoveryLost, Status, Terminal
      <4> QED
        BY <3>1, <4>1 DEF RecoverRelease, RecoverReserve, RecoverLose, Update
    <3>2. CASE UNCHANGED db
      BY <3>2
    <3> QED
      BY <1>4, <3>1, <3>2
      DEF Recovery, RecoverStep, Restart, RecoverEnd, RecoverProbe, RecoverPersist,
          RecoverWrite
  <2> HIDE DEF TypeInv, TypeOK
  <2> QED
    BY <2>1, <2>2, SupervisedFrame
<1> QED
  BY <1>1, <1>2, <1>3, <1>4

LEMMA SupervisedInit == Init => SupervisedInv
  BY DEF Init, SupervisedInv, RunningIsSupervised, NotEndedYet, MarksSpawned,
         VerdictIsTerminal, NoRow, NoShim, Idle, Ended

\* SupervisedInv is inductive, given the type invariant.
LEMMA SupervisedNext == TypeInv /\ SupervisedInv /\ [Next]_vars => SupervisedInv'
<1> SUFFICES ASSUME TypeInv, SupervisedInv, [Next]_vars PROVE SupervisedInv'
  OBVIOUS
<1>1. CASE UNCHANGED vars
  BY <1>1 DEF vars, SupervisedInv, RunningIsSupervised, NotEndedYet, MarksSpawned,
              VerdictIsTerminal
<1>2. CASE Next
  BY <1>2, SupervisedDispatch, SupervisedShim, SupervisedOthers DEF Next
<1> QED
  BY <1>1, <1>2

\* No row is left running by actors that did their job: whatever the order of
\* mark_dispatched, mark_started, complete_task, kills, crashes and recoveries, a
\* running row has a shim that is still to call complete_task, or that crashed.
THEOREM RunningSupervised == Spec => []RunningIsSupervised
<1>1. Init => TypeInv /\ SupervisedInv
  BY TypeInvInit, SupervisedInit
<1>2. (TypeInv /\ SupervisedInv) /\ [Next]_vars => (TypeInv /\ SupervisedInv)'
  BY TypeInvNext, SupervisedNext
<1>3. TypeInv /\ SupervisedInv => RunningIsSupervised
  BY DEF SupervisedInv
<1> QED
  BY <1>1, <1>2, <1>3, PTL DEF Spec
=============================================================================
