--------------------- MODULE TaskRuntimeDispatch_proofs ---------------------
(***************************************************************************)
(* What the dispatcher keeps to, for every set of tasks and of kill        *)
(* requests, whatever crashes of shims and errors of cycles there are: the *)
(* slots are respected until the server first crashes, and an incarnation  *)
(* of the server spawns at most one shim for a task.                       *)
(***************************************************************************)
EXTENDS TaskRuntime_proofs

\* Reservations the dispatcher has in its count although they may be released, or
\* are about to be: the ones it will give back if the spawn failed.
Pending == {t \in Tasks : disp.todo[t] \in {"spawn", "fail"}}

\* What the count of a cycle is worth: it never falls below the reservations there
\* are, although kills and shims release them behind the dispatcher's back, and it
\* still holds each one the dispatcher may subtract, released or not.
CountCovers == disp.pc # "idle" => Cardinality(Reserved \cup Pending) <= disp.reserved

WithinSlots == Cardinality(Reserved) <= Slots

SlotsHold == CountCovers /\ WithinSlots

SlotsInv == server.life = 0 => server.phase = "up" /\ SlotsHold

-----------------------------------------------------------------------------
(* Counting *)

LEMMA CountSubset ==
    ASSUME NEW S \in SUBSET Tasks, NEW T \in SUBSET S
    PROVE  /\ Cardinality(T) <= Cardinality(S)
           /\ Cardinality(T) \in Nat /\ Cardinality(S) \in Nat
<1>1. IsFiniteSet(S) /\ IsFiniteSet(T)
  BY TasksAssumption, FS_Subset
<1>2. Cardinality(T) <= Cardinality(S)
  BY <1>1, FS_Subset
<1> QED
  BY <1>1, <1>2, FS_CardinalityType

LEMMA CountAdd ==
    ASSUME NEW S \in SUBSET Tasks, NEW t \in Tasks
    PROVE  Cardinality(S \cup {t}) <= Cardinality(S) + 1
<1>1. IsFiniteSet(S)
  BY TasksAssumption, FS_Subset
<1>2. Cardinality(S \cup {t}) = (IF t \in S THEN Cardinality(S) ELSE Cardinality(S) + 1)
  BY <1>1, FS_AddElement
<1>3. Cardinality(S) \in Nat
  BY <1>1, FS_CardinalityType
<1> QED
  BY <1>2, <1>3

LEMMA CountRemove ==
    ASSUME NEW S \in SUBSET Tasks, NEW t \in S
    PROVE  Cardinality(S \ {t}) = Cardinality(S) - 1
<1>1. IsFiniteSet(S)
  BY TasksAssumption, FS_Subset
<1>2. Cardinality(S \ {t}) = (IF t \in S THEN Cardinality(S) - 1 ELSE Cardinality(S))
  BY <1>1, FS_RemoveElement
<1> QED
  BY <1>2

\* Only reserve_resources makes a reservation active.
LEMMA TransactionReservation ==
    ASSUME NEW row \in Row
    PROVE  /\ \A n \in Nat : ~HasActiveReservation(InsertTask(n))
           /\ \A a \in 0..MaxAttempts :
                /\ HasActiveReservation(MarkDispatched(row, a)) => HasActiveReservation(row)
                /\ HasActiveReservation(MarkStarted(row, a)) => HasActiveReservation(row)
           /\ HasActiveReservation(SetCancelRequested(row)) => HasActiveReservation(row)
           /\ HasActiveReservation(CancelAccepted(row)) => HasActiveReservation(row)
           /\ \A verdict \in Status : ~HasActiveReservation(CompleteTask(row, verdict))
<1>1. ASSUME NEW n \in Nat PROVE ~HasActiveReservation(InsertTask(n))
  BY DEF InsertTask, NoRow, HasActiveReservation
<1>2. ASSUME NEW a \in 0..MaxAttempts
      PROVE  /\ HasActiveReservation(MarkDispatched(row, a)) => HasActiveReservation(row)
             /\ HasActiveReservation(MarkStarted(row, a)) => HasActiveReservation(row)
  BY DEF MarkDispatched, MarkStarted, HasActiveReservation, Row
<1>3. HasActiveReservation(SetCancelRequested(row)) => HasActiveReservation(row)
  BY DEF SetCancelRequested, HasActiveReservation, Row
<1>4. HasActiveReservation(CancelAccepted(row)) => HasActiveReservation(row)
  BY DEF CancelAccepted, ResAfterEnd, HasActiveReservation, Row
<1>5. ASSUME NEW verdict \in Status
      PROVE  ~HasActiveReservation(CompleteTask(row, verdict))
  BY DEF CompleteTask, ResAfterEnd, HasActiveReservation, Row
<1> QED
  BY <1>1, <1>2, <1>3, <1>4, <1>5

-----------------------------------------------------------------------------
(* Steps *)

\* Whoever makes no reservation and leaves the dispatcher alone keeps the invariant.
LEMMA SlotsFrame ==
    ASSUME TypeInv, SlotsHold,
           \A t \in Tasks : HasActiveReservation(db'[t]) => HasActiveReservation(db[t]),
           disp' = disp
    PROVE  SlotsHold'
<1>1. Reserved' \subseteq Reserved /\ Pending' = Pending
  BY DEF Reserved, Pending
<1>2. /\ Cardinality(Reserved') <= Cardinality(Reserved)
      /\ Cardinality(Reserved' \cup Pending') <= Cardinality(Reserved \cup Pending)
      /\ Cardinality(Reserved') \in Nat /\ Cardinality(Reserved) \in Nat
      /\ Cardinality(Reserved' \cup Pending') \in Nat
      /\ Cardinality(Reserved \cup Pending) \in Nat
  <2>1. /\ Reserved \in SUBSET Tasks /\ Pending \in SUBSET Tasks
        /\ (Reserved \cup Pending) \in SUBSET Tasks
    BY DEF Reserved, Pending
  <2>2. (Reserved' \cup Pending') \in SUBSET (Reserved \cup Pending)
    BY <1>1
  <2>3. Reserved' \in SUBSET Reserved
    BY <1>1
  <2> HIDE DEF Reserved, Pending
  <2> QED
    BY <2>1, <2>2, <2>3, CountSubset
<1>3. disp.reserved \in Nat
  BY DEF TypeInv, TypeOK, Dispatching
<1> QED
  BY <1>2, <1>3, LimitsAssumption DEF SlotsHold, CountCovers, WithinSlots

\* One row changes by a transaction that makes no reservation.
LEMMA SlotsUpdate ==
    ASSUME TypeInv, NEW t \in Tasks, NEW row, Update(t, row),
           HasActiveReservation(row) => HasActiveReservation(db[t])
    PROVE  \A u \in Tasks : HasActiveReservation(db'[u]) => HasActiveReservation(db[u])
  BY DEF Update, TypeInv, TypeOK

LEMMA SlotsDispatch ==
    ASSUME TypeInv, SlotsHold, Dispatcher \/ DispatchAbort
    PROVE  SlotsHold'
<1>0. /\ disp \in Dispatching /\ db \in [Tasks -> Row] /\ disp.reserved \in Nat
      /\ Slots \in Nat
      /\ Reserved \in SUBSET Tasks /\ (Reserved \cup Pending) \in SUBSET Tasks
  BY LimitsAssumption DEF TypeInv, TypeOK, Dispatching, Reserved, Pending
<1>1. ASSUME disp'.pc = "idle", Reserved' = Reserved PROVE SlotsHold'
  BY <1>0, <1>1 DEF SlotsHold, CountCovers, WithinSlots
\* The set of counted reservations shrinks, the count does not.
<1>2. ASSUME disp.pc # "idle", disp'.reserved = disp.reserved,
             Reserved' \subseteq Reserved, Pending' \subseteq Reserved \cup Pending
      PROVE  SlotsHold'
  <2>1. /\ Reserved' \in SUBSET Reserved
        /\ (Reserved' \cup Pending') \in SUBSET (Reserved \cup Pending)
    BY <1>2
  <2> HIDE DEF Reserved, Pending
  <2>2. /\ Cardinality(Reserved') <= Cardinality(Reserved)
        /\ Cardinality(Reserved') \in Nat /\ Cardinality(Reserved) \in Nat
    BY <1>0, <2>1, CountSubset
  <2>3. /\ Cardinality(Reserved' \cup Pending') <= Cardinality(Reserved \cup Pending)
        /\ Cardinality(Reserved' \cup Pending') \in Nat
        /\ Cardinality(Reserved \cup Pending) \in Nat
    BY <1>0, <2>1, CountSubset
  <2> QED
    BY <1>0, <1>2, <2>2, <2>3 DEF SlotsHold, CountCovers, WithinSlots
<1>3. CASE DispatchCount
  <2>1. /\ disp'.reserved = Cardinality(Reserved) /\ disp'.todo = disp.todo
        /\ Reserved' = Reserved
    BY <1>0, <1>3 DEF DispatchCount, Dispatching, Reserved
  <2>2. Pending' = {}
    BY <1>3, <2>1 DEF DispatchCount, TypeInv, NothingLeft, Pending
  <2>3. Reserved' \cup Pending' = Reserved
    BY <2>1, <2>2
  <2>4. Cardinality(Reserved) \in Nat
    BY <1>0, TaskCount
  <2> HIDE DEF Reserved, Pending
  <2> QED
    BY <1>0, <2>1, <2>3, <2>4 DEF SlotsHold, CountCovers, WithinSlots
<1>4. CASE DispatchList
  <2>1. /\ disp'.reserved = disp.reserved
        /\ \A t \in Tasks : disp'.todo[t] \in {"skip", "cancel", "start"}
    BY <1>0, <1>4 DEF DispatchList, Dispatching, TodoOf
  <2>2. Pending' = {} /\ Reserved' = Reserved
    BY <1>4, <2>1 DEF Pending, Reserved, DispatchList
  <2> QED
    BY <1>2, <1>4, <2>1, <2>2 DEF DispatchList
<1>5. CASE DispatchEnd \/ DispatchAbort
  BY <1>1, <1>5 DEF DispatchEnd, DispatchAbort, Idle, Reserved
<1>6. ASSUME NEW t \in Tasks,
             \/ DispatchPass(t) \/ DispatchSpawn(t) \/ DispatchSpawnFails(t)
             \/ DispatchPersist(t) \/ DispatchWrite(t)
      PROVE  SlotsHold'
  <2>1. /\ disp.pc # "idle"
        /\ Reserved' = Reserved
    BY <1>6 DEF DispatchPass, DispatchSpawn, DispatchSpawnFails, DispatchPersist,
                DispatchWrite, TakesUp, DispatchIs, Reserved
  <2>2. PICK step : /\ disp'.todo = [disp.todo EXCEPT ![t] = step]
                    /\ step \in {"spawn", "fail"} => disp.todo[t] = "spawn"
                    /\ disp'.reserved = disp.reserved
    <3>1. CASE DispatchPass(t)
      BY <1>0, <3>1 DEF DispatchPass, DispatchGoes, Dispatching
    <3>2. CASE DispatchSpawn(t)
      BY <1>0, <3>2 DEF DispatchSpawn, Dispatching
    <3>3. CASE DispatchSpawnFails(t)
      BY <1>0, <3>3 DEF DispatchSpawnFails, DispatchGoes, DispatchIs, Dispatching
    <3>4. CASE DispatchPersist(t)
      BY <1>0, <3>4 DEF DispatchPersist, Dispatching
    <3>5. CASE DispatchWrite(t)
      BY <1>0, <3>5 DEF DispatchWrite, Dispatching
    <3> QED
      BY <1>6, <3>1, <3>2, <3>3, <3>4, <3>5
  <2>3. Pending' \subseteq Pending
    BY <1>0, <2>2 DEF Pending, Dispatching
  <2> QED
    BY <1>2, <2>1, <2>2, <2>3
<1>7. ASSUME NEW t \in Tasks, DispatchCancel(t) \/ DispatchMark(t) PROVE SlotsHold'
  <2>1. disp.pc # "idle"
    BY <1>7 DEF DispatchCancel, DispatchMark, TakesUp, DispatchIs
  <2>2. PICK step \in {"persist", "skip"} : /\ disp'.todo = [disp.todo EXCEPT ![t] = step]
                                            /\ disp'.reserved = disp.reserved
    <3>1. CASE DispatchCancel(t)
      BY <1>0, <3>1 DEF DispatchCancel, DispatchGoes, Dispatching
    <3>2. CASE DispatchMark(t)
      BY <1>0, <3>2 DEF DispatchMark, Dispatching
    <3> QED
      BY <1>7, <3>1, <3>2
  <2>3. Pending' \subseteq Pending
    BY <1>0, <2>2 DEF Pending, Dispatching
  <2>4. Reserved' \subseteq Reserved
    <3>1. disp.pid \in 0..MaxAttempts /\ db[t] \in Row
      BY <1>0 DEF Dispatching
    <3>2. \A u \in Tasks : HasActiveReservation(db'[u]) => HasActiveReservation(db[u])
      BY <1>7, <3>1, SlotsUpdate, TransactionReservation DEF DispatchCancel, DispatchMark
    <3> QED
      BY <3>2 DEF Reserved
  <2> QED
    BY <1>2, <2>1, <2>2, <2>3, <2>4
<1>8. ASSUME NEW t \in Tasks, DispatchReserve(t) PROVE SlotsHold'
  <2>1. /\ disp.pc # "idle" /\ disp.reserved + 1 <= Slots
        /\ disp'.todo = [disp.todo EXCEPT ![t] = "spawn"]
        /\ disp'.reserved = disp.reserved + 1
    BY <1>0, <1>8 DEF DispatchReserve, TakesUp, CanReserve, Dispatching
  <2>2. Reserved' \subseteq Reserved \cup {t}
    BY <1>0, <1>8 DEF DispatchReserve, Update, Reserved
  <2>3. Pending' \subseteq Pending \cup {t}
    BY <1>0, <2>1 DEF Pending, Dispatching
  <2>4. /\ (Reserved \cup Pending) \cup {t} \in SUBSET Tasks
        /\ Reserved' \cup Pending' \in SUBSET ((Reserved \cup Pending) \cup {t})
        /\ Reserved' \in SUBSET (Reserved' \cup Pending')
        /\ Reserved' \cup Pending' \in SUBSET Tasks
    BY <1>0, <2>2, <2>3
  <2> HIDE DEF Reserved, Pending
  <2> DEFINE n == Cardinality(Reserved \cup Pending)
             m == Cardinality((Reserved \cup Pending) \cup {t})
             m1 == Cardinality(Reserved' \cup Pending')
  <2>5. m <= n + 1 /\ n \in Nat
    BY <1>0, CountAdd, TaskCount
  <2>6. m1 <= m /\ m1 \in Nat /\ m \in Nat
    BY <2>4, CountSubset
  <2>7. Cardinality(Reserved') <= m1 /\ Cardinality(Reserved') \in Nat
    BY <2>4, CountSubset
  <2>8. n <= disp.reserved
    BY <1>0, <2>1 DEF SlotsHold, CountCovers
  <2> HIDE DEF n, m, m1
  <2>9. m1 <= disp.reserved + 1 /\ Cardinality(Reserved') <= Slots
    BY <1>0, <2>1, <2>5, <2>6, <2>7, <2>8
  <2> QED
    BY <1>0, <2>1, <2>9 DEF SlotsHold, CountCovers, WithinSlots, m1
<1>9. ASSUME NEW t \in Tasks, DispatchFail(t) PROVE SlotsHold'
  <2>1. /\ disp.pc # "idle" /\ disp.todo[t] = "fail"
        /\ disp'.todo = [disp.todo EXCEPT ![t] = "persist"]
        /\ disp'.reserved = disp.reserved - 1
    BY <1>0, <1>9 DEF DispatchFail, DispatchIs, Dispatching
  <2>2. Reserved' \subseteq Reserved \ {t}
    <3>1. db[t] \in Row /\ "failed" \in Status
      BY <1>0 DEF Status, Terminal
    <3>2. /\ db'[t] = CompleteTask(db[t], "failed")
          /\ \A u \in Tasks \ {t} : db'[u] = db[u]
      BY <1>0, <1>9 DEF DispatchFail, Update
    <3>3. ~HasActiveReservation(db'[t])
      BY <3>1, <3>2, TransactionReservation
    <3> QED
      BY <3>2, <3>3 DEF Reserved
  <2>3. Pending' \subseteq Pending \ {t} /\ t \in Pending
    BY <1>0, <2>1 DEF Pending, Dispatching
  <2>4. /\ t \in Reserved \cup Pending
        /\ (Reserved \cup Pending) \ {t} \in SUBSET Tasks
        /\ Reserved' \cup Pending' \in SUBSET ((Reserved \cup Pending) \ {t})
        /\ Reserved' \in SUBSET Reserved
    BY <1>0, <2>2, <2>3
  <2> HIDE DEF Reserved, Pending
  <2> DEFINE n == Cardinality(Reserved \cup Pending)
             m == Cardinality((Reserved \cup Pending) \ {t})
             m1 == Cardinality(Reserved' \cup Pending')
  <2>5. m = n - 1 /\ n \in Nat
    BY <1>0, <2>4, CountRemove, TaskCount
  <2>6. m1 <= m /\ m1 \in Nat /\ m \in Nat
    BY <2>4, CountSubset
  <2>7. /\ Cardinality(Reserved') <= Cardinality(Reserved)
        /\ Cardinality(Reserved') \in Nat /\ Cardinality(Reserved) \in Nat
    BY <1>0, <2>4, CountSubset
  <2>8. n <= disp.reserved
    BY <1>0, <2>1 DEF SlotsHold, CountCovers
  <2> HIDE DEF n, m, m1
  <2>9. m1 <= disp.reserved - 1
    BY <1>0, <2>5, <2>6, <2>8
  <2> QED
    BY <1>0, <2>1, <2>7, <2>9 DEF SlotsHold, CountCovers, WithinSlots, m1
<1> QED
  BY <1>3, <1>4, <1>5, <1>6, <1>7, <1>8, <1>9 DEF Dispatcher, DispatchStep

\* Clients, kills and shims make no reservation.
LEMMA SlotsOthers ==
    ASSUME TypeInv, SlotsHold,
           \/ \E t \in Tasks : Submit(t)
           \/ \E t \in Tasks, k \in Killers :
                KillGet(t, k) \/ KillHandler(t, k) \/ KillDropped(t, k)
           \/ \E t \in Tasks, a \in Attempts :
                \/ ShimProcess(t, a) \/ ShimTimesOut(t, a) \/ ShimKills(t, a)
                \/ ShimCrash(t, a) \/ WorkloadExits(t, a)
    PROVE  SlotsHold'
<1>0. disp' = disp
  <2>1. ASSUME NEW t \in Tasks, Submit(t) PROVE disp' = disp
    BY <2>1 DEF Submit
  <2>2. ASSUME NEW t \in Tasks, NEW k \in Killers,
               KillGet(t, k) \/ KillHandler(t, k) \/ KillDropped(t, k)
        PROVE  disp' = disp
    BY <2>2 DEF KillGet, KillHandler, KillDropped, KillFlag, KillRead, KillCancel,
                KillSignal, KillEscalate
  <2>3. ASSUME NEW t \in Tasks, NEW a \in Attempts,
               \/ ShimProcess(t, a) \/ ShimTimesOut(t, a) \/ ShimKills(t, a)
               \/ ShimCrash(t, a) \/ WorkloadExits(t, a)
        PROVE  disp' = disp
    BY <2>3 DEF ShimProcess, ShimTimesOut, ShimKills, ShimCrash, WorkloadExits, ShimGet,
                ShimLaunch, ShimLaunchFails, ShimStarted, ShimReaps, ShimCompletes,
                ShimPersists, ShimWrites
  <2> QED
    BY <2>1, <2>2, <2>3
<1>1. ASSUME NEW t \in Tasks, NEW row, Update(t, row),
             HasActiveReservation(row) => HasActiveReservation(db[t])
      PROVE  SlotsHold'
  BY <1>0, <1>1, SlotsUpdate, SlotsFrame
<1>2. ASSUME UNCHANGED db PROVE SlotsHold'
  BY <1>0, <1>2, SlotsFrame
<1>3. \A t \in Tasks : db[t] \in Row
  BY DEF TypeInv, TypeOK
<1>4. ASSUME NEW t \in Tasks, Submit(t) PROVE SlotsHold'
  <2> DEFINE n == 1 + Cardinality({u \in Tasks : db[u].status # "absent"})
  <2>1. Update(t, InsertTask(n))
    BY <1>4 DEF Submit
  <2>2. ~HasActiveReservation(InsertTask(n))
    BY DEF InsertTask, NoRow, HasActiveReservation
  <2> HIDE DEF n
  <2> QED
    BY <1>1, <2>1, <2>2
<1>5. ASSUME NEW t \in Tasks, NEW k \in Killers,
             KillGet(t, k) \/ KillHandler(t, k) \/ KillDropped(t, k)
      PROVE  SlotsHold'
  <2>1. CASE KillFlag(t, k)
    BY <1>1, <1>3, <2>1, TransactionReservation DEF KillFlag
  <2>2. CASE KillCancel(t, k)
    BY <1>1, <1>3, <2>2, TransactionReservation DEF KillCancel
  <2>3. CASE UNCHANGED db
    BY <1>2, <2>3
  <2> QED
    BY <1>5, <2>1, <2>2, <2>3
    DEF KillGet, KillHandler, KillDropped, KillRead, KillSignal, KillEscalate
<1>6. ASSUME NEW t \in Tasks, NEW a \in Attempts,
             \/ ShimProcess(t, a) \/ ShimTimesOut(t, a) \/ ShimKills(t, a)
             \/ ShimCrash(t, a) \/ WorkloadExits(t, a)
      PROVE  SlotsHold'
  <2>1. CASE ShimStarted(t, a)
    <3>1. a \in 0..MaxAttempts
      BY MaxAttemptsAssumption DEF Attempts
    <3> QED
      BY <1>1, <1>3, <2>1, <3>1, TransactionReservation DEF ShimStarted
  <2>2. CASE ShimCompletes(t, a)
    <3>1. shims[t][a].out \in Status
      BY DEF TypeInv, TypeOK, Shim
    <3> QED
      BY <1>1, <1>3, <2>2, <3>1, TransactionReservation DEF ShimCompletes
  <2>3. CASE UNCHANGED db
    BY <1>2, <2>3
  <2> QED
    BY <1>6, <2>1, <2>2, <2>3
    DEF ShimProcess, ShimTimesOut, ShimKills, ShimCrash, WorkloadExits, ShimGet,
        ShimLaunch, ShimLaunchFails, ShimReaps, ShimPersists, ShimWrites
<1> QED
  BY <1>4, <1>5, <1>6

\* Only a crash and recover change the state of the server.
LEMMA ServerKept ==
    ASSUME TypeInv, Next, ~Crash, ~Recovery
    PROVE  server' = server /\ recov' = recov
<1>1. ASSUME NEW t \in Tasks, DispatchStep(t) PROVE server' = server /\ recov' = recov
  BY <1>1 DEF DispatchStep, DispatchCancel, DispatchPass, DispatchReserve, DispatchSpawn,
              DispatchMark, DispatchSpawnFails, DispatchFail, DispatchPersist, DispatchWrite
<1>2. CASE Dispatcher \/ DispatchAbort
  BY <1>1, <1>2 DEF Dispatcher, DispatchAbort, DispatchCount, DispatchList, DispatchEnd
<1>3. ASSUME NEW t \in Tasks, Submit(t) PROVE server' = server /\ recov' = recov
  BY <1>3 DEF Submit
<1>4. ASSUME NEW t \in Tasks, NEW k \in Killers,
             KillGet(t, k) \/ KillHandler(t, k) \/ KillDropped(t, k)
      PROVE  server' = server /\ recov' = recov
  BY <1>4 DEF KillGet, KillHandler, KillDropped, KillFlag, KillRead, KillCancel,
              KillSignal, KillEscalate
<1>5. ASSUME NEW t \in Tasks, NEW a \in Attempts,
             \/ ShimProcess(t, a) \/ ShimTimesOut(t, a) \/ ShimKills(t, a)
             \/ ShimCrash(t, a) \/ WorkloadExits(t, a)
      PROVE  server' = server /\ recov' = recov
  BY <1>5 DEF ShimProcess, ShimTimesOut, ShimKills, ShimCrash, WorkloadExits, ShimGet,
              ShimLaunch, ShimLaunchFails, ShimStarted, ShimReaps, ShimCompletes,
              ShimPersists, ShimWrites
<1> QED
  BY <1>2, <1>3, <1>4, <1>5 DEF Next

\* recover runs while the dispatcher does not.
LEMMA RecoveryAlone ==
    ASSUME TypeInv, Recovery
    PROVE  server.phase # "up" /\ server'.life = server.life /\ disp' = disp
<1>1. server.phase # "up" /\ disp' = disp
  BY DEF Recovery, Restart, RecoverEnd, RecoverStep, RecoverRelease, RecoverProbe,
         RecoverReserve, RecoverLose, RecoverPersist, RecoverWrite, Recovers, RecoverIs
<1>2. server'.life = server.life
  BY DEF Recovery, Restart, RecoverEnd, RecoverStep, RecoverRelease, RecoverProbe,
         RecoverReserve, RecoverLose, RecoverPersist, RecoverWrite, TypeInv, TypeOK
<1> QED
  BY <1>1, <1>2

\* What the step of an actor other than recover does to the slots.
LEMMA SlotsStep ==
    ASSUME TypeInv, SlotsHold, Next, ~Crash, ~Recovery
    PROVE  SlotsHold'
  BY SlotsDispatch, SlotsOthers DEF Next

LEMMA SlotsInit == Init => SlotsInv
<1> SUFFICES ASSUME Init PROVE SlotsInv
  OBVIOUS
<1>1. Reserved = {}
  BY DEF Init, Reserved, NoRow, HasActiveReservation
<1>2. Cardinality(Reserved) = 0
  BY <1>1, FS_EmptySet
<1> QED
  BY <1>2, LimitsAssumption DEF Init, Idle, SlotsInv, SlotsHold, CountCovers, WithinSlots

\* SlotsInv is inductive, given the type invariant.
LEMMA SlotsNext == TypeInv /\ SlotsInv /\ [Next]_vars => SlotsInv'
<1> SUFFICES ASSUME TypeInv, SlotsInv, [Next]_vars PROVE SlotsInv'
  OBVIOUS
<1>1. CASE UNCHANGED vars
  BY <1>1 DEF vars, SlotsInv, SlotsHold, CountCovers, WithinSlots, Reserved, Pending
<1>2. CASE Next /\ ~Crash /\ ~Recovery
  BY <1>2, ServerKept, SlotsStep DEF SlotsInv
<1>3. CASE Crash
  <2>1. server'.life # 0
    BY <1>3, BoundsAssumption DEF Crash, TypeInv, TypeOK
  <2> QED
    BY <2>1 DEF SlotsInv
<1>4. CASE Recovery
  BY <1>4, RecoveryAlone DEF SlotsInv
<1> QED
  BY <1>1, <1>2, <1>3, <1>4

\* Never more than max_running_tasks active reservations before the server's first
\* crash: kills, shims and failed cycles only release reservations behind the
\* dispatcher's back, so the count it took at the start of its cycle
\* (dispatch_once_sync) errs on the safe side, and what it subtracts after a failed
\* spawn it had added itself.
THEOREM SlotsRespectedUntilCrash == Spec => [](server.life = 0 => SlotsRespected)
<1>1. SlotsInv => (server.life = 0 => SlotsRespected)
  BY DEF SlotsInv, SlotsHold, WithinSlots, SlotsRespected
<1> QED
  BY <1>1, SlotsInit, SlotsNext, TypeInvInit, TypeInvNext, PTL DEF Spec

-----------------------------------------------------------------------------
(* One shim per incarnation *)

\* The shim a was started for t.
Spawned(t, a) == shims[t][a].pc # "unborn"

\* This incarnation of the server started a shim for t.
SpawnedNow(t) == \E a \in Attempts : Spawned(t, a) /\ shims[t][a].life = server.life

\* Shims come from this incarnation or an earlier one; while the server is down or
\* recovers it has started none yet.
LivesPast ==
    \A t \in Tasks, a \in Attempts : Spawned(t, a) =>
        /\ shims[t][a].life <= server.life
        /\ server.phase # "up" => shims[t][a].life < server.life

DispatcherWaits == server.phase # "up" => \A t \in Tasks : disp.todo[t] = "skip"

\* A row that is still accepted although its shim was started keeps its reservation,
\* and that is what keeps the dispatcher from starting it again.
SpawnedHolds ==
    \A t \in Tasks : SpawnedNow(t) /\ db[t].status = "accepted"
                       => HasActiveReservation(db[t])

\* What the dispatcher is about to start was not started by this incarnation.
StartsFresh ==
    \A t \in Tasks : disp.todo[t] \in {"start", "spawn"} =>
        ~SpawnedNow(t) /\ db[t].status # "absent"

SpawnHolds ==
    \A t \in Tasks : disp.todo[t] = "spawn" /\ db[t].status = "accepted"
                       => HasActiveReservation(db[t])

AbsentUnborn ==
    \A t \in Tasks : db[t].status = "absent" => \A a \in Attempts : ~Spawned(t, a)

LivesInv == /\ OneShimPerLife /\ LivesPast /\ DispatcherWaits /\ SpawnedHolds
            /\ StartsFresh /\ SpawnHolds /\ AbsentUnborn

-----------------------------------------------------------------------------
(* Transactions and steps *)

\* No transaction takes the reservation of a row it leaves accepted, makes a row
\* accepted again or removes it (release_resources is recover's alone).
Keeps(old, new) ==
    /\ new.status = "accepted" => /\ old.status = "accepted"
                                  /\ HasActiveReservation(old) => HasActiveReservation(new)
    /\ new.status = "absent" => old.status = "absent"

LEMMA TransactionKeeps ==
    ASSUME NEW row \in Row
    PROVE  /\ Keeps(row, row)
           /\ \A a \in 0..MaxAttempts : /\ Keeps(row, MarkDispatched(row, a))
                                        /\ Keeps(row, MarkStarted(row, a))
           /\ Keeps(row, ReserveResources(row))
           /\ Keeps(row, SetCancelRequested(row))
           /\ Keeps(row, CancelAccepted(row))
           /\ \A verdict \in Terminal : Keeps(row, CompleteTask(row, verdict))
<1>1. Keeps(row, row)
  BY DEF Keeps
<1>2. ASSUME NEW a \in 0..MaxAttempts
      PROVE  Keeps(row, MarkDispatched(row, a)) /\ Keeps(row, MarkStarted(row, a))
  BY DEF Keeps, MarkDispatched, MarkStarted, HasActiveReservation, Row
<1>3. Keeps(row, ReserveResources(row)) /\ Keeps(row, SetCancelRequested(row))
  BY DEF Keeps, ReserveResources, SetCancelRequested, HasActiveReservation, Row
<1>4. Keeps(row, CancelAccepted(row))
  BY DEF Keeps, CancelAccepted, HasActiveReservation, Row
<1>5. ASSUME NEW verdict \in Terminal PROVE Keeps(row, CompleteTask(row, verdict))
  BY DEF Keeps, CompleteTask, Row, Terminal
<1> QED
  BY <1>1, <1>2, <1>3, <1>4, <1>5

\* Rows of which one changes by such a transaction.
LEMMA UpdateKeeps ==
    ASSUME TypeInv, NEW t \in Tasks, NEW row, Update(t, row), Keeps(db[t], row)
    PROVE  \A u \in Tasks : Keeps(db[u], db'[u])
  BY DEF Update, Keeps, TypeInv, TypeOK

\* A step that starts no shim and gives the dispatcher nothing new to start.
LEMMA LivesFrame ==
    ASSUME TypeInv, LivesInv, server' = server,
           \A t \in Tasks, a \in Attempts : /\ shims'[t][a].life = shims[t][a].life
                                            /\ Spawned(t, a)' <=> Spawned(t, a),
           \A t \in Tasks : Keeps(db[t], db'[t]),
           \A t \in Tasks : disp'.todo[t] \in {"start", "spawn"}
                              => disp'.todo[t] = disp.todo[t],
           server.phase # "up" => disp' = disp
    PROVE  LivesInv'
<1>1. \A t \in Tasks : SpawnedNow(t)' <=> SpawnedNow(t)
  BY DEF SpawnedNow
<1>2. OneShimPerLife' /\ LivesPast'
  <2>1. OneShimPerLife /\ LivesPast
    BY DEF LivesInv
  <2> QED
    BY <2>1 DEF OneShimPerLife, LivesPast, Spawned
<1>3. DispatcherWaits'
  BY DEF LivesInv, DispatcherWaits
<1>4. SpawnedHolds'
  BY <1>1 DEF LivesInv, SpawnedHolds, Keeps
<1>5. StartsFresh'
  BY <1>1 DEF LivesInv, StartsFresh, Keeps
<1>6. SpawnHolds'
  BY DEF LivesInv, SpawnHolds, Keeps
<1>7. AbsentUnborn'
  BY DEF LivesInv, AbsentUnborn, Keeps
<1> QED
  BY <1>2, <1>3, <1>4, <1>5, <1>6, <1>7 DEF LivesInv

-----------------------------------------------------------------------------
(* The actors *)

LEMMA LivesDispatch ==
    ASSUME TypeInv, LivesInv, Dispatcher \/ DispatchAbort
    PROVE  LivesInv'
<1>0. /\ server' = server /\ server.phase = "up"
      /\ db \in [Tasks -> Row] /\ disp \in Dispatching
      /\ disp.pid \in 0..MaxAttempts
  <2>1. server' = server /\ server.phase = "up"
    <3>1. ASSUME NEW t \in Tasks, DispatchStep(t)
          PROVE  server' = server /\ server.phase = "up"
      BY <3>1 DEF Up, TakesUp, DispatchStep, DispatchCancel, DispatchPass,
                  DispatchReserve, DispatchSpawn, DispatchMark, DispatchSpawnFails,
                  DispatchFail, DispatchPersist, DispatchWrite
    <3> QED
      BY <3>1 DEF Up, Dispatcher, DispatchAbort, DispatchCount, DispatchList, DispatchEnd
  <2>2. /\ db \in [Tasks -> Row] /\ disp \in Dispatching
        /\ disp.pid \in 0..MaxAttempts
    BY DEF TypeInv, TypeOK, Dispatching
  <2> QED
    BY <2>1, <2>2
<1>00. \A t \in Tasks : db[t] \in Row /\ Keeps(db[t], db[t])
  BY <1>0, TransactionKeeps
<1>1. ASSUME UNCHANGED shims, \A t \in Tasks : Keeps(db[t], db'[t]),
             \A t \in Tasks : disp'.todo[t] \in {"start", "spawn"}
                                => disp'.todo[t] = disp.todo[t]
      PROVE  LivesInv'
  BY <1>0, <1>1, LivesFrame DEF Spawned
<1>2. CASE DispatchCount \/ DispatchEnd \/ DispatchAbort
  <2>1. UNCHANGED <<db, shims>>
    BY <1>2 DEF DispatchCount, DispatchEnd, DispatchAbort
  <2>2. \A t \in Tasks : disp'.todo[t] = "skip" \/ disp'.todo[t] = disp.todo[t]
    <3>1. CASE DispatchCount
      BY <1>0, <3>1 DEF DispatchCount, Dispatching
    <3>2. CASE DispatchEnd \/ DispatchAbort
      BY <3>2 DEF DispatchEnd, DispatchAbort, Idle
    <3> QED
      BY <1>2, <3>1, <3>2
  <2> QED
    BY <1>00, <1>1, <2>1, <2>2
<1>3. CASE DispatchList
  <2>1. UNCHANGED <<db, shims, server>>
    BY <1>3 DEF DispatchList
  <2>2. \A t \in Tasks : disp'.todo[t] # "spawn"
    BY <1>0, <1>3 DEF DispatchList, TodoOf, Dispatching
  <2>3. \A t \in Tasks : disp'.todo[t] = "start" =>
          db[t].status = "accepted" /\ ~HasActiveReservation(db[t])
    BY <1>0, <1>3 DEF DispatchList, TodoOf, Dispatching, Oldest
  <2>4. \A t \in Tasks : SpawnedNow(t)' <=> SpawnedNow(t)
    BY <2>1 DEF SpawnedNow, Spawned
  <2>5. OneShimPerLife' /\ LivesPast' /\ AbsentUnborn'
    BY <2>1 DEF LivesInv, OneShimPerLife, LivesPast, AbsentUnborn, Spawned
  <2>6. DispatcherWaits' /\ SpawnHolds'
    BY <1>0, <2>2 DEF DispatcherWaits, SpawnHolds
  <2>7. SpawnedHolds'
    BY <2>1, <2>4 DEF LivesInv, SpawnedHolds
  <2>8. StartsFresh'
    BY <2>1, <2>2, <2>3, <2>4 DEF LivesInv, SpawnedHolds, StartsFresh
  <2> QED
    BY <2>5, <2>6, <2>7, <2>8 DEF LivesInv
<1>4. ASSUME NEW t \in Tasks,
             \/ DispatchPass(t) \/ DispatchSpawnFails(t)
             \/ DispatchPersist(t) \/ DispatchWrite(t)
      PROVE  LivesInv'
  <2>1. UNCHANGED <<db, shims>>
    BY <1>4 DEF DispatchPass, DispatchSpawnFails, DispatchPersist, DispatchWrite
  <2>2. \A u \in Tasks : \/ disp'.todo[u] = disp.todo[u]
                         \/ disp'.todo[u] \in {"skip", "fail", "write"}
    <3>0. disp.todo \in [Tasks -> DispatchTodo]
      BY <1>0 DEF Dispatching
    <3>1. CASE DispatchPass(t)
      BY <1>0, <3>0, <3>1 DEF DispatchPass, DispatchGoes, Dispatching
    <3>2. CASE DispatchSpawnFails(t)
      BY <1>0, <3>0, <3>2 DEF DispatchSpawnFails, DispatchGoes, Dispatching
    <3>3. CASE DispatchPersist(t)
      BY <1>0, <3>0, <3>3 DEF DispatchPersist, Dispatching
    <3>4. CASE DispatchWrite(t)
      BY <1>0, <3>0, <3>4 DEF DispatchWrite, Dispatching
    <3> QED
      BY <1>4, <3>1, <3>2, <3>3, <3>4
  <2> QED
    BY <1>00, <1>1, <2>1, <2>2
<1>5. ASSUME NEW t \in Tasks, DispatchCancel(t) \/ DispatchMark(t) \/ DispatchFail(t)
      PROVE  LivesInv'
  <2>1. UNCHANGED shims
    BY <1>5 DEF DispatchCancel, DispatchMark, DispatchFail
  <2>2. \A u \in Tasks : \/ disp'.todo[u] = disp.todo[u]
                         \/ disp'.todo[u] \in {"skip", "persist"}
    BY <1>0, <1>5 DEF DispatchCancel, DispatchMark, DispatchFail, DispatchGoes, Dispatching
  <2>3. \A u \in Tasks : Keeps(db[u], db'[u])
    <3>1. "failed" \in Terminal
      BY DEF Terminal
    <3>2. CASE DispatchCancel(t)
      BY <1>00, <3>2, TransactionKeeps, UpdateKeeps DEF DispatchCancel
    <3>3. CASE DispatchMark(t)
      BY <1>0, <1>00, <3>3, TransactionKeeps, UpdateKeeps DEF DispatchMark
    <3>4. CASE DispatchFail(t)
      BY <1>00, <3>1, <3>4, TransactionKeeps, UpdateKeeps DEF DispatchFail
    <3> QED
      BY <1>5, <3>2, <3>3, <3>4
  <2> QED
    BY <1>1, <2>1, <2>2, <2>3
\* The reservation is made before the shim is spawned.
<1>6. ASSUME NEW t \in Tasks, DispatchReserve(t) PROVE LivesInv'
  <2>1. UNCHANGED shims /\ disp.todo[t] = "start"
    BY <1>6 DEF DispatchReserve
  <2>2. \A u \in Tasks : Keeps(db[u], db'[u])
    BY <1>00, <1>6, TransactionKeeps, UpdateKeeps DEF DispatchReserve
  <2>3. /\ disp'.todo[t] = "spawn"
        /\ \A u \in Tasks \ {t} : disp'.todo[u] = disp.todo[u]
    BY <1>0, <1>6 DEF DispatchReserve, Dispatching
  <2>4. HasActiveReservation(db'[t])
    BY <1>0, <1>00, <1>6 DEF DispatchReserve, Update, ReserveResources,
                             HasActiveReservation, Row
  <2>5. \A u \in Tasks : SpawnedNow(u)' <=> SpawnedNow(u)
    BY <1>0, <2>1 DEF SpawnedNow, Spawned
  <2>6. OneShimPerLife' /\ LivesPast'
    BY <1>0, <2>1 DEF LivesInv, OneShimPerLife, LivesPast, Spawned
  <2>7. DispatcherWaits'
    BY <1>0 DEF DispatcherWaits
  <2>8. AbsentUnborn'
    BY <2>1, <2>2 DEF LivesInv, AbsentUnborn, Keeps, Spawned
  <2>9. SpawnedHolds'
    BY <2>2, <2>5 DEF LivesInv, SpawnedHolds, Keeps
  <2>10. StartsFresh'
    BY <2>1, <2>2, <2>3, <2>5 DEF LivesInv, StartsFresh, Keeps
  <2>11. SpawnHolds'
    BY <2>2, <2>3, <2>4 DEF LivesInv, SpawnHolds, Keeps
  <2> QED
    BY <2>6, <2>7, <2>8, <2>9, <2>10, <2>11 DEF LivesInv
<1>7. ASSUME NEW t \in Tasks, DispatchSpawn(t) PROVE LivesInv'
  <2>1. /\ UNCHANGED <<db, server>> /\ disp.todo[t] = "spawn"
        /\ disp'.todo = [disp.todo EXCEPT ![t] = "mark"]
    BY <1>0, <1>7 DEF DispatchSpawn, DispatchIs, Dispatching
  <2>2. PICK a \in Attempts : shims' = [shims EXCEPT ![t][a] =
                [NoShim EXCEPT !.pc = "init", !.life = server.life]]
    BY <1>7 DEF DispatchSpawn
  <2>3. /\ shims'[t][a].pc = "init" /\ shims'[t][a].life = server.life
        /\ \A u \in Tasks, b \in Attempts :
             (u # t \/ b # a) => shims'[u][b] = shims[u][b]
    BY <2>2 DEF NoShim, TypeInv, TypeOK
  <2>4. \A u \in Tasks \ {t} : SpawnedNow(u)' <=> SpawnedNow(u)
    BY <1>0, <2>3 DEF SpawnedNow, Spawned
  <2>5. ~SpawnedNow(t) /\ db[t].status # "absent"
        /\ (db[t].status = "accepted" => HasActiveReservation(db[t]))
    BY <2>1 DEF LivesInv, StartsFresh, SpawnHolds
  <2>6. OneShimPerLife'
    BY <2>3, <2>5 DEF LivesInv, OneShimPerLife, SpawnedNow, Spawned
  <2>7. LivesPast'
    <3>1. server.life \in Int
      BY DEF TypeInv, TypeOK
    <3> QED
      BY <1>0, <2>3, <3>1 DEF LivesInv, LivesPast, Spawned
  <2>8. DispatcherWaits'
    BY <1>0 DEF DispatcherWaits
  <2>9. SpawnedHolds'
    BY <2>1, <2>4, <2>5 DEF LivesInv, SpawnedHolds
  <2>10. StartsFresh' /\ SpawnHolds'
    BY <1>0, <2>1, <2>4 DEF LivesInv, StartsFresh, SpawnHolds, Dispatching
  <2>11. AbsentUnborn'
    BY <2>1, <2>3, <2>5 DEF LivesInv, AbsentUnborn, Spawned
  <2> QED
    BY <2>6, <2>7, <2>8, <2>9, <2>10, <2>11 DEF LivesInv
<1> QED
  BY <1>2, <1>3, <1>4, <1>5, <1>6, <1>7 DEF Dispatcher, DispatchStep

LEMMA LivesShim ==
    ASSUME TypeInv, SupervisedInv, LivesInv, NEW t \in Tasks, NEW a \in Attempts,
           \/ ShimProcess(t, a) \/ ShimTimesOut(t, a) \/ ShimKills(t, a)
           \/ ShimCrash(t, a) \/ WorkloadExits(t, a)
    PROVE  LivesInv'
<1>0. UNCHANGED <<disp, server>>
  BY DEF ShimProcess, ShimTimesOut, ShimKills, ShimCrash, WorkloadExits, ShimGet,
         ShimLaunch, ShimLaunchFails, ShimStarted, ShimReaps, ShimCompletes,
         ShimPersists, ShimWrites
<1>1. \A u \in Tasks, b \in Attempts : /\ shims'[u][b].life = shims[u][b].life
                                       /\ Spawned(u, b)' <=> Spawned(u, b)
  <2>0. shims \in [Tasks -> [Attempts -> Shim]]
    BY DEF TypeInv, TypeOK
  <2>1. CASE ShimGet(t, a)
    BY <2>0, <2>1 DEF ShimGet, ShimIs, Shim, Spawned
  <2>2. CASE ShimLaunch(t, a)
    BY <2>0, <2>2 DEF ShimLaunch, ShimIs, Shim, Spawned
  <2>3. CASE ShimLaunchFails(t, a)
    <3>1. PICK w : shims' = [shims EXCEPT ![t][a] =
                     [@ EXCEPT !.pc = "complete", !.work = w, !.out = "failed"]]
      BY <2>3 DEF ShimLaunchFails
    <3> QED
      BY <2>0, <2>3, <3>1 DEF ShimLaunchFails, ShimIs, Shim, Spawned
  <2>4. CASE ShimStarted(t, a)
    BY <2>0, <2>4 DEF ShimStarted, ShimIs, ShimGoes, Shim, Spawned
  <2>5. CASE ShimReaps(t, a)
    BY <2>0, <2>5 DEF ShimReaps, ShimIs, Shim, Spawned
  <2>6. CASE ShimCompletes(t, a)
    BY <2>0, <2>6 DEF ShimCompletes, ShimIs, Shim, Spawned
  <2>7. CASE ShimPersists(t, a)
    BY <2>0, <2>7 DEF ShimPersists, ShimIs, Shim, Spawned
  <2>8. CASE ShimWrites(t, a)
    BY <2>0, <2>8 DEF ShimWrites, ShimIs, Shim, Spawned
  <2>9. CASE ShimCrash(t, a)
    BY <2>0, <2>9 DEF ShimCrash, ProcessExists, Unended, Ended, Shim, Spawned
  <2>10. CASE ShimTimesOut(t, a)
    BY <2>0, <2>10 DEF ShimTimesOut, Shim, Spawned
  <2>11. CASE ShimKills(t, a)
    BY <2>0, <2>11 DEF ShimKills, Shim, Spawned
  <2>12. CASE WorkloadExits(t, a)
    <3>1. PICK w : shims' = [shims EXCEPT ![t][a].work = w]
      BY <2>12 DEF WorkloadExits
    <3> QED
      BY <2>0, <3>1 DEF Shim, Spawned
  <2> QED
    BY <2>1, <2>2, <2>3, <2>4, <2>5, <2>6, <2>7, <2>8, <2>9, <2>10, <2>11, <2>12
    DEF ShimProcess
<1>2. \A u \in Tasks : Keeps(db[u], db'[u])
  <2>0. \A u \in Tasks : db[u] \in Row
    BY DEF TypeInv, TypeOK
  <2>1. CASE ShimStarted(t, a)
    <3>1. a \in 0..MaxAttempts
      BY MaxAttemptsAssumption DEF Attempts
    <3> QED
      BY <2>0, <2>1, <3>1, TransactionKeeps, UpdateKeeps DEF ShimStarted
  <2>2. CASE ShimCompletes(t, a)
    <3>1. shims[t][a].out \in Terminal
      BY <2>2 DEF ShimCompletes, ShimIs, SupervisedInv, VerdictIsTerminal
    <3> QED
      BY <2>0, <2>2, <3>1, TransactionKeeps, UpdateKeeps DEF ShimCompletes
  <2>3. CASE UNCHANGED db
    BY <2>0, <2>3, TransactionKeeps
  <2> QED
    BY <2>1, <2>2, <2>3
    DEF ShimProcess, ShimTimesOut, ShimKills, ShimCrash, WorkloadExits, ShimGet,
        ShimLaunch, ShimLaunchFails, ShimReaps, ShimPersists, ShimWrites
<1> QED
  BY <1>0, <1>1, <1>2, LivesFrame

LEMMA LivesKill ==
    ASSUME TypeInv, LivesInv, NEW t \in Tasks, NEW k \in Killers,
           KillGet(t, k) \/ KillHandler(t, k) \/ KillDropped(t, k)
    PROVE  LivesInv'
<1>0. UNCHANGED <<disp, server>>
  BY DEF KillGet, KillHandler, KillDropped, KillFlag, KillRead, KillCancel,
         KillSignal, KillEscalate
<1>1. \A u \in Tasks, b \in Attempts : /\ shims'[u][b].life = shims[u][b].life
                                       /\ Spawned(u, b)' <=> Spawned(u, b)
  <2>0. shims \in [Tasks -> [Attempts -> Shim]]
    BY DEF TypeInv, TypeOK
  <2>1. CASE KillEscalate(t, k)
    <3>1. PICK pg : \/ UNCHANGED shims
                    \/ shims' = [shims EXCEPT ![t][pg].work = "exitbad"]
      BY <2>1 DEF KillEscalate
    <3>2. CASE UNCHANGED shims
      BY <3>2 DEF Spawned
    <3>3. CASE shims' = [shims EXCEPT ![t][pg].work = "exitbad"]
      <4>1. \A u \in Tasks, b \in Attempts :
              \/ shims'[u][b] = shims[u][b]
              \/ shims'[u][b] = [shims[u][b] EXCEPT !.work = "exitbad"]
        BY <2>0, <3>3
      <4>2. \A s \in Shim : LET x == [s EXCEPT !.work = "exitbad"]
                            IN  x.life = s.life /\ x.pc = s.pc
        BY DEF Shim
      <4>3. \A u \in Tasks, b \in Attempts : shims[u][b] \in Shim
        BY <2>0
      <4>4. \A u \in Tasks, b \in Attempts : /\ shims'[u][b].life = shims[u][b].life
                                             /\ shims'[u][b].pc = shims[u][b].pc
        BY <4>1, <4>2, <4>3
      <4> QED
        BY <4>4 DEF Spawned
    <3> QED
      BY <3>1, <3>2, <3>3
  <2>2. CASE UNCHANGED shims
    BY <2>2 DEF Spawned
  <2> QED
    BY <2>1, <2>2
    DEF KillGet, KillHandler, KillDropped, KillFlag, KillRead, KillCancel, KillSignal
<1>2. \A u \in Tasks : Keeps(db[u], db'[u])
  <2>0. \A u \in Tasks : db[u] \in Row
    BY DEF TypeInv, TypeOK
  <2>1. CASE KillFlag(t, k)
    BY <2>0, <2>1, TransactionKeeps, UpdateKeeps DEF KillFlag
  <2>2. CASE KillCancel(t, k)
    BY <2>0, <2>2, TransactionKeeps, UpdateKeeps DEF KillCancel
  <2>3. CASE UNCHANGED db
    BY <2>0, <2>3, TransactionKeeps
  <2> QED
    BY <2>1, <2>2, <2>3
    DEF KillGet, KillHandler, KillDropped, KillRead, KillSignal, KillEscalate
<1> QED
  BY <1>0, <1>1, <1>2, LivesFrame

LEMMA LivesSubmit ==
    ASSUME TypeInv, LivesInv, NEW t \in Tasks, Submit(t)
    PROVE  LivesInv'
<1>1. /\ UNCHANGED <<shims, disp, server>>
      /\ db[t].status = "absent"
      /\ db'[t].status = "accepted"
      /\ \A u \in Tasks \ {t} : db'[u] = db[u]
  <2> DEFINE n == 1 + Cardinality({u \in Tasks : db[u].status # "absent"})
  <2>1. Update(t, InsertTask(n)) /\ db[t].status = "absent"
        /\ UNCHANGED <<shims, disp, server>>
    BY DEF Submit
  <2>2. InsertTask(n).status = "accepted"
    BY DEF InsertTask, NoRow
  <2> HIDE DEF n
  <2> QED
    BY <2>1, <2>2 DEF Update, TypeInv, TypeOK
<1>2. \A u \in Tasks : SpawnedNow(u)' <=> SpawnedNow(u)
  BY <1>1 DEF SpawnedNow, Spawned
<1>3. ~SpawnedNow(t) /\ disp.todo[t] \notin {"start", "spawn"}
  BY <1>1 DEF LivesInv, AbsentUnborn, StartsFresh, SpawnedNow
<1>4. OneShimPerLife' /\ LivesPast' /\ DispatcherWaits'
  BY <1>1 DEF LivesInv, OneShimPerLife, LivesPast, DispatcherWaits, Spawned
<1>5. SpawnedHolds' /\ StartsFresh' /\ SpawnHolds'
  BY <1>1, <1>2, <1>3 DEF LivesInv, SpawnedHolds, StartsFresh, SpawnHolds
<1>6. AbsentUnborn'
  BY <1>1 DEF LivesInv, AbsentUnborn, Spawned
<1> QED
  BY <1>4, <1>5, <1>6 DEF LivesInv

\* A crash puts every shim into an earlier life; recovery starts none.
LEMMA LivesCrash ==
    ASSUME TypeInv, LivesInv, Crash \/ Recovery
    PROVE  LivesInv'
<1>0. /\ UNCHANGED shims
      /\ server.life \in Int
      /\ \A t \in Tasks, a \in Attempts : shims[t][a].life \in Int
      /\ \A t \in Tasks : db[t] \in Row
  <2>1. UNCHANGED shims
    BY DEF Crash, Recovery, Restart, RecoverEnd, RecoverStep, RecoverRelease,
           RecoverProbe, RecoverReserve, RecoverLose, RecoverPersist, RecoverWrite
  <2>2. server.life \in Int /\ \A t \in Tasks : db[t] \in Row
    BY DEF TypeInv, TypeOK
  <2>3. \A t \in Tasks, a \in Attempts : shims[t][a].life \in Int
    BY DEF TypeInv, TypeOK, Shim
  <2> QED
    BY <2>1, <2>2, <2>3
<1>1. OneShimPerLife'
  BY <1>0 DEF LivesInv, OneShimPerLife
<1>2. \A t \in Tasks, a \in Attempts : Spawned(t, a)' <=> Spawned(t, a)
  BY <1>0 DEF Spawned
<1>3. CASE Crash
  <2>1. /\ db' = db
        /\ \A t \in Tasks : disp'.todo[t] = "skip"
        /\ server'.life = server.life + 1
    BY <1>3 DEF Crash, Idle
  <2>2. \A t \in Tasks, a \in Attempts : Spawned(t, a) => shims[t][a].life < server'.life
    BY <1>0, <2>1 DEF LivesInv, LivesPast
  <2>3. \A t \in Tasks : ~SpawnedNow(t)'
    BY <1>0, <1>2, <2>2 DEF SpawnedNow
  <2>4. LivesPast'
    BY <1>0, <1>2, <2>1, <2>2 DEF LivesPast
  <2>5. DispatcherWaits' /\ SpawnedHolds' /\ StartsFresh' /\ SpawnHolds'
    BY <2>1, <2>3 DEF DispatcherWaits, SpawnedHolds, StartsFresh, SpawnHolds
  <2>6. AbsentUnborn'
    BY <1>2, <2>1 DEF LivesInv, AbsentUnborn
  <2> QED
    BY <1>1, <2>4, <2>5, <2>6 DEF LivesInv
<1>4. CASE Recovery
  <2>1. server.phase # "up" /\ UNCHANGED disp /\ server'.life = server.life
    BY <1>4 DEF Recovery, Restart, RecoverEnd, RecoverStep, RecoverRelease, RecoverProbe,
                RecoverReserve, RecoverLose, RecoverPersist, RecoverWrite, Recovers,
                RecoverIs, TypeInv, TypeOK
  <2>2. /\ \A t \in Tasks : ~SpawnedNow(t)' /\ disp'.todo[t] = "skip"
        /\ LivesPast'
    BY <1>0, <1>2, <2>1 DEF LivesInv, LivesPast, DispatcherWaits, SpawnedNow
  <2>3. \A t \in Tasks : db'[t].status = "absent" => db[t].status = "absent"
    <3>1. \A row \in Row : /\ ReleaseResources(row).status = row.status
                           /\ ReserveResources(row).status = row.status
                           /\ MarkRecoveryLost(row).status = "failed"
      BY TransactionStatus DEF MarkRecoveryLost, Status, Terminal
    <3>2. ASSUME NEW t \in Tasks, RecoverRelease(t) \/ RecoverReserve(t) \/ RecoverLose(t)
          PROVE  \A u \in Tasks : db'[u].status = "absent" => db[u].status = "absent"
      <4>1. PICK row : Update(t, row) /\ (row.status = "absent" => db[t].status = "absent")
        BY <1>0, <3>1, <3>2 DEF RecoverRelease, RecoverReserve, RecoverLose
      <4> QED
        BY <4>1 DEF Update, TypeInv, TypeOK
    <3>3. CASE UNCHANGED db
      BY <3>3
    <3> QED
      BY <1>4, <3>2, <3>3 DEF Recovery, RecoverStep, Restart, RecoverEnd, RecoverProbe,
                              RecoverPersist, RecoverWrite
  <2>4. DispatcherWaits' /\ SpawnedHolds' /\ StartsFresh' /\ SpawnHolds'
    BY <2>2 DEF DispatcherWaits, SpawnedHolds, StartsFresh, SpawnHolds
  <2>5. AbsentUnborn'
    BY <1>2, <2>3 DEF LivesInv, AbsentUnborn
  <2> QED
    BY <1>1, <2>2, <2>4, <2>5 DEF LivesInv
<1> QED
  BY <1>3, <1>4

LEMMA LivesInit == Init => LivesInv
  BY DEF Init, LivesInv, OneShimPerLife, LivesPast, DispatcherWaits, SpawnedHolds,
         StartsFresh, SpawnHolds, AbsentUnborn, SpawnedNow, Spawned, NoShim, Idle

\* LivesInv is inductive, given the invariants of TaskRuntime_proofs.
LEMMA LivesNext == TypeInv /\ SupervisedInv /\ LivesInv /\ [Next]_vars => LivesInv'
<1> SUFFICES ASSUME TypeInv, SupervisedInv, LivesInv, [Next]_vars PROVE LivesInv'
  OBVIOUS
<1>1. CASE UNCHANGED vars
  BY <1>1 DEF vars, LivesInv, OneShimPerLife, LivesPast, DispatcherWaits, SpawnedHolds,
              StartsFresh, SpawnHolds, AbsentUnborn, SpawnedNow, Spawned
<1>2. CASE Next
  BY <1>2, LivesDispatch, LivesShim, LivesKill, LivesSubmit, LivesCrash DEF Next
<1> QED
  BY <1>1, <1>2

\* The server never starts two shims for a task between two of its crashes: the
\* reservation dispatch_once_sync makes before the spawn keeps an accepted row out
\* of later cycles, also when the cycle ended before mark_dispatched, and nothing
\* but recover takes the reservation of an accepted row away.
THEOREM OneShimPerIncarnation == Spec => []OneShimPerLife
<1>1. Init => TypeInv /\ SupervisedInv /\ LivesInv
  BY TypeInvInit, SupervisedInit, LivesInit
<1>2. (TypeInv /\ SupervisedInv /\ LivesInv) /\ [Next]_vars
        => (TypeInv /\ SupervisedInv /\ LivesInv)'
  BY TypeInvNext, SupervisedNext, LivesNext
<1>3. LivesInv => OneShimPerLife
  BY DEF LivesInv
<1> QED
  BY <1>1, <1>2, <1>3, PTL DEF Spec
=============================================================================
