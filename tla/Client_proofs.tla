--------------------------- MODULE Client_proofs ----------------------------
(***************************************************************************)
(* What Submission promises, for every set of task ids, any number of      *)
(* handlers and every limit: how far the queue can be exceeded, that a     *)
(* fresh row finds its files, and that garbage collection spares what is   *)
(* not old.  And what the commands run and wait promise beside it: they    *)
(* show the end of their own task, and directories without a row come from *)
(* submissions that stopped.                                               *)
(*                                                                         *)
(* FilesInv follows a handler through the files it writes: a row that was  *)
(* never inserted is not there (UnbornIsAbsent), so gc_loop, which only    *)
(* holds expired rows (CollectedIsOld), cannot undo what a handler wrote   *)
(* for an id of the first use (WrittenIsThere).  QueueRoom counts the      *)
(* handlers that have passed the check of the queue as if they had         *)
(* inserted.                                                               *)
(*                                                                         *)
(* With the client everything is still a step of Submission                *)
(* (ClientImplementsSubmission), so what is proved of it holds here.       *)
(* WatchInv follows the client: while its request is under way its handler *)
(* works for it (Served), and while it polls the row is still the one it   *)
(* asked about (Watching), as long as the retention is one that can be     *)
(* represented.  OrphanInv adds to OrphansAreAbandoned the rows whose      *)
(* directory gc_loop has removed and which it is about to delete.          *)
(***************************************************************************)
EXTENDS Client, FiniteSetTheorems, TLAPS

CollectedIsOld == gc.todo \subseteq Expired

UnbornIsAbsent == \A t \in Tasks : rows[t].n = 0 => rows[t].status = "none"

WrittenIsThere ==
    \A h \in Handlers :
        rows[handlers[h].id].n = 0 =>
            /\ handlers[h].pc = "logs" => "request" \in files[handlers[h].id]
            /\ handlers[h].pc = "insert" => files[handlers[h].id] = File

FilesInv == TypeOK /\ CollectedIsOld /\ UnbornIsAbsent /\ WrittenIsThere /\ RowHasFiles

Busy == {h \in Handlers : handlers[h].pc # "idle"}

QueueRoom ==
    Cardinality(Accepted) + Cardinality(Busy) <= MaxQueued + Cardinality(Handlers) - 1

-----------------------------------------------------------------------------
(* Files *)

\* The id of an idle handler is some id.
LEMMA NoHandlerType ==
    NoHandler \in [pc : {"idle", "files", "logs", "insert"}, id : Tasks]
<1>1. (CHOOSE t \in Tasks : TRUE) \in Tasks
  BY LimitsAssumption
<1>2. QED
  BY <1>1 DEF NoHandler

\* The server starts with nothing.
LEMMA FilesInit == Init => FilesInv
<1>1. ASSUME Init PROVE TypeOK
  <2>1. \A h \in Handlers : handlers[h] = NoHandler
    BY <1>1 DEF Init
  <2>2. handlers \in [Handlers -> [pc : {"idle", "files", "logs", "insert"}, id : Tasks]]
    BY <1>1, NoHandlerType DEF Init
  <2>3. QED
    BY <1>1, <2>2, BoundsAssumption DEF Init, TypeOK, Status, NoGC
<1>2. ASSUME Init PROVE WrittenIsThere
  <2>1. \A h \in Handlers : handlers[h].pc = "idle"
    BY <1>2 DEF Init, NoHandler
  <2>2. QED
    BY <2>1 DEF WrittenIsThere
<1>3. Init => CollectedIsOld /\ UnbornIsAbsent /\ RowHasFiles
  BY DEF Init, CollectedIsOld, Expired, UnbornIsAbsent, RowHasFiles, NoGC
<1>4. QED
  BY <1>1, <1>2, <1>3 DEF FilesInv

\* Every step of a handler, of time, of gc_loop and every crash keeps FilesInv.
LEMMA FilesStep == FilesInv /\ [Next]_vars => FilesInv'
<1> SUFFICES ASSUME FilesInv, [Next]_vars PROVE FilesInv'
  OBVIOUS
<1> USE NoHandlerType DEF FilesInv
<1>1. ASSUME NEW h \in Handlers, NEW t \in Tasks, SubmitCount(h, t) PROVE FilesInv'
  <2>1. TypeOK'
    BY <1>1, BoundsAssumption DEF SubmitCount, TypeOK, HandlerIs
  <2>2. WrittenIsThere'
    BY <1>1 DEF SubmitCount, WrittenIsThere, TypeOK
  <2>3. CollectedIsOld' /\ UnbornIsAbsent' /\ RowHasFiles'
    BY <1>1 DEF SubmitCount, CollectedIsOld, Expired, UnbornIsAbsent, RowHasFiles
  <2>4. QED
    BY <2>1, <2>2, <2>3
<1>2. ASSUME NEW h \in Handlers, SubmitFiles(h) PROVE FilesInv'
  <2>0. handlers[h].id \in Tasks /\ File = {"request", "logs"}
    BY DEF TypeOK, File
  <2>1. TypeOK'
    BY <1>2, <2>0 DEF SubmitFiles, TypeOK, HandlerIs, HandlerGoes
  <2>2. WrittenIsThere'
    BY <1>2, <2>0 DEF SubmitFiles, WrittenIsThere, TypeOK, HandlerGoes
  <2>3. RowHasFiles'
    BY <1>2, <2>0 DEF SubmitFiles, RowHasFiles, TypeOK
  <2>4. CollectedIsOld' /\ UnbornIsAbsent'
    BY <1>2 DEF SubmitFiles, CollectedIsOld, Expired, UnbornIsAbsent
  <2>5. QED
    BY <2>1, <2>2, <2>3, <2>4
<1>3. ASSUME NEW h \in Handlers, SubmitLogs(h) PROVE FilesInv'
  <2>0. handlers[h].id \in Tasks /\ File = {"request", "logs"}
    BY DEF TypeOK, File
  <2>1. TypeOK'
    BY <1>3, <2>0 DEF SubmitLogs, TypeOK, HandlerIs, HandlerGoes
  <2>2. WrittenIsThere'
    BY <1>3, <2>0 DEF SubmitLogs, WrittenIsThere, TypeOK, HandlerIs, HandlerGoes
  <2>3. RowHasFiles'
    BY <1>3, <2>0 DEF SubmitLogs, RowHasFiles, TypeOK
  <2>4. CollectedIsOld' /\ UnbornIsAbsent'
    BY <1>3 DEF SubmitLogs, CollectedIsOld, Expired, UnbornIsAbsent
  <2>5. QED
    BY <2>1, <2>2, <2>3, <2>4
<1>4. ASSUME NEW h \in Handlers, SubmitInsert(h) PROVE FilesInv'
  <2> DEFINE t == handlers[h].id
  <2>0. t \in Tasks /\ rows[t] \in [status : Status, n : Nat]
    BY DEF TypeOK
  <2>1. handlers' \in [Handlers -> [pc : {"idle", "files", "logs", "insert"}, id : Tasks]]
    BY <1>4 DEF SubmitInsert, TypeOK
  <2>2. rows' \in [Tasks -> [status : Status, n : Nat]]
    BY <1>4, <2>0 DEF SubmitInsert, TypeOK, Status
  <2>3. TypeOK'
    BY <1>4, <2>1, <2>2 DEF SubmitInsert, TypeOK
  <2>4. \A u \in Tasks : rows'[u].n = 0 => rows[u].n = 0
    BY <1>4, <2>0 DEF SubmitInsert, TypeOK
  <2>5. \A u \in Tasks : rows'[u].n = 0 => rows'[u].status = rows[u].status
    BY <1>4, <2>0 DEF SubmitInsert, TypeOK
  <2>6. WrittenIsThere'
    <3> SUFFICES ASSUME NEW g \in Handlers, rows'[handlers'[g].id].n = 0
                 PROVE  /\ handlers'[g].pc = "logs" => "request" \in files'[handlers'[g].id]
                        /\ handlers'[g].pc = "insert" => files'[handlers'[g].id] = File
      BY DEF WrittenIsThere
    <3>1. CASE g = h
      BY <1>4, <3>1 DEF SubmitInsert, TypeOK, NoHandler
    <3>2. CASE g # h
      BY <1>4, <2>4, <3>2 DEF SubmitInsert, TypeOK, WrittenIsThere
    <3>3. QED
      BY <3>1, <3>2
  <2>7. UnbornIsAbsent'
    BY <2>4, <2>5 DEF UnbornIsAbsent
  <2>8. CollectedIsOld'
    BY <1>4, <2>0 DEF SubmitInsert, CollectedIsOld, Expired, TypeOK
  <2>9. RowHasFiles'
    <3> SUFFICES ASSUME NEW u \in Tasks, rows'[u].n = 1,
                        \/ rows'[u].status = "accepted"
                        \/ RetentionFits /\ rows'[u].status = "ended"
                 PROVE  files'[u] = File
      BY DEF RowHasFiles
    <3>1. CASE rows'[u] = rows[u]
      BY <1>4, <3>1 DEF SubmitInsert, RowHasFiles
    <3>2. CASE rows'[u] # rows[u]
      <4>1. u = t /\ rows[t].n = 0
        <5>1. u = t
          BY <1>4, <2>0, <3>2 DEF SubmitInsert, TypeOK
        <5>2. rows'[t].n = rows[t].n + 1
          BY <1>4, <2>0, <3>2, <5>1 DEF SubmitInsert, TypeOK
        <5>3. QED
          BY <2>0, <5>1, <5>2
      <4>2. handlers[h].pc = "insert" /\ files' = files
        BY <1>4 DEF SubmitInsert, HandlerIs
      <4>3. QED
        BY <4>1, <4>2 DEF WrittenIsThere
    <3>3. QED
      BY <3>1, <3>2
  <2>10. QED
    BY <2>3, <2>6, <2>7, <2>8, <2>9
<1>5. ASSUME NEW h \in Handlers, SubmitFails(h) PROVE FilesInv'
  <2>1. TypeOK'
    BY <1>5 DEF SubmitFails, TypeOK
  <2>2. WrittenIsThere'
    BY <1>5 DEF SubmitFails, WrittenIsThere, TypeOK, NoHandler
  <2>3. CollectedIsOld' /\ UnbornIsAbsent' /\ RowHasFiles'
    BY <1>5 DEF SubmitFails, CollectedIsOld, Expired, UnbornIsAbsent, RowHasFiles
  <2>4. QED
    BY <2>1, <2>2, <2>3
<1>6. ASSUME NEW t \in Tasks, End(t) \/ Age(t) PROVE FilesInv'
  <2>0. rows[t] \in [status : Status, n : Nat]
    BY DEF TypeOK
  <2>a. PICK s \in Status : rows' = [rows EXCEPT ![t].status = s]
    BY <1>6 DEF End, Age, Status
  <2>1. \A u \in Tasks : rows'[u].n = rows[u].n
    BY <2>a, <2>0 DEF TypeOK
  <2>b. rows' \in [Tasks -> [status : Status, n : Nat]]
    BY <2>a, <2>0 DEF TypeOK
  <2>2. TypeOK'
    BY <1>6, <2>b DEF End, Age, TypeOK
  <2>3. WrittenIsThere'
    BY <1>6, <2>1 DEF End, Age, WrittenIsThere, TypeOK
  <2>4. RowHasFiles'
    BY <1>6, <2>1 DEF End, Age, RowHasFiles, TypeOK
  <2>5. t \notin gc.todo /\ gc' = gc /\ rows[t].n # 0
    BY <1>6 DEF End, Age, CollectedIsOld, Expired, UnbornIsAbsent
  <2>6. \A u \in Tasks : u # t => rows'[u] = rows[u]
    BY <2>a DEF TypeOK
  <2>7. CollectedIsOld'
    BY <2>5, <2>6 DEF CollectedIsOld, Expired, TypeOK
  <2>8. UnbornIsAbsent'
    BY <2>1, <2>5, <2>6 DEF UnbornIsAbsent
  <2>9. QED
    BY <2>2, <2>3, <2>4, <2>7, <2>8
<1>7. ASSUME GCList PROVE FilesInv'
  <2>1. TypeOK' /\ CollectedIsOld'
    BY <1>7 DEF GCList, TypeOK, CollectedIsOld, Expired, NoGC
  <2>2. UnbornIsAbsent' /\ WrittenIsThere' /\ RowHasFiles'
    BY <1>7 DEF GCList, UnbornIsAbsent, WrittenIsThere, RowHasFiles
  <2>3. QED
    BY <2>1, <2>2
<1>8. ASSUME NEW t \in Tasks, GCRemove(t) \/ GCRemoveFails(t) PROVE FilesInv'
  <2>1. rows' = rows /\ handlers' = handlers /\ t \in Expired /\ rows[t].n # 0
    BY <1>8 DEF GCRemove, GCRemoveFails, CollectedIsOld, Expired, UnbornIsAbsent
  <2>2. \A u \in Tasks : u # t => files'[u] = files[u]
    BY <1>8 DEF GCRemove, GCRemoveFails, TypeOK
  <2>3. TypeOK'
    <3>1. CASE GCRemove(t)
      BY <3>1 DEF GCRemove, TypeOK
    <3>2. CASE GCRemoveFails(t)
      <4>1. files' \in [Tasks -> SUBSET File]
        BY <3>2 DEF GCRemoveFails, TypeOK
      <4>2. count' \in [submits : 0..MaxSubmits, crashes : 0..MaxCrashes, faults : 0..MaxFaults]
        BY <3>2, BoundsAssumption DEF GCRemoveFails, TypeOK
      <4>3. /\ gc' \in [todo : SUBSET Tasks, removed : SUBSET Tasks]
            /\ gc'.removed \subseteq gc'.todo
        BY <3>2 DEF GCRemoveFails, TypeOK
      <4>4. QED
        BY <2>1, <4>1, <4>2, <4>3 DEF TypeOK
    <3>3. QED
      BY <1>8, <3>1, <3>2
  <2>4. WrittenIsThere'
    BY <2>1, <2>2 DEF WrittenIsThere, TypeOK
  <2>5. RowHasFiles'
    BY <2>1, <2>2 DEF RowHasFiles, Expired
  <2>6. CollectedIsOld' /\ UnbornIsAbsent'
    BY <1>8, <2>1 DEF GCRemove, GCRemoveFails, CollectedIsOld, Expired, UnbornIsAbsent,
                      TypeOK
  <2>7. QED
    BY <2>3, <2>4, <2>5, <2>6
<1>9. ASSUME NEW t \in Tasks, GCDelete(t) PROVE FilesInv'
  <2>0. rows[t] \in [status : Status, n : Nat]
    BY DEF TypeOK
  <2>1. \A u \in Tasks : rows'[u].n = rows[u].n
    BY <1>9, <2>0 DEF GCDelete, TypeOK
  <2>2. \A u \in Tasks : u # t => rows'[u] = rows[u]
    BY <1>9 DEF GCDelete, TypeOK
  <2>3. rows'[t].status = "none"
    BY <1>9, <2>0 DEF GCDelete, TypeOK
  <2>4. TypeOK'
    BY <1>9, <2>0 DEF GCDelete, TypeOK, Status
  <2>5. WrittenIsThere'
    BY <1>9, <2>1 DEF GCDelete, WrittenIsThere, TypeOK
  <2>6. RowHasFiles'
    BY <1>9, <2>2, <2>3 DEF GCDelete, RowHasFiles
  <2>7. UnbornIsAbsent'
    BY <2>1, <2>2, <2>3 DEF UnbornIsAbsent
  <2>8. CollectedIsOld'
    BY <1>9, <2>2 DEF GCDelete, CollectedIsOld, Expired, TypeOK
  <2>9. QED
    BY <2>4, <2>5, <2>6, <2>7, <2>8
<1>10. ASSUME NEW t \in Tasks, GCDeleteFails(t) PROVE FilesInv'
  <2>1. TypeOK'
    <3>1. count' \in [submits : 0..MaxSubmits, crashes : 0..MaxCrashes, faults : 0..MaxFaults]
      BY <1>10, BoundsAssumption DEF GCDeleteFails, TypeOK
    <3>2. /\ gc' \in [todo : SUBSET Tasks, removed : SUBSET Tasks]
          /\ gc'.removed \subseteq gc'.todo
      BY <1>10 DEF GCDeleteFails, TypeOK
    <3>3. QED
      BY <1>10, <3>1, <3>2 DEF GCDeleteFails, TypeOK
  <2>2. QED
    BY <1>10, <2>1 DEF GCDeleteFails, CollectedIsOld, Expired, UnbornIsAbsent,
                       WrittenIsThere, RowHasFiles, TypeOK
<1>11. ASSUME Crash PROVE FilesInv'
  <2>1. TypeOK'
    BY <1>11, BoundsAssumption DEF Crash, TypeOK, NoGC
  <2>2. WrittenIsThere'
    BY <1>11 DEF Crash, WrittenIsThere, NoHandler
  <2>3. CollectedIsOld' /\ UnbornIsAbsent' /\ RowHasFiles'
    BY <1>11 DEF Crash, CollectedIsOld, Expired, UnbornIsAbsent, RowHasFiles, NoGC
  <2>4. QED
    BY <2>1, <2>2, <2>3
<1>12. ASSUME UNCHANGED vars PROVE FilesInv'
  BY <1>12 DEF vars, TypeOK, CollectedIsOld, Expired, UnbornIsAbsent, WrittenIsThere,
               RowHasFiles
<1>13. QED
  BY <1>1, <1>2, <1>3, <1>4, <1>5, <1>6, <1>7, <1>8, <1>9, <1>10, <1>11, <1>12
     DEF Next, Submitter, GC

\* FilesInv holds throughout.
LEMMA FilesAlways == Spec => []FilesInv
BY FilesInit, FilesStep, PTL DEF Spec

\* The state of handlers, rows, files and gc_loop has its type.
THEOREM SubmissionTypeCorrect == Spec => []TypeOK
<1>1. FilesInv => TypeOK
  BY DEF FilesInv
<1>2. QED
  BY <1>1, FilesAlways, PTL

\* Whatever the handlers and gc_loop do meanwhile, the row of an id used for the
\* first time is only ever seen with request.json and the log files beside it.
THEOREM FreshRowHasFiles == Spec => []RowHasFiles
<1>1. FilesInv => RowHasFiles
  BY DEF FilesInv
<1>2. QED
  BY <1>1, FilesAlways, PTL

-----------------------------------------------------------------------------
(* Garbage collection *)

SparesTheYoung ==
    \A t \in Tasks :
        ( \/ rows'[t].status = "none" /\ rows[t].status # "none"
          \/ ~(files[t] \subseteq files'[t]) )
            => /\ rows[t].status \in {"ended", "old"}
               /\ RetentionFits => rows[t].status = "old"

\* No step of Next deletes or empties what is not old.
LEMMA SparesStep == FilesInv /\ [Next]_vars => [SparesTheYoung]_vars
<1> SUFFICES ASSUME FilesInv, Next PROVE SparesTheYoung
  OBVIOUS
<1>0. TypeOK /\ CollectedIsOld
  BY DEF FilesInv
<1>1. ASSUME NEW h \in Handlers, NEW t \in Tasks, SubmitCount(h, t) PROVE SparesTheYoung
  BY <1>1 DEF SubmitCount, SparesTheYoung
<1>2. ASSUME NEW h \in Handlers, SubmitFiles(h) \/ SubmitLogs(h) PROVE SparesTheYoung
  BY <1>0, <1>2 DEF SubmitFiles, SubmitLogs, SparesTheYoung, TypeOK
<1>3. ASSUME NEW h \in Handlers, SubmitInsert(h) PROVE SparesTheYoung
  <2>1. \A t \in Tasks : rows'[t].status = "none" => rows[t].status = "none"
    BY <1>0, <1>3 DEF SubmitInsert, TypeOK
  <2>2. QED
    BY <1>3, <2>1 DEF SubmitInsert, SparesTheYoung
<1>4. ASSUME NEW h \in Handlers, SubmitFails(h) PROVE SparesTheYoung
  BY <1>4 DEF SubmitFails, SparesTheYoung
<1>5. ASSUME NEW t \in Tasks, End(t) \/ Age(t) PROVE SparesTheYoung
  <2>1. PICK s \in {"ended", "old"} : rows' = [rows EXCEPT ![t].status = s]
    BY <1>5 DEF End, Age
  <2>2. \A u \in Tasks : rows'[u].status = "none" => rows[u].status = "none"
    BY <1>0, <2>1 DEF TypeOK
  <2>3. QED
    BY <1>5, <2>2 DEF End, Age, SparesTheYoung
<1>6. ASSUME GCList PROVE SparesTheYoung
  BY <1>6 DEF GCList, SparesTheYoung
<1>7. ASSUME NEW t \in Tasks,
             GCRemove(t) \/ GCRemoveFails(t) \/ GCDelete(t) \/ GCDeleteFails(t)
      PROVE  SparesTheYoung
  <2>1. t \in Expired
    BY <1>0, <1>7 DEF GCRemove, GCRemoveFails, GCDelete, GCDeleteFails, TypeOK, CollectedIsOld
  <2>2. \A u \in Tasks : u # t => rows'[u] = rows[u] /\ files'[u] = files[u]
    BY <1>0, <1>7 DEF GCRemove, GCRemoveFails, GCDelete, GCDeleteFails, TypeOK
  <2>3. QED
    BY <2>1, <2>2 DEF SparesTheYoung, Expired
<1>8. ASSUME Crash PROVE SparesTheYoung
  BY <1>8 DEF Crash, SparesTheYoung
<1>9. QED
  BY <1>1, <1>2, <1>3, <1>4, <1>5, <1>6, <1>7, <1>8 DEF Next, Submitter, GC

\* gc_loop never takes the row or a file of a task that has not ended, whatever is
\* submitted, ends or crashes between its list and its delete; and if chrono can
\* represent the retention, only of a task that ended a retention ago (otherwise the
\* cutoff is now, and it takes every task that ended).
THEOREM YoungSpared == Spec => GCSparesTheYoung
<1>1. GCSparesTheYoung <=> [][SparesTheYoung]_vars
  BY DEF GCSparesTheYoung, SparesTheYoung
<1>2. QED
  BY <1>1, FilesAlways, SparesStep, PTL DEF Spec

-----------------------------------------------------------------------------
(* The queue *)

\* Both sets that QueueRoom counts are finite.
LEMMA CountsAreNat ==
    /\ IsFiniteSet(Accepted) /\ Cardinality(Accepted) \in Nat
    /\ IsFiniteSet(Busy) /\ Cardinality(Busy) \in Nat
    /\ Cardinality(Busy) <= Cardinality(Handlers) /\ Cardinality(Handlers) \in Nat
<1>1. Accepted \subseteq Tasks /\ Busy \subseteq Handlers
  BY DEF Accepted, Busy
<1>2. IsFiniteSet(Tasks) /\ IsFiniteSet(Handlers)
  BY LimitsAssumption
<1>3. QED
  BY <1>1, <1>2, FS_Subset, FS_CardinalityType

\* A step after which no set has grown keeps QueueRoom.
LEMMA QueueShrinks ==
    ASSUME QueueRoom, Accepted' \subseteq Accepted, Busy' \subseteq Busy
    PROVE  QueueRoom'
<1>1. Cardinality(Accepted') <= Cardinality(Accepted) /\ Cardinality(Accepted') \in Nat
  BY CountsAreNat, FS_Subset, FS_CardinalityType
<1>2. Cardinality(Busy') <= Cardinality(Busy) /\ Cardinality(Busy') \in Nat
  BY CountsAreNat, FS_Subset, FS_CardinalityType
<1>3. MaxQueued \in Nat
  BY LimitsAssumption
<1>4. QED
  BY <1>1, <1>2, <1>3, CountsAreNat DEF QueueRoom

\* A handler that passes the check counts as one more row from then on, and its
\* insert only turns the one into the other.
LEMMA QueueStep == TypeOK /\ QueueRoom /\ [Next]_vars => QueueRoom'
<1> SUFFICES ASSUME TypeOK, QueueRoom, [Next]_vars PROVE QueueRoom'
  OBVIOUS
<1>1. ASSUME NEW h \in Handlers, NEW t \in Tasks, SubmitCount(h, t) PROVE QueueRoom'
  <2>1. Accepted' = Accepted /\ Cardinality(Accepted) < MaxQueued
    BY <1>1 DEF SubmitCount, Accepted, HasRoom
  <2>2. Busy' \subseteq Handlers
    BY DEF Busy
  <2>3. Cardinality(Busy') <= Cardinality(Handlers) /\ Cardinality(Busy') \in Nat
    BY <2>2, LimitsAssumption, FS_Subset, FS_CardinalityType
  <2>4. Cardinality(Accepted') < MaxQueued
    BY <2>1
  <2>5. Cardinality(Accepted') \in Nat
    BY <2>1, CountsAreNat
  <2>6. QED
    BY <2>3, <2>4, <2>5, CountsAreNat, LimitsAssumption DEF QueueRoom
<1>2. ASSUME NEW h \in Handlers, SubmitFiles(h) \/ SubmitLogs(h) PROVE QueueRoom'
  <2>1. Accepted' = Accepted
    BY <1>2 DEF SubmitFiles, SubmitLogs, Accepted
  <2>2. Busy' \subseteq Busy
    BY <1>2 DEF SubmitFiles, SubmitLogs, HandlerIs, HandlerGoes, Busy, TypeOK
  <2>3. QED
    BY <2>1, <2>2, QueueShrinks
<1>3. ASSUME NEW h \in Handlers, SubmitInsert(h) PROVE QueueRoom'
  <2> DEFINE t == handlers[h].id
  <2>1. Accepted' \subseteq Accepted \cup {t}
    BY <1>3 DEF SubmitInsert, Accepted, TypeOK
  <2>2. h \in Busy /\ Busy' = Busy \ {h}
    BY <1>3 DEF SubmitInsert, HandlerIs, NoHandler, Busy, TypeOK
  <2>3. /\ IsFiniteSet(Accepted \cup {t})
        /\ Cardinality(Accepted \cup {t}) \in Nat
        /\ Cardinality(Accepted \cup {t}) <= Cardinality(Accepted) + 1
    <3>1. IsFiniteSet(Accepted) /\ Cardinality(Accepted) \in Nat
      BY CountsAreNat
    <3>2. /\ IsFiniteSet(Accepted \cup {t})
          /\ Cardinality(Accepted \cup {t})
                = IF t \in Accepted THEN Cardinality(Accepted) ELSE Cardinality(Accepted) + 1
      BY <3>1, FS_AddElement
    <3>3. QED
      BY <3>1, <3>2
  <2>4. /\ Cardinality(Accepted') <= Cardinality(Accepted \cup {t})
        /\ Cardinality(Accepted') \in Nat
    BY <2>1, <2>3, FS_Subset, FS_CardinalityType
  <2>5. Cardinality(Busy \ {h}) = Cardinality(Busy) - 1
    BY <2>2, CountsAreNat, FS_RemoveElement
  <2>6. Cardinality(Busy') = Cardinality(Busy) - 1
    BY <2>2, <2>5
  <2>7. QED
    BY <2>3, <2>4, <2>6, CountsAreNat, LimitsAssumption DEF QueueRoom
<1>4. ASSUME NEW h \in Handlers, SubmitFails(h) PROVE QueueRoom'
  <2>1. Accepted' = Accepted
    BY <1>4 DEF SubmitFails, Accepted
  <2>2. Busy' \subseteq Busy
    BY <1>4 DEF SubmitFails, Busy, NoHandler, TypeOK
  <2>3. QED
    BY <2>1, <2>2, QueueShrinks
<1>5. ASSUME NEW t \in Tasks, End(t) \/ Age(t) \/ GCDelete(t) PROVE QueueRoom'
  <2>1. Accepted' \subseteq Accepted
    BY <1>5 DEF End, Age, GCDelete, Accepted, TypeOK
  <2>2. Busy' = Busy
    BY <1>5 DEF End, Age, GCDelete, Busy
  <2>3. QED
    BY <2>1, <2>2, QueueShrinks
<1>6. ASSUME NEW t \in Tasks, GCRemove(t) \/ GCRemoveFails(t) \/ GCDeleteFails(t)
      PROVE  QueueRoom'
  <2>1. Accepted' = Accepted /\ Busy' = Busy
    BY <1>6 DEF GCRemove, GCRemoveFails, GCDeleteFails, Accepted, Busy
  <2>2. QED
    BY <2>1, QueueShrinks
<1>7. ASSUME GCList \/ UNCHANGED vars PROVE QueueRoom'
  <2>1. Accepted' = Accepted /\ Busy' = Busy
    BY <1>7 DEF GCList, vars, Accepted, Busy
  <2>2. QED
    BY <2>1, QueueShrinks
<1>8. ASSUME Crash PROVE QueueRoom'
  <2>1. Accepted' = Accepted
    BY <1>8 DEF Crash, Accepted
  <2>2. Busy' \subseteq Busy
    BY <1>8 DEF Crash, Busy, NoHandler
  <2>3. QED
    BY <2>1, <2>2, QueueShrinks
<1>9. QED
  BY <1>1, <1>2, <1>3, <1>4, <1>5, <1>6, <1>7, <1>8 DEF Next, Submitter, GC

\* The queue is empty at first.
LEMMA QueueInit == Init => QueueRoom
<1> SUFFICES ASSUME Init PROVE QueueRoom
  OBVIOUS
<1>1. Accepted = {} /\ Busy = {}
  BY DEF Init, Accepted, Busy, NoHandler
<1>2. Cardinality(Accepted) = 0 /\ Cardinality(Busy) = 0
  BY <1>1, FS_EmptySet
<1>3. QED
  BY <1>2, CountsAreNat, LimitsAssumption DEF QueueRoom

\* Accepted tasks exceed max_queued_tasks by at most the handlers that can be under
\* way, less one: check and insert are separate, but each insert was checked.
THEOREM QueueOverrunBounded == Spec => []QueueBounded
<1>1. QueueRoom => QueueBounded
  <2> SUFFICES ASSUME QueueRoom PROVE QueueBounded
    OBVIOUS
  <2>1. QED
    BY CountsAreNat, LimitsAssumption DEF QueueRoom, QueueBounded
<1>2. Spec => []TypeOK
  BY SubmissionTypeCorrect
<1>3. Spec => []QueueRoom
  BY <1>2, QueueInit, QueueStep, PTL DEF Spec
<1>4. QED
  BY <1>1, <1>3, PTL

-----------------------------------------------------------------------------
(* With a client *)

ClientType ==
    client \in [pc : {"idle", "sent", "poll", "done"}, id : Tasks, n : Nat,
                outcome : Outcome, shown : Nat]

Served ==
    /\ handlers[Runner].pc = "idle" <=> client.pc # "sent"
    /\ client.pc = "sent" => handlers[Runner].id = client.id /\ client.n = 0

Watching ==
    client.pc = "poll" =>
        /\ client.n # 0
        /\ rows[client.id].n = client.n
        /\ rows[client.id].status \in {"accepted", "ended"}

WatchInv == ClientType /\ Served /\ Watching /\ OwnVerdict

-----------------------------------------------------------------------------
(* The client beside the server *)

\* The client only reads, or has a handler work for it.
LEMMA ClientStepIsStep == [ClientNext]_clientVars => [Next]_vars
<1> SUFFICES ASSUME ClientNext PROVE [Next]_vars
  BY DEF clientVars
<1>1. ASSUME NEW t \in Tasks, RunSends(t) \/ RunQueueFull(t) \/ WaitStarts(t)
      PROVE  [Next]_vars
  BY <1>1, RunnerAssumption DEF RunSends, RunQueueFull, WaitStarts, Next
<1>2. CASE Run
  BY <1>2, RunnerAssumption DEF Run, RunWrites, RunInserts, RunFails, Next, Submitter
<1>3. CASE Poll \/ PollTimesOut
  BY <1>3 DEF Poll, PollTimesOut
<1>4. CASE Others
  BY <1>4 DEF Others, Next
<1>5. CASE ServerDies
  BY <1>5 DEF ServerDies, Next
<1>6. QED
  BY <1>1, <1>2, <1>3, <1>4, <1>5 DEF ClientNext

\* Whatever the client does, the server's part is a behaviour of Submission.
THEOREM ClientImplementsSubmission == ClientSpec => Spec
<1>1. ClientInit => Init
  BY DEF ClientInit
<1>2. QED
  BY <1>1, ClientStepIsStep, PTL DEF ClientSpec, Spec

-----------------------------------------------------------------------------
(* The client *)

\* The command that was not called yet.
LEMMA WatchInit == ClientInit => WatchInv
<1> SUFFICES ASSUME ClientInit PROVE WatchInv
  OBVIOUS
<1>1. (CHOOSE t \in Tasks : TRUE) \in Tasks
  BY LimitsAssumption
<1>2. ClientType
  BY <1>1 DEF ClientInit, ClientType, NoClient, Outcome
<1>3. handlers[Runner].pc = "idle"
  BY RunnerAssumption DEF ClientInit, Init, NoHandler
<1>4. QED
  BY <1>2, <1>3 DEF ClientInit, WatchInv, Served, Watching, OwnVerdict, NoClient

\* A new command.
LEMMA StartKeepsWatch ==
    ASSUME FilesInv, WatchInv, NEW t \in Tasks,
           RunSends(t) \/ RunQueueFull(t) \/ WaitStarts(t)
    PROVE  WatchInv'
<1> USE DEF WatchInv, NoClient
<1>0. rows[t].n \in Nat
  BY DEF FilesInv, TypeOK
<1>1. CASE RunSends(t)
  <2>1. handlers'[Runner] = [pc |-> "files", id |-> t]
    BY <1>1, RunnerAssumption DEF RunSends, SubmitCount, FilesInv, TypeOK
  <2>2. client' = [pc |-> "sent", id |-> t, n |-> 0, outcome |-> "none", shown |-> 0]
    BY <1>1 DEF RunSends
  <2>3. ClientType'
    BY <2>2 DEF ClientType, Outcome
  <2>4. Served' /\ Watching' /\ OwnVerdict'
    BY <2>1, <2>2 DEF Served, Watching, OwnVerdict
  <2>5. QED
    BY <2>3, <2>4
<1>2. CASE RunQueueFull(t)
  BY <1>2 DEF RunQueueFull, vars, Free, ClientType, Served, Watching, OwnVerdict, Outcome
<1>3. CASE WaitStarts(t)
  BY <1>0, <1>3 DEF WaitStarts, vars, Free, ClientType, Served, Watching, OwnVerdict,
                    Outcome, FilesInv, UnbornIsAbsent
<1>4. QED
  BY <1>1, <1>2, <1>3

\* The handler of run.
LEMMA RunKeepsWatch ==
    ASSUME FilesInv, WatchInv, Run PROVE WatchInv'
<1> USE RunnerAssumption DEF WatchInv
<1>0. handlers[Runner].pc # "idle" /\ client.pc = "sent" /\ handlers[Runner].id = client.id
  BY DEF Run, RunWrites, RunInserts, RunFails, SubmitFiles, SubmitLogs, SubmitInsert,
         SubmitFails, HandlerIs, Served
<1>1. CASE RunWrites
  <2>1. handlers'[Runner].pc # "idle" /\ handlers'[Runner].id = handlers[Runner].id
    BY <1>1 DEF RunWrites, SubmitFiles, SubmitLogs, HandlerGoes, FilesInv, TypeOK
  <2>2. QED
    BY <1>0, <1>1, <2>1 DEF RunWrites, ClientType, Served, Watching, OwnVerdict
<1>2. CASE RunInserts
  <2>0. PICK t \in Tasks : t = client.id
    BY DEF ClientType
  <2>1. handlers'[Runner].pc = "idle"
    BY <1>2 DEF RunInserts, SubmitInsert, NoHandler, FilesInv, TypeOK
  <2>2. CASE rows[t].status = "none"
    <3>1. rows'[t] = [status |-> "accepted", n |-> rows[t].n + 1] /\ rows[t].n \in Nat
      BY <1>0, <1>2, <2>0, <2>2 DEF RunInserts, SubmitInsert, FilesInv, TypeOK
    <3>2. client' = [client EXCEPT !.pc = "poll", !.n = rows'[t].n]
      BY <1>2, <2>0, <2>2 DEF RunInserts, InsertReply, IsSuccess, StatusCode
    <3>0. rows'[t].n \in Nat
      BY <3>1
    <3>3. ClientType'
      <4> HIDE DEF WatchInv
      <4>1. ClientType
        BY DEF WatchInv
      <4>2. QED
        BY <3>0, <3>2, <4>1 DEF ClientType
    <3>4. client'.pc = "poll" /\ client'.id = t /\ client'.n = rows'[t].n
      BY <2>0, <3>2 DEF ClientType
    <3>5. rows'[t].n # 0 /\ rows'[t].status = "accepted"
      BY <3>1
    <3>6. Served' /\ Watching' /\ OwnVerdict'
      BY <2>1, <3>4, <3>5 DEF Served, Watching, OwnVerdict
    <3>7. QED
      BY <3>3, <3>6
  <2>3. CASE rows[t].status # "none"
    <3>1. client' = [client EXCEPT !.pc = "done", !.outcome = "error"]
      BY <1>2, <2>0, <2>3 DEF RunInserts, InsertReply, IsSuccess, StatusCode, Ended
    <3>2. QED
      BY <1>0, <2>1, <3>1 DEF ClientType, Served, Watching, OwnVerdict, Outcome
  <2>4. QED
    BY <2>2, <2>3
<1>3. CASE RunFails
  <2>1. handlers'[Runner].pc = "idle"
    BY <1>3 DEF RunFails, SubmitFails, NoHandler, FilesInv, TypeOK
  <2>2. QED
    BY <1>0, <1>3, <2>1 DEF RunFails, Ended, ClientType, Served, Watching, OwnVerdict, Outcome
<1>4. QED
  BY <1>1, <1>2, <1>3 DEF Run

\* A turn of the loop of wait.
LEMMA PollKeepsWatch ==
    ASSUME FilesInv, WatchInv, Poll \/ PollTimesOut PROVE WatchInv'
<1> USE DEF WatchInv
<1>1. CASE Poll
  <2>1. IsSuccess(StatusReply)
    BY <1>1 DEF Poll, IsSuccess, StatusReply, StatusCode, Watching
  <2>2. client' = [client EXCEPT !.pc = "done", !.outcome = "verdict",
                                 !.shown = rows[client.id].n]
    BY <1>1, <2>1 DEF Poll
  <2>3. QED
    BY <1>1, <2>2 DEF Poll, vars, ClientType, Served, Watching, OwnVerdict, Outcome
<1>2. CASE PollTimesOut
  BY <1>2 DEF PollTimesOut, Ended, vars, ClientType, Served, Watching, OwnVerdict, Outcome
<1>3. QED
  BY <1>1, <1>2

\* A handler of another client leaves the client's handler alone, and every row that
\* is there.
LEMMA OtherHandlers ==
    ASSUME TypeOK, NEW h \in Handlers \ {Runner},
           Submitter(h) \/ \E t \in Tasks : SubmitCount(h, t)
    PROVE  /\ handlers'[Runner] = handlers[Runner]
           /\ \A c \in Tasks : rows[c].status # "none" => rows'[c] = rows[c]
<1> USE DEF TypeOK
<1>1. ASSUME NEW t \in Tasks, SubmitCount(h, t)
      PROVE  handlers'[Runner] = handlers[Runner] /\ rows' = rows
  BY <1>1 DEF SubmitCount
<1>2. ASSUME SubmitFiles(h) \/ SubmitLogs(h)
      PROVE  handlers'[Runner] = handlers[Runner] /\ rows' = rows
  <2>1. rows' = rows /\ \E step : handlers' = [handlers EXCEPT ![h].pc = step]
    BY <1>2 DEF SubmitFiles, SubmitLogs, HandlerGoes
  <2>2. QED
    BY <2>1
<1>3. ASSUME SubmitInsert(h)
      PROVE  /\ handlers'[Runner] = handlers[Runner]
             /\ \A c \in Tasks : rows[c].status # "none" => rows'[c] = rows[c]
  <2>1. handlers'[Runner] = handlers[Runner]
    <3>1. handlers' = [handlers EXCEPT ![h] = NoHandler]
      BY <1>3 DEF SubmitInsert
    <3>2. QED
      BY <3>1
  <2>2. ASSUME NEW c \in Tasks, rows[c].status # "none" PROVE rows'[c] = rows[c]
    <3>1. PICK t \in Tasks : t = handlers[h].id
      OBVIOUS
    <3>2. QED
      BY <1>3, <2>2, <3>1 DEF SubmitInsert
  <2>3. QED
    BY <2>1, <2>2
<1>4. SubmitFails(h) => handlers'[Runner] = handlers[Runner] /\ rows' = rows
  BY DEF SubmitFails
<1>5. QED
  BY <1>1, <1>2, <1>3, <1>4 DEF Submitter

\* Nobody else touches the row that is watched: it is not there to be inserted, and
\* not old, so gc_loop does not have it if the retention can be represented.
LEMMA OthersKeepWatch ==
    ASSUME RetentionFits, FilesInv, WatchInv, Others PROVE WatchInv'
<1> USE DEF WatchInv
<1>1. ClientType' /\ OwnVerdict'
  BY DEF Others, ClientType, OwnVerdict
<1>2. handlers'[Runner] = handlers[Runner]
  <2>1. CASE \E h \in Handlers \ {Runner} : Submitter(h) \/ \E t \in Tasks : SubmitCount(h, t)
    <3>1. PICK h \in Handlers \ {Runner} : Submitter(h) \/ \E t \in Tasks : SubmitCount(h, t)
      BY <2>1
    <3>2. QED
      BY <3>1, OtherHandlers DEF FilesInv
  <2>2. CASE UNCHANGED handlers
    BY <2>2
  <2>3. QED
    BY <2>1, <2>2 DEF Others, End, Age, GC, GCList, GCRemove, GCRemoveFails, GCDelete,
                      GCDeleteFails
<1>3. Watching'
  <2> SUFFICES ASSUME client.pc = "poll"
               PROVE  /\ rows'[client.id].n = rows[client.id].n
                      /\ rows'[client.id].status \in {"accepted", "ended"}
    BY DEF Others, Watching
  <2>0. PICK c \in Tasks : c = client.id
    BY DEF ClientType
  <2>1. rows[c].status \in {"accepted", "ended"}
    BY <2>0 DEF Watching
  <2>2. CASE \E h \in Handlers \ {Runner} : Submitter(h) \/ \E t \in Tasks : SubmitCount(h, t)
    <3>1. PICK h \in Handlers \ {Runner} : Submitter(h) \/ \E t \in Tasks : SubmitCount(h, t)
      BY <2>2
    <3>2. rows'[c] = rows[c]
      BY <2>1, <3>1, OtherHandlers DEF FilesInv
    <3>3. QED
      BY <2>0, <2>1, <3>2
  <2>3. CASE \E t \in Tasks : End(t)
    BY <2>0, <2>1, <2>3 DEF End, FilesInv, TypeOK
  <2>4. CASE \E t \in Tasks \ Watched : Age(t)
    BY <2>0, <2>1, <2>4 DEF Age, Watched, FilesInv, TypeOK
  <2>5. CASE GC
    <3>1. c \notin gc.todo
      BY <2>1 DEF FilesInv, CollectedIsOld, Expired
    <3>2. rows'[c] = rows[c]
      BY <2>5, <3>1 DEF GC, GCList, GCRemove, GCRemoveFails, GCDelete, GCDeleteFails,
                        FilesInv, TypeOK
    <3>3. QED
      BY <2>0, <2>1, <3>2
  <2>6. QED
    BY <2>2, <2>3, <2>4, <2>5 DEF Others
<1>4. QED
  BY <1>1, <1>2, <1>3 DEF Others, Served

\* The server dies.
LEMMA DeathKeepsWatch ==
    ASSUME FilesInv, WatchInv, ServerDies PROVE WatchInv'
<1> USE DEF WatchInv
<1>1. handlers'[Runner].pc = "idle" /\ rows' = rows
  BY RunnerAssumption DEF ServerDies, Crash, NoHandler
<1>2. \/ /\ client' = [client EXCEPT !.pc = "done", !.outcome = "lost"]
         /\ client.pc \in {"sent", "poll"}
      \/ client' = client /\ client.pc # "sent"
  BY DEF ServerDies, AfterCrash
<1>3. QED
  BY <1>1, <1>2 DEF ClientType, Served, Watching, OwnVerdict, Outcome

\* A step of the client or of the server.
LEMMA WatchStep ==
    ASSUME RetentionFits, FilesInv, WatchInv, [ClientNext]_clientVars PROVE WatchInv'
<1>1. CASE UNCHANGED clientVars
  BY <1>1 DEF clientVars, vars, WatchInv, ClientType, Served, Watching, OwnVerdict
<1>2. CASE ClientNext
  BY <1>2, StartKeepsWatch, RunKeepsWatch, PollKeepsWatch, OthersKeepWatch, DeathKeepsWatch
     DEF ClientNext
<1>3. QED
  BY <1>1, <1>2

\* What is proved of Submission holds with a client too.
LEMMA FilesWithClient == ClientSpec => []FilesInv
BY ClientImplementsSubmission, FilesAlways, PTL

\* The client shows how its own task ended, and never that there is none, whoever
\* uses the id before or after and whenever the server dies (run_remote, wait_remote),
\* if chrono can represent the retention: otherwise gc_loop may collect the row before
\* the client has seen its end.
THEOREM ClientShowsOwnVerdict ==
    ASSUME RetentionFits PROVE ClientSpec => []OwnVerdict
<1>1. FilesInv /\ WatchInv /\ [ClientNext]_clientVars => WatchInv'
  BY WatchStep
<1>2. WatchInv => OwnVerdict
  BY DEF WatchInv
<1>3. QED
  BY <1>1, <1>2, WatchInit, FilesWithClient, PTL DEF ClientSpec

-----------------------------------------------------------------------------
(* Its type, whatever the retention *)

ClientTypes == ClientType /\ abandoned \subseteq Tasks

\* A step of the client or of the server keeps the types of what belongs to the client.
LEMMA ClientTypesStep ==
    ASSUME FilesInv, ClientTypes, [ClientNext]_clientVars PROVE ClientTypes'
<1>1. CASE UNCHANGED clientVars
  BY <1>1 DEF clientVars, vars, ClientTypes, ClientType
<1>2. CASE ClientNext
  <2>0. ClientType /\ TypeOK
    BY DEF ClientTypes, FilesInv
  <2>1. abandoned' \subseteq Tasks
    <3>1. \A h \in Handlers : handlers[h].id \in Tasks
      BY <2>0 DEF TypeOK
    <3>2. QED
      BY <1>2, <3>1 DEF ClientNext, Abandons, Stopping, ClientTypes
  <2>2. rows'[client.id].n \in Nat /\ rows[client.id].n \in Nat
    <3>1. TypeOK'
      BY <1>2, FilesStep, ClientStepIsStep DEF FilesInv
    <3>2. QED
      BY <2>0, <3>1 DEF TypeOK, ClientType
  <2>3. ASSUME NEW t \in Tasks, RunSends(t) \/ RunQueueFull(t) \/ WaitStarts(t)
        PROVE  ClientType'
    <3>1. rows[t].n \in Nat
      BY <2>0 DEF TypeOK
    <3>2. \E m \in Nat, pc \in {"sent", "done", "poll"}, outcome \in {"none", "error"} :
             client' = [pc |-> pc, id |-> t, n |-> m, outcome |-> outcome, shown |-> 0]
      BY <2>3, <3>1 DEF RunSends, RunQueueFull, WaitStarts, NoClient
    <3>3. QED
      BY <3>2 DEF ClientType, Outcome
  <2>4. Run => ClientType'
    BY <2>0, <2>2 DEF Run, RunWrites, RunInserts, RunFails, Ended, ClientType, Outcome
  <2>5. Poll \/ PollTimesOut => ClientType'
    BY <2>0, <2>2 DEF Poll, PollTimesOut, Ended, ClientType, Outcome
  <2>6. Others => ClientType'
    BY <2>0 DEF Others, ClientType
  <2>7. ServerDies => ClientType'
    BY <2>0 DEF ServerDies, AfterCrash, ClientType, Outcome
  <2>8. QED
    BY <1>2, <2>1, <2>3, <2>4, <2>5, <2>6, <2>7 DEF ClientNext, ClientTypes
<1>3. QED
  BY <1>1, <1>2

\* The state of handlers, rows, files and gc_loop, and of the command that runs and
\* polls (run_remote, wait_remote), keeps its type.
THEOREM ClientTypeCorrect == ClientSpec => []ClientTypeOK
<1>1. ClientInit => ClientTypes
  BY WatchInit DEF ClientInit, WatchInv, ClientTypes
<1>2. FilesInv /\ ClientTypes /\ [ClientNext]_clientVars => ClientTypes'
  BY ClientTypesStep
<1>3. FilesInv /\ ClientTypes => ClientTypeOK
  BY DEF FilesInv, ClientTypes, ClientType, ClientTypeOK
<1>4. QED
  BY <1>1, <1>2, <1>3, FilesWithClient, PTL DEF ClientSpec

-----------------------------------------------------------------------------
(* Directories without a row *)

BusyOn(t) == \E h \in Handlers : handlers[h].pc # "idle" /\ handlers[h].id = t

Orphan(t) == /\ files[t] # {}
             /\ rows[t].status = "none" \/ t \in gc.removed
             /\ ~BusyOn(t)

OrphanInv == \A t \in Tasks : Orphan(t) => t \in abandoned

\* A handler that stops without an insertion leaves its id behind.
LEMMA LeftBehind ==
    ASSUME Abandons, NEW t, NEW h \in Handlers,
           handlers[h].pc # "idle", handlers[h].id = t, handlers'[h].pc = "idle",
           rows'[t].n = rows[t].n
    PROVE  t \in abandoned'
BY DEF Abandons, Stopping

\* An id left behind stays so until its directory is removed.
LEMMA StaysBehind ==
    ASSUME Abandons, NEW t \in Tasks, OrphanInv, Orphan(t),
           t \notin gc'.removed \/ t \in gc.removed
    PROVE  t \in abandoned'
BY DEF Abandons, OrphanInv

\* A step of a handler makes an orphan only by leaving it behind.
LEMMA HandlerLeavesBehind ==
    ASSUME FilesInv, OrphanInv, Abandons, NEW t \in Tasks, Orphan(t)', NEW h \in Handlers,
           Submitter(h) \/ \E u \in Tasks : SubmitCount(h, u)
    PROVE  t \in abandoned'
<1>0. TypeOK
  BY DEF FilesInv
<1> DEFINE u == handlers[h].id
<1>1. ASSUME NEW w \in Tasks, SubmitCount(h, w) PROVE t \in abandoned'
  <2>1. ~BusyOn(t)
    <3>1. \A g \in Handlers : handlers[g].pc # "idle" => handlers'[g] = handlers[g]
      BY <1>0, <1>1 DEF SubmitCount, HandlerIs, TypeOK
    <3>2. QED
      BY <3>1 DEF Orphan, BusyOn
  <2>2. QED
    BY <1>1, <2>1, StaysBehind DEF SubmitCount, Orphan
<1>2. ASSUME SubmitFiles(h) \/ SubmitLogs(h) PROVE t \in abandoned'
  <2>1. \E step \in {"logs", "insert"} : handlers' = [handlers EXCEPT ![h].pc = step]
    BY <1>2 DEF SubmitFiles, SubmitLogs, HandlerGoes
  <2>2. /\ \A g \in Handlers : handlers'[g].id = handlers[g].id
        /\ \A g \in Handlers : handlers[g].pc # "idle" => handlers'[g].pc # "idle"
        /\ handlers'[h].pc # "idle"
    BY <1>0, <2>1 DEF TypeOK
  <2>3. t # u /\ ~BusyOn(t)
    BY <2>2 DEF Orphan, BusyOn
  <2>4. files'[t] = files[t] /\ rows' = rows /\ gc' = gc
    BY <1>0, <1>2, <2>3 DEF SubmitFiles, SubmitLogs, TypeOK
  <2>5. QED
    BY <2>3, <2>4, StaysBehind DEF Orphan
<1>3. ASSUME SubmitInsert(h) \/ SubmitFails(h) PROVE t \in abandoned'
  <2>1. handlers' = [handlers EXCEPT ![h] = NoHandler] /\ handlers[h].pc # "idle"
    BY <1>3 DEF SubmitInsert, SubmitFails, HandlerIs
  <2>2. handlers'[h].pc = "idle" /\ \A g \in Handlers \ {h} : handlers'[g] = handlers[g]
    BY <1>0, <2>1 DEF TypeOK, NoHandler
  <2>3. files' = files /\ gc' = gc
    BY <1>3 DEF SubmitInsert, SubmitFails
  <2>4. CASE t = u /\ rows' = rows
    BY <2>1, <2>2, <2>4, LeftBehind
  <2>5. CASE t = u /\ rows' # rows
    <3>1. /\ rows[t].status = "none"
          /\ rows' = [rows EXCEPT ![t] = [status |-> "accepted", n |-> @.n + 1]]
      BY <1>3, <2>5 DEF SubmitInsert, SubmitFails
    <3>2. rows'[t].status = "accepted"
      BY <1>0, <3>1 DEF TypeOK
    <3>3. t \in gc.todo
      BY <1>0, <2>3, <3>2 DEF Orphan, TypeOK
    <3>4. QED
      BY <3>1, <3>3 DEF FilesInv, CollectedIsOld, Expired
  <2>6. CASE t # u
    <3>1. ~BusyOn(t)
      BY <2>2, <2>6 DEF Orphan, BusyOn
    <3>2. rows'[t] = rows[t]
      BY <1>0, <1>3, <2>6 DEF SubmitInsert, SubmitFails, TypeOK
    <3>3. QED
      BY <2>3, <3>1, <3>2, StaysBehind DEF Orphan
  <2>7. QED
    BY <2>4, <2>5, <2>6
<1>4. QED
  BY <1>1, <1>2, <1>3 DEF Submitter

\* Nor does a step of anybody else: gc_loop removes the directory before the row.
LEMMA StepLeavesBehind ==
    ASSUME FilesInv, OrphanInv, Abandons, NEW t \in Tasks, Orphan(t)', [Next]_vars
    PROVE  t \in abandoned'
<1>0. TypeOK
  BY DEF FilesInv
<1>1. CASE \E h \in Handlers : Submitter(h) \/ \E u \in Tasks : SubmitCount(h, u)
  BY <1>1, HandlerLeavesBehind
<1>2. ASSUME NEW u \in Tasks, End(u) \/ Age(u) PROVE t \in abandoned'
  <2>1. rows'[t].status = "none" => rows[t].status = "none"
    BY <1>0, <1>2 DEF End, Age, TypeOK
  <2>2. QED
    BY <1>2, <2>1, StaysBehind DEF End, Age, Orphan, BusyOn
<1>3. CASE GCList
  BY <1>3, StaysBehind DEF GCList, NoGC, Orphan, BusyOn
<1>4. ASSUME NEW u \in Tasks, GCRemove(u) PROVE t \in abandoned'
  <2>1. gc'.removed = {u} /\ files'[u] = {}
    BY <1>0, <1>4 DEF GCRemove, TypeOK
  <2>2. t # u /\ files'[t] = files[t]
    BY <1>0, <1>4, <2>1 DEF GCRemove, TypeOK, Orphan
  <2>3. QED
    BY <1>4, <2>1, <2>2, StaysBehind DEF GCRemove, Orphan, BusyOn
<1>5. ASSUME NEW u \in Tasks, GCRemoveFails(u) PROVE t \in abandoned'
  <2>1. gc'.removed = gc.removed
    BY <1>0, <1>5 DEF GCRemoveFails, TypeOK
  <2>2. files'[t] \subseteq files[t]
    BY <1>0, <1>5 DEF GCRemoveFails, TypeOK
  <2>3. QED
    BY <1>5, <2>1, <2>2, StaysBehind DEF GCRemoveFails, Orphan, BusyOn
<1>6. ASSUME NEW u \in Tasks, GCDelete(u) PROVE t \in abandoned'
  <2>1. gc'.removed = {} /\ u \in gc.removed
    BY <1>0, <1>6 DEF GCDelete, TypeOK
  <2>2. t # u => rows'[t] = rows[t]
    BY <1>0, <1>6 DEF GCDelete, TypeOK
  <2>3. QED
    BY <1>6, <2>1, <2>2, StaysBehind DEF GCDelete, Orphan, BusyOn
<1>7. ASSUME NEW u \in Tasks, GCDeleteFails(u) PROVE t \in abandoned'
  <2>1. gc'.removed = {}
    BY <1>0, <1>7 DEF GCDeleteFails, TypeOK
  <2>2. QED
    BY <1>7, <2>1, StaysBehind DEF GCDeleteFails, Orphan, BusyOn
<1>8. CASE Crash
  <2>1. gc'.removed = {} /\ rows' = rows /\ files' = files
        /\ \A h \in Handlers : handlers'[h].pc = "idle"
    BY <1>8 DEF Crash, NoGC, NoHandler
  <2>2. CASE BusyOn(t)
    BY <2>1, <2>2, LeftBehind DEF BusyOn
  <2>3. CASE ~BusyOn(t)
    BY <2>1, <2>3, StaysBehind DEF Orphan
  <2>4. QED
    BY <2>2, <2>3
<1>9. CASE UNCHANGED vars
  BY <1>9, StaysBehind DEF vars, Orphan, BusyOn
<1>10. QED
  BY <1>1, <1>2, <1>3, <1>4, <1>5, <1>6, <1>7, <1>8, <1>9 DEF Next, GC

\* OrphanInv is inductive, given FilesInv.
LEMMA OrphanStep == FilesInv /\ OrphanInv /\ [ClientNext]_clientVars => OrphanInv'
<1> SUFFICES ASSUME FilesInv, OrphanInv, [ClientNext]_clientVars PROVE OrphanInv'
  OBVIOUS
<1>1. CASE UNCHANGED clientVars
  BY <1>1 DEF clientVars, vars, OrphanInv, Orphan, BusyOn
<1>2. CASE ClientNext
  <2> SUFFICES ASSUME NEW t \in Tasks, Orphan(t)' PROVE t \in abandoned'
    BY DEF OrphanInv
  <2>1. [Next]_vars /\ Abandons
    BY <1>2, ClientStepIsStep DEF ClientNext
  <2>2. QED
    BY <2>1, StepLeavesBehind
<1>3. QED
  BY <1>1, <1>2

\* A directory that no row leads to and nobody is working on was left by a
\* submission: gc_loop leaves none, also when it fails or the server dies between
\* remove_dir_all and delete_task.
THEOREM OrphansComeFromSubmissions == ClientSpec => []OrphansAreAbandoned
<1>1. ClientInit => OrphanInv
  BY DEF ClientInit, Init, OrphanInv, Orphan
<1>2. OrphanInv => OrphansAreAbandoned
  BY DEF OrphanInv, Orphan, BusyOn, OrphansAreAbandoned
<1>3. QED
  BY <1>1, <1>2, OrphanStep, FilesWithClient, PTL DEF ClientSpec
=============================================================================
