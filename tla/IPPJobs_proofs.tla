--------------------------- MODULE IPPJobs_proofs ---------------------------
(***************************************************************************)
(* Theorems about IPPJobs, for any number of slots and jobs.               *)
(***************************************************************************)
EXTENDS IPPJobs, TLAPS

USE SlotsAssumption, MaxJobsAssumption, SerialSendersAssumption

\* A handler or goroutine that has a job has one of the store's jobs, which is
\* not the job the next Add creates (server.go:465-479).
LEMMA JobOfSlot ==
  ASSUME TypeOK, IdInv, NEW s \in Slots
  PROVE  /\ hPc[s] \notin NoJobPcs => hJob[s] \in JobIds /\ hJob[s] # next + 1
         /\ Works(s) => wJob[s] \in JobIds /\ prints[wJob[s]] \in Nat
  <1>1. \A j \in Stored : j \in JobIds /\ j # next + 1
    BY DEF TypeOK, StoreTypes, Stored, JobIds
  <1>2. hPc[s] \notin NoJobPcs => hJob[s] \in Stored
    BY DEF IdInv
  <1>3. Works(s) => wJob[s] \in Stored
    BY DEF IdInv, Works
  <1>4. \A j \in JobIds : prints[j] \in Nat
    BY DEF TypeOK, StoreTypes
  <1> QED BY <1>1, <1>2, <1>3, <1>4

\* Of a handler's steps only StartProcessing touches a goroutine (server.go:402-404).
LEMMA HandlerStartsOnly ==
  ASSUME NEW s \in Slots, HandlerStep(s), ~StartProcessing(s)
  PROVE  UNCHANGED workerVars
  BY DEF HandlerStep, TryLockBusy, TryLockFree, Query, AddCreated, AddPrinted, AddJob,
         CheckDocSet, CheckState, SetDoc, SetDocSet, SetDocFormat, NotLastDocument,
         CancelSnapshot, SetCancel, CancelLoadStarted, CancelSetState

-----------------------------------------------------------------------------
(* Each part of the inductive invariant is kept by every step.             *)

USE DEF TypeOK, StoreTypes, HandlerTypes, WorkerTypes, AddJob, HandlerGoto, Reply,
        SetState, Available, CanTryLock, HasDocument, EndsHere, MarkStarted,
        WorkerGoto, Canceled, CheckCanceled, ReleasePrintMu, Begin, vars, handlerVars,
        workerVars, docVars, flagVars, jobVars, JobIds, JobStates, Terminal,
        Operations, NoJobPcs, SendPcs, CancelPcs, HandlerPcs, AttachPcs, WorkerPcs,
        WorkerInside, UsesPrinter, Stored, IsSending, Works

\* Every write to the job store keeps the types of its fields (job.go:392-414, 454-483).
LEMMA StoreTypes_Step ==
  ASSUME TypeOK, IdInv, [Next]_vars
  PROVE  StoreTypes'
  <1> USE DEF StoreTypes
  <1>1. ASSUME NEW s \in Slots, ClientStep(s) PROVE StoreTypes'
    BY <1>1 DEF ClientStep, GetPrinterAttributes, CreateJob, PrintJob, SendDocument,
       CancelJob, IdInv
  <1>2. ASSUME NEW s \in Slots, HandlerStep(s) PROVE StoreTypes'
    <2>1. CASE TryLockBusy(s)
      <3>1. CASE Reply(s, "try")
        BY <2>1, <3>1 DEF TryLockBusy, IdInv
      <3>2. CASE HandlerGoto(s, "try", "add")
        BY <2>1, <3>2 DEF TryLockBusy, IdInv
      <3> QED BY <2>1, <3>1, <3>2 DEF TryLockBusy
    <2>2. CASE TryLockFree(s)
      BY <2>2 DEF TryLockFree, IdInv
    <2>3. CASE Query(s)
      <3>1. CASE Reply(s, "query")
        BY <2>3, <3>1 DEF Query, IdInv
      <3>2. CASE HandlerGoto(s, "query", "add")
        BY <2>3, <3>2 DEF Query, IdInv
      <3> QED BY <2>3, <3>1, <3>2 DEF Query
    <2>4. CASE AddCreated(s)
      BY <2>4 DEF AddCreated, IdInv
    <2>5. CASE AddPrinted(s)
      BY <2>5 DEF AddPrinted, IdInv
    <2>6. CASE CheckDocSet(s)
      <3>1. CASE Reply(s, "checkDoc")
        BY <2>6, <3>1 DEF CheckDocSet, IdInv
      <3>2. CASE HandlerGoto(s, "checkDoc", "checkState")
        BY <2>6, <3>2 DEF CheckDocSet, IdInv
      <3> QED BY <2>6, <3>1, <3>2 DEF CheckDocSet
    <2>7. CASE CheckState(s)
      <3>1. CASE Reply(s, "checkState")
        BY <2>7, <3>1 DEF CheckState, IdInv
      <3>2. CASE HandlerGoto(s, "checkState", "doc")
        BY <2>7, <3>2 DEF CheckState, IdInv
      <3> QED BY <2>7, <3>1, <3>2 DEF CheckState
    <2>8. CASE SetDoc(s)
      BY <2>8 DEF SetDoc, IdInv
    <2>9. CASE SetDocSet(s)
      BY <2>9 DEF SetDocSet, IdInv
    <2>10. CASE SetDocFormat(s)
      BY <2>10 DEF SetDocFormat, IdInv
    <2>11. CASE NotLastDocument(s)
      BY <2>11 DEF NotLastDocument, IdInv
    <2>12. CASE StartProcessing(s)
      BY <2>12 DEF StartProcessing, IdInv
    <2>13. CASE CancelSnapshot(s)
      <3>1. CASE Reply(s, "snapshot")
        BY <2>13, <3>1 DEF CancelSnapshot, IdInv
      <3>2. CASE HandlerGoto(s, "snapshot", "setCancel")
        BY <2>13, <3>2 DEF CancelSnapshot, IdInv
      <3> QED BY <2>13, <3>1, <3>2 DEF CancelSnapshot
    <2>14. CASE SetCancel(s)
      BY <2>14 DEF SetCancel, IdInv
    <2>15. CASE CancelLoadStarted(s)
      <3>1. CASE Reply(s, "loadStarted")
        BY <2>15, <3>1 DEF CancelLoadStarted, IdInv
      <3>2. CASE HandlerGoto(s, "loadStarted", "setCanceled")
        BY <2>15, <3>2 DEF CancelLoadStarted, IdInv
      <3> QED BY <2>15, <3>1, <3>2 DEF CancelLoadStarted
    <2>16. CASE CancelSetState(s)
      BY <2>16 DEF CancelSetState, IdInv
    <2> QED BY <1>2, <2>1, <2>2, <2>3, <2>4, <2>5, <2>6, <2>7, <2>8, <2>9, <2>10,
               <2>11, <2>12, <2>13, <2>14, <2>15, <2>16 DEF HandlerStep
  <1>3. ASSUME NEW s \in Slots, WorkerStep(s) PROVE StoreTypes'
    <2>1. CASE WorkerLock(s)
      BY <2>1 DEF WorkerLock, IdInv
    <2>2. CASE WorkerCheck(s)
      <3>1. CASE WorkerGoto(s, "check1", "canceled")
        BY <2>2, <3>1 DEF WorkerCheck, IdInv
      <3>2. CASE WorkerGoto(s, "check2", "canceled")
        BY <2>2, <3>2 DEF WorkerCheck, IdInv
      <3>3. CASE WorkerGoto(s, "check3", "canceled")
        BY <2>2, <3>3 DEF WorkerCheck, IdInv
      <3>4. CASE WorkerGoto(s, "check1", "process")
        BY <2>2, <3>4 DEF WorkerCheck, IdInv
      <3>5. CASE WorkerGoto(s, "check2", "print")
        BY <2>2, <3>5 DEF WorkerCheck, IdInv
      <3>6. CASE WorkerGoto(s, "check3", "completed")
        BY <2>2, <3>6 DEF WorkerCheck, IdInv
      <3> QED BY <2>2, <3>1, <3>2, <3>3, <3>4, <3>5, <3>6 DEF WorkerCheck
    <2>3. CASE WorkerProcess(s)
      BY <2>3 DEF WorkerProcess, IdInv
    <2>4. CASE WorkerConvert(s)
      <3>1. CASE WorkerGoto(s, "convert", "check2")
        BY <2>4, <3>1 DEF WorkerConvert, IdInv
      <3>2. CASE WorkerGoto(s, "convert", "aborted")
        BY <2>4, <3>2 DEF WorkerConvert, IdInv
      <3> QED BY <2>4, <3>1, <3>2 DEF WorkerConvert
    <2>5. CASE WorkerPrint(s)
      <3>1. wJob[s] \in JobIds /\ prints[wJob[s]] + 1 \in Nat
        BY <2>5, JobOfSlot DEF WorkerPrint
      <3>2. prints' \in [JobIds -> Nat]
        BY <2>5, <3>1 DEF WorkerPrint
      <3> QED BY <2>5, <3>2 DEF WorkerPrint
    <2>6. CASE WorkerFinish(s)
      <3>1. PICK st \in Terminal : WorkerGoto(s, st, "unlock") /\ SetState(wJob[s], st)
        BY <2>6 DEF WorkerFinish
      <3> QED BY <2>6, <3>1 DEF WorkerFinish, IdInv
    <2>7. CASE WorkerUnlock(s)
      BY <2>7 DEF WorkerUnlock, IdInv
    <2> QED BY <1>3, <2>1, <2>2, <2>3, <2>4, <2>5, <2>6, <2>7 DEF WorkerStep
  <1>4. CASE UNCHANGED vars
    BY <1>4 DEF vars, IdInv
  <1> QED BY <1>1, <1>2, <1>3, <1>4 DEF Next

\* A handler is always at one of its steps (server.go:83-164).
LEMMA HandlerTypes_Step ==
  ASSUME TypeOK, [Next]_vars
  PROVE  HandlerTypes'
  <1> USE DEF HandlerTypes
  <1>1. ASSUME NEW s \in Slots, ClientStep(s) PROVE HandlerTypes'
    <2>1. CASE GetPrinterAttributes(s)
      BY <2>1 DEF GetPrinterAttributes
    <2>2. CASE CreateJob(s)
      BY <2>2 DEF CreateJob
    <2>3. CASE PrintJob(s)
      BY <2>3 DEF PrintJob
    <2>4. ASSUME NEW j \in JobIds, SendDocument(s, j) PROVE HandlerTypes'
      BY <2>4 DEF SendDocument
    <2>5. ASSUME NEW j \in JobIds, CancelJob(s, j) PROVE HandlerTypes'
      BY <2>5 DEF CancelJob
    <2> QED BY <1>1, <2>1, <2>2, <2>3, <2>4, <2>5 DEF ClientStep
  <1>2. ASSUME NEW s \in Slots, HandlerStep(s) PROVE HandlerTypes'
    <2>1. CASE TryLockBusy(s)
      <3>1. CASE Reply(s, "try")
        BY <2>1, <3>1 DEF TryLockBusy
      <3>2. CASE HandlerGoto(s, "try", "add")
        BY <2>1, <3>2 DEF TryLockBusy
      <3> QED BY <2>1, <3>1, <3>2 DEF TryLockBusy
    <2>2. CASE TryLockFree(s)
      BY <2>2 DEF TryLockFree
    <2>3. CASE Query(s)
      <3>1. CASE Reply(s, "query")
        BY <2>3, <3>1 DEF Query
      <3>2. CASE HandlerGoto(s, "query", "add")
        BY <2>3, <3>2 DEF Query
      <3> QED BY <2>3, <3>1, <3>2 DEF Query
    <2>4. CASE AddCreated(s)
      BY <2>4 DEF AddCreated
    <2>5. CASE AddPrinted(s)
      BY <2>5 DEF AddPrinted
    <2>6. CASE CheckDocSet(s)
      <3>1. CASE Reply(s, "checkDoc")
        BY <2>6, <3>1 DEF CheckDocSet
      <3>2. CASE HandlerGoto(s, "checkDoc", "checkState")
        BY <2>6, <3>2 DEF CheckDocSet
      <3> QED BY <2>6, <3>1, <3>2 DEF CheckDocSet
    <2>7. CASE CheckState(s)
      <3>1. CASE Reply(s, "checkState")
        BY <2>7, <3>1 DEF CheckState
      <3>2. CASE HandlerGoto(s, "checkState", "doc")
        BY <2>7, <3>2 DEF CheckState
      <3> QED BY <2>7, <3>1, <3>2 DEF CheckState
    <2>8. CASE SetDoc(s)
      BY <2>8 DEF SetDoc
    <2>9. CASE SetDocSet(s)
      BY <2>9 DEF SetDocSet
    <2>10. CASE SetDocFormat(s)
      BY <2>10 DEF SetDocFormat
    <2>11. CASE NotLastDocument(s)
      BY <2>11 DEF NotLastDocument
    <2>12. CASE StartProcessing(s)
      BY <2>12 DEF StartProcessing
    <2>13. CASE CancelSnapshot(s)
      <3>1. CASE Reply(s, "snapshot")
        BY <2>13, <3>1 DEF CancelSnapshot
      <3>2. CASE HandlerGoto(s, "snapshot", "setCancel")
        BY <2>13, <3>2 DEF CancelSnapshot
      <3> QED BY <2>13, <3>1, <3>2 DEF CancelSnapshot
    <2>14. CASE SetCancel(s)
      BY <2>14 DEF SetCancel
    <2>15. CASE CancelLoadStarted(s)
      <3>1. CASE Reply(s, "loadStarted")
        BY <2>15, <3>1 DEF CancelLoadStarted
      <3>2. CASE HandlerGoto(s, "loadStarted", "setCanceled")
        BY <2>15, <3>2 DEF CancelLoadStarted
      <3> QED BY <2>15, <3>1, <3>2 DEF CancelLoadStarted
    <2>16. CASE CancelSetState(s)
      BY <2>16 DEF CancelSetState
    <2> QED BY <1>2, <2>1, <2>2, <2>3, <2>4, <2>5, <2>6, <2>7, <2>8, <2>9, <2>10,
               <2>11, <2>12, <2>13, <2>14, <2>15, <2>16 DEF HandlerStep
  <1>3. ASSUME NEW s \in Slots, WorkerStep(s) PROVE HandlerTypes'
    BY <1>3 DEF WorkerStep, WorkerLock, WorkerCheck, WorkerProcess, WorkerConvert,
       WorkerPrint,
           WorkerFinish, WorkerUnlock
  <1>4. CASE UNCHANGED vars
    BY <1>4 DEF vars
  <1> QED BY <1>1, <1>2, <1>3, <1>4 DEF Next

\* A goroutine is always at one of its steps (server.go:402-443).
LEMMA WorkerTypes_Step ==
  ASSUME TypeOK, [Next]_vars
  PROVE  WorkerTypes'
  <1> USE DEF WorkerTypes
  <1>1. ASSUME NEW s \in Slots, ClientStep(s) PROVE WorkerTypes'
    BY <1>1 DEF ClientStep, GetPrinterAttributes, CreateJob, PrintJob, SendDocument,
       CancelJob
  <1>2. ASSUME NEW s \in Slots, HandlerStep(s) PROVE WorkerTypes'
    <2>1. CASE StartProcessing(s)
      BY <2>1 DEF StartProcessing
    <2>2. CASE ~StartProcessing(s)
      BY <1>2, <2>2, HandlerStartsOnly
    <2> QED BY <2>1, <2>2
  <1>3. ASSUME NEW s \in Slots, WorkerStep(s) PROVE WorkerTypes'
    <2>1. CASE WorkerLock(s)
      BY <2>1 DEF WorkerLock
    <2>2. CASE WorkerCheck(s)
      <3>1. CASE WorkerGoto(s, "check1", "canceled")
        BY <2>2, <3>1 DEF WorkerCheck
      <3>2. CASE WorkerGoto(s, "check2", "canceled")
        BY <2>2, <3>2 DEF WorkerCheck
      <3>3. CASE WorkerGoto(s, "check3", "canceled")
        BY <2>2, <3>3 DEF WorkerCheck
      <3>4. CASE WorkerGoto(s, "check1", "process")
        BY <2>2, <3>4 DEF WorkerCheck
      <3>5. CASE WorkerGoto(s, "check2", "print")
        BY <2>2, <3>5 DEF WorkerCheck
      <3>6. CASE WorkerGoto(s, "check3", "completed")
        BY <2>2, <3>6 DEF WorkerCheck
      <3> QED BY <2>2, <3>1, <3>2, <3>3, <3>4, <3>5, <3>6 DEF WorkerCheck
    <2>3. CASE WorkerProcess(s)
      BY <2>3 DEF WorkerProcess
    <2>4. CASE WorkerConvert(s)
      <3>1. CASE WorkerGoto(s, "convert", "check2")
        BY <2>4, <3>1 DEF WorkerConvert
      <3>2. CASE WorkerGoto(s, "convert", "aborted")
        BY <2>4, <3>2 DEF WorkerConvert
      <3> QED BY <2>4, <3>1, <3>2 DEF WorkerConvert
    <2>5. CASE WorkerPrint(s)
      <3>1. CASE WorkerGoto(s, "print", "aborted")
        BY <2>5, <3>1 DEF WorkerPrint
      <3>2. CASE WorkerGoto(s, "print", "check3")
        BY <2>5, <3>2 DEF WorkerPrint
      <3> QED BY <2>5, <3>1, <3>2 DEF WorkerPrint
    <2>6. CASE WorkerFinish(s)
      <3>1. PICK st \in Terminal : WorkerGoto(s, st, "unlock") /\ SetState(wJob[s], st)
        BY <2>6 DEF WorkerFinish
      <3> QED BY <2>6, <3>1 DEF WorkerFinish
    <2>7. CASE WorkerUnlock(s)
      BY <2>7 DEF WorkerUnlock
    <2> QED BY <1>3, <2>1, <2>2, <2>3, <2>4, <2>5, <2>6, <2>7 DEF WorkerStep
  <1>4. CASE UNCHANGED vars
    BY <1>4 DEF vars
  <1> QED BY <1>1, <1>2, <1>3, <1>4 DEF Next

\* Every path through currentPrinterState and startProcessing takes and releases
\* printMu in pairs (server.go:225-237, 402-443).
LEMMA LockInv_Step ==
  ASSUME TypeOK, LockInv, [Next]_vars
  PROVE  LockInv'
  <1> USE DEF LockInv
  <1>1. ASSUME NEW s \in Slots, ClientStep(s) PROVE LockInv'
    BY <1>1 DEF ClientStep, GetPrinterAttributes, CreateJob, PrintJob, SendDocument,
       CancelJob
  <1>2. ASSUME NEW s \in Slots, HandlerStep(s) PROVE LockInv'
    <2>1. CASE TryLockBusy(s)
      <3>1. CASE Reply(s, "try")
        BY <2>1, <3>1 DEF TryLockBusy
      <3>2. CASE HandlerGoto(s, "try", "add")
        BY <2>1, <3>2 DEF TryLockBusy
      <3> QED BY <2>1, <3>1, <3>2 DEF TryLockBusy
    <2>2. CASE TryLockFree(s)
      BY <2>2 DEF TryLockFree
    <2>3. CASE Query(s)
      <3>1. CASE Reply(s, "query")
        BY <2>3, <3>1 DEF Query
      <3>2. CASE HandlerGoto(s, "query", "add")
        BY <2>3, <3>2 DEF Query
      <3> QED BY <2>3, <3>1, <3>2 DEF Query
    <2>4. CASE AddCreated(s)
      BY <2>4 DEF AddCreated
    <2>5. CASE AddPrinted(s)
      BY <2>5 DEF AddPrinted
    <2>6. CASE CheckDocSet(s)
      <3>1. CASE Reply(s, "checkDoc")
        BY <2>6, <3>1 DEF CheckDocSet
      <3>2. CASE HandlerGoto(s, "checkDoc", "checkState")
        BY <2>6, <3>2 DEF CheckDocSet
      <3> QED BY <2>6, <3>1, <3>2 DEF CheckDocSet
    <2>7. CASE CheckState(s)
      <3>1. CASE Reply(s, "checkState")
        BY <2>7, <3>1 DEF CheckState
      <3>2. CASE HandlerGoto(s, "checkState", "doc")
        BY <2>7, <3>2 DEF CheckState
      <3> QED BY <2>7, <3>1, <3>2 DEF CheckState
    <2>8. CASE SetDoc(s)
      BY <2>8 DEF SetDoc
    <2>9. CASE SetDocSet(s)
      BY <2>9 DEF SetDocSet
    <2>10. CASE SetDocFormat(s)
      BY <2>10 DEF SetDocFormat
    <2>11. CASE NotLastDocument(s)
      BY <2>11 DEF NotLastDocument
    <2>12. CASE StartProcessing(s)
      BY <2>12 DEF StartProcessing
    <2>13. CASE CancelSnapshot(s)
      <3>1. CASE Reply(s, "snapshot")
        BY <2>13, <3>1 DEF CancelSnapshot
      <3>2. CASE HandlerGoto(s, "snapshot", "setCancel")
        BY <2>13, <3>2 DEF CancelSnapshot
      <3> QED BY <2>13, <3>1, <3>2 DEF CancelSnapshot
    <2>14. CASE SetCancel(s)
      BY <2>14 DEF SetCancel
    <2>15. CASE CancelLoadStarted(s)
      <3>1. CASE Reply(s, "loadStarted")
        BY <2>15, <3>1 DEF CancelLoadStarted
      <3>2. CASE HandlerGoto(s, "loadStarted", "setCanceled")
        BY <2>15, <3>2 DEF CancelLoadStarted
      <3> QED BY <2>15, <3>1, <3>2 DEF CancelLoadStarted
    <2>16. CASE CancelSetState(s)
      BY <2>16 DEF CancelSetState
    <2> QED BY <1>2, <2>1, <2>2, <2>3, <2>4, <2>5, <2>6, <2>7, <2>8, <2>9, <2>10,
               <2>11, <2>12, <2>13, <2>14, <2>15, <2>16 DEF HandlerStep
  <1>3. ASSUME NEW s \in Slots, WorkerStep(s) PROVE LockInv'
    <2>1. CASE WorkerLock(s)
      BY <2>1 DEF WorkerLock
    <2>2. CASE WorkerCheck(s)
      <3>1. CASE WorkerGoto(s, "check1", "canceled")
        BY <2>2, <3>1 DEF WorkerCheck
      <3>2. CASE WorkerGoto(s, "check2", "canceled")
        BY <2>2, <3>2 DEF WorkerCheck
      <3>3. CASE WorkerGoto(s, "check3", "canceled")
        BY <2>2, <3>3 DEF WorkerCheck
      <3>4. CASE WorkerGoto(s, "check1", "process")
        BY <2>2, <3>4 DEF WorkerCheck
      <3>5. CASE WorkerGoto(s, "check2", "print")
        BY <2>2, <3>5 DEF WorkerCheck
      <3>6. CASE WorkerGoto(s, "check3", "completed")
        BY <2>2, <3>6 DEF WorkerCheck
      <3> QED BY <2>2, <3>1, <3>2, <3>3, <3>4, <3>5, <3>6 DEF WorkerCheck
    <2>3. CASE WorkerProcess(s)
      BY <2>3 DEF WorkerProcess
    <2>4. CASE WorkerConvert(s)
      <3>1. CASE WorkerGoto(s, "convert", "check2")
        BY <2>4, <3>1 DEF WorkerConvert
      <3>2. CASE WorkerGoto(s, "convert", "aborted")
        BY <2>4, <3>2 DEF WorkerConvert
      <3> QED BY <2>4, <3>1, <3>2 DEF WorkerConvert
    <2>5. CASE WorkerPrint(s)
      <3>1. CASE WorkerGoto(s, "print", "aborted")
        BY <2>5, <3>1 DEF WorkerPrint
      <3>2. CASE WorkerGoto(s, "print", "check3")
        BY <2>5, <3>2 DEF WorkerPrint
      <3> QED BY <2>5, <3>1, <3>2 DEF WorkerPrint
    <2>6. CASE WorkerFinish(s)
      <3>1. PICK st \in Terminal : WorkerGoto(s, st, "unlock") /\ SetState(wJob[s], st)
        BY <2>6 DEF WorkerFinish
      <3> QED BY <2>6, <3>1 DEF WorkerFinish
    <2>7. CASE WorkerUnlock(s)
      BY <2>7 DEF WorkerUnlock
    <2> QED BY <1>3, <2>1, <2>2, <2>3, <2>4, <2>5, <2>6, <2>7 DEF WorkerStep
  <1>4. CASE UNCHANGED vars
    BY <1>4 DEF vars
  <1> QED BY <1>1, <1>2, <1>3, <1>4 DEF Next

\* Handlers and goroutines keep to stored jobs; a new job is untouched (job.go:454-483).
LEMMA IdInv_Step ==
  ASSUME TypeOK, IdInv, [Next]_vars
  PROVE  IdInv'
  <1> USE DEF IdInv
  <1>1. ASSUME NEW s \in Slots, ClientStep(s) PROVE IdInv'
    <2>1. CASE GetPrinterAttributes(s)
      BY <2>1 DEF GetPrinterAttributes
    <2>2. CASE CreateJob(s)
      BY <2>2 DEF CreateJob
    <2>3. CASE PrintJob(s)
      BY <2>3 DEF PrintJob
    <2>4. ASSUME NEW j \in JobIds, SendDocument(s, j) PROVE IdInv'
      BY <2>4 DEF SendDocument
    <2>5. ASSUME NEW j \in JobIds, CancelJob(s, j) PROVE IdInv'
      BY <2>5 DEF CancelJob
    <2> QED BY <1>1, <2>1, <2>2, <2>3, <2>4, <2>5 DEF ClientStep
  <1>2. ASSUME NEW s \in Slots, HandlerStep(s) PROVE IdInv'
    <2>1. CASE TryLockBusy(s)
      <3>1. CASE Reply(s, "try")
        BY <2>1, <3>1 DEF TryLockBusy
      <3>2. CASE HandlerGoto(s, "try", "add")
        BY <2>1, <3>2 DEF TryLockBusy
      <3> QED BY <2>1, <3>1, <3>2 DEF TryLockBusy
    <2>2. CASE TryLockFree(s)
      BY <2>2 DEF TryLockFree
    <2>3. CASE Query(s)
      <3>1. CASE Reply(s, "query")
        BY <2>3, <3>1 DEF Query
      <3>2. CASE HandlerGoto(s, "query", "add")
        BY <2>3, <3>2 DEF Query
      <3> QED BY <2>3, <3>1, <3>2 DEF Query
    <2>4. CASE AddCreated(s)
      BY <2>4 DEF AddCreated
    <2>5. CASE AddPrinted(s)
      BY <2>5 DEF AddPrinted
    <2>6. CASE CheckDocSet(s)
      <3>1. CASE Reply(s, "checkDoc")
        BY <2>6, <3>1 DEF CheckDocSet
      <3>2. CASE HandlerGoto(s, "checkDoc", "checkState")
        BY <2>6, <3>2 DEF CheckDocSet
      <3> QED BY <2>6, <3>1, <3>2 DEF CheckDocSet
    <2>7. CASE CheckState(s)
      <3>1. CASE Reply(s, "checkState")
        BY <2>7, <3>1 DEF CheckState
      <3>2. CASE HandlerGoto(s, "checkState", "doc")
        BY <2>7, <3>2 DEF CheckState
      <3> QED BY <2>7, <3>1, <3>2 DEF CheckState
    <2>8. CASE SetDoc(s)
      BY <2>8 DEF SetDoc
    <2>9. CASE SetDocSet(s)
      BY <2>9 DEF SetDocSet
    <2>10. CASE SetDocFormat(s)
      BY <2>10 DEF SetDocFormat
    <2>11. CASE NotLastDocument(s)
      BY <2>11 DEF NotLastDocument
    <2>12. CASE StartProcessing(s)
      BY <2>12 DEF StartProcessing
    <2>13. CASE CancelSnapshot(s)
      <3>1. CASE Reply(s, "snapshot")
        BY <2>13, <3>1 DEF CancelSnapshot
      <3>2. CASE HandlerGoto(s, "snapshot", "setCancel")
        BY <2>13, <3>2 DEF CancelSnapshot
      <3> QED BY <2>13, <3>1, <3>2 DEF CancelSnapshot
    <2>14. CASE SetCancel(s)
      BY <2>14 DEF SetCancel
    <2>15. CASE CancelLoadStarted(s)
      <3>1. CASE Reply(s, "loadStarted")
        BY <2>15, <3>1 DEF CancelLoadStarted
      <3>2. CASE HandlerGoto(s, "loadStarted", "setCanceled")
        BY <2>15, <3>2 DEF CancelLoadStarted
      <3> QED BY <2>15, <3>1, <3>2 DEF CancelLoadStarted
    <2>16. CASE CancelSetState(s)
      BY <2>16 DEF CancelSetState
    <2> QED BY <1>2, <2>1, <2>2, <2>3, <2>4, <2>5, <2>6, <2>7, <2>8, <2>9, <2>10,
               <2>11, <2>12, <2>13, <2>14, <2>15, <2>16 DEF HandlerStep
  <1>3. ASSUME NEW s \in Slots, WorkerStep(s) PROVE IdInv'
    <2>1. CASE WorkerLock(s)
      BY <2>1 DEF WorkerLock
    <2>2. CASE WorkerCheck(s)
      <3>1. CASE WorkerGoto(s, "check1", "canceled")
        BY <2>2, <3>1 DEF WorkerCheck
      <3>2. CASE WorkerGoto(s, "check2", "canceled")
        BY <2>2, <3>2 DEF WorkerCheck
      <3>3. CASE WorkerGoto(s, "check3", "canceled")
        BY <2>2, <3>3 DEF WorkerCheck
      <3>4. CASE WorkerGoto(s, "check1", "process")
        BY <2>2, <3>4 DEF WorkerCheck
      <3>5. CASE WorkerGoto(s, "check2", "print")
        BY <2>2, <3>5 DEF WorkerCheck
      <3>6. CASE WorkerGoto(s, "check3", "completed")
        BY <2>2, <3>6 DEF WorkerCheck
      <3> QED BY <2>2, <3>1, <3>2, <3>3, <3>4, <3>5, <3>6 DEF WorkerCheck
    <2>3. CASE WorkerProcess(s)
      BY <2>3 DEF WorkerProcess
    <2>4. CASE WorkerConvert(s)
      <3>1. CASE WorkerGoto(s, "convert", "check2")
        BY <2>4, <3>1 DEF WorkerConvert
      <3>2. CASE WorkerGoto(s, "convert", "aborted")
        BY <2>4, <3>2 DEF WorkerConvert
      <3> QED BY <2>4, <3>1, <3>2 DEF WorkerConvert
    <2>5. CASE WorkerPrint(s)
      <3>1. CASE WorkerGoto(s, "print", "aborted")
        BY <2>5, <3>1 DEF WorkerPrint
      <3>2. CASE WorkerGoto(s, "print", "check3")
        BY <2>5, <3>2 DEF WorkerPrint
      <3> QED BY <2>5, <3>1, <3>2 DEF WorkerPrint
    <2>6. CASE WorkerFinish(s)
      <3>1. PICK st \in Terminal : WorkerGoto(s, st, "unlock") /\ SetState(wJob[s], st)
        BY <2>6 DEF WorkerFinish
      <3> QED BY <2>6, <3>1 DEF WorkerFinish
    <2>7. CASE WorkerUnlock(s)
      BY <2>7 DEF WorkerUnlock
    <2> QED BY <1>3, <2>1, <2>2, <2>3, <2>4, <2>5, <2>6, <2>7 DEF WorkerStep
  <1>4. CASE UNCHANGED vars
    BY <1>4 DEF vars
  <1> QED BY <1>1, <1>2, <1>3, <1>4 DEF Next

\* No request starts to bring a document for a job while another one does.
LEMMA SenderInv_Step ==
  ASSUME SerialSenders, TypeOK, IdInv, SenderInv, [Next]_vars
  PROVE  SenderInv'
  <1> USE DEF SenderInv
  <1>1. ASSUME NEW s \in Slots, ClientStep(s) PROVE SenderInv'
    BY <1>1 DEF ClientStep, GetPrinterAttributes, CreateJob, PrintJob, SendDocument,
       CancelJob, IdInv
  <1>2. ASSUME NEW s \in Slots, HandlerStep(s) PROVE SenderInv'
    <2>1. CASE TryLockBusy(s)
      <3>1. CASE Reply(s, "try")
        BY <2>1, <3>1 DEF TryLockBusy, IdInv
      <3>2. CASE HandlerGoto(s, "try", "add")
        BY <2>1, <3>2 DEF TryLockBusy, IdInv
      <3> QED BY <2>1, <3>1, <3>2 DEF TryLockBusy
    <2>2. CASE TryLockFree(s)
      BY <2>2 DEF TryLockFree, IdInv
    <2>3. CASE Query(s)
      <3>1. CASE Reply(s, "query")
        BY <2>3, <3>1 DEF Query, IdInv
      <3>2. CASE HandlerGoto(s, "query", "add")
        BY <2>3, <3>2 DEF Query, IdInv
      <3> QED BY <2>3, <3>1, <3>2 DEF Query
    <2>4. CASE AddCreated(s)
      BY <2>4 DEF AddCreated, IdInv
    <2>5. CASE AddPrinted(s)
      <3>1. \A t \in Slots : hPc[t] \in SendPcs => hJob[t] # next + 1
        BY JobOfSlot
      <3> QED BY <2>5, <3>1 DEF AddPrinted
    <2>6. CASE CheckDocSet(s)
      <3>1. CASE Reply(s, "checkDoc")
        BY <2>6, <3>1 DEF CheckDocSet, IdInv
      <3>2. CASE HandlerGoto(s, "checkDoc", "checkState")
        BY <2>6, <3>2 DEF CheckDocSet, IdInv
      <3> QED BY <2>6, <3>1, <3>2 DEF CheckDocSet
    <2>7. CASE CheckState(s)
      <3>1. CASE Reply(s, "checkState")
        BY <2>7, <3>1 DEF CheckState, IdInv
      <3>2. CASE HandlerGoto(s, "checkState", "doc")
        BY <2>7, <3>2 DEF CheckState, IdInv
      <3> QED BY <2>7, <3>1, <3>2 DEF CheckState
    <2>8. CASE SetDoc(s)
      BY <2>8 DEF SetDoc, IdInv
    <2>9. CASE SetDocSet(s)
      BY <2>9 DEF SetDocSet, IdInv
    <2>10. CASE SetDocFormat(s)
      BY <2>10 DEF SetDocFormat, IdInv
    <2>11. CASE NotLastDocument(s)
      BY <2>11 DEF NotLastDocument, IdInv
    <2>12. CASE StartProcessing(s)
      BY <2>12 DEF StartProcessing, IdInv
    <2>13. CASE CancelSnapshot(s)
      <3>1. CASE Reply(s, "snapshot")
        BY <2>13, <3>1 DEF CancelSnapshot, IdInv
      <3>2. CASE HandlerGoto(s, "snapshot", "setCancel")
        BY <2>13, <3>2 DEF CancelSnapshot, IdInv
      <3> QED BY <2>13, <3>1, <3>2 DEF CancelSnapshot
    <2>14. CASE SetCancel(s)
      BY <2>14 DEF SetCancel, IdInv
    <2>15. CASE CancelLoadStarted(s)
      <3>1. CASE Reply(s, "loadStarted")
        BY <2>15, <3>1 DEF CancelLoadStarted, IdInv
      <3>2. CASE HandlerGoto(s, "loadStarted", "setCanceled")
        BY <2>15, <3>2 DEF CancelLoadStarted, IdInv
      <3> QED BY <2>15, <3>1, <3>2 DEF CancelLoadStarted
    <2>16. CASE CancelSetState(s)
      BY <2>16 DEF CancelSetState, IdInv
    <2> QED BY <1>2, <2>1, <2>2, <2>3, <2>4, <2>5, <2>6, <2>7, <2>8, <2>9, <2>10,
               <2>11, <2>12, <2>13, <2>14, <2>15, <2>16 DEF HandlerStep
  <1>3. ASSUME NEW s \in Slots, WorkerStep(s) PROVE SenderInv'
    BY <1>3 DEF WorkerStep, WorkerLock, WorkerCheck, WorkerProcess, WorkerConvert,
       WorkerPrint,
           WorkerFinish, WorkerUnlock, IdInv
  <1>4. CASE UNCHANGED vars
    BY <1>4 DEF vars, IdInv
  <1> QED BY <1>1, <1>2, <1>3, <1>4 DEF Next

\* The document of a job is set once, before it is started (server.go:321-398).
LEMMA DocumentInv_Step ==
  ASSUME TypeOK, LockInv, IdInv, SenderInv, DocumentInv, [Next]_vars
  PROVE  DocumentInv'
  <1> USE DEF DocumentInv
  <1>1. ASSUME NEW s \in Slots, ClientStep(s) PROVE DocumentInv'
    <2>1. CASE GetPrinterAttributes(s)
      BY <2>1 DEF GetPrinterAttributes, LockInv, IdInv, SenderInv
    <2>2. CASE CreateJob(s)
      BY <2>2 DEF CreateJob, LockInv, IdInv, SenderInv
    <2>3. CASE PrintJob(s)
      BY <2>3 DEF PrintJob, LockInv, IdInv, SenderInv
    <2>4. ASSUME NEW j \in JobIds, SendDocument(s, j) PROVE DocumentInv'
      BY <2>4 DEF SendDocument, LockInv, IdInv, SenderInv
    <2>5. ASSUME NEW j \in JobIds, CancelJob(s, j) PROVE DocumentInv'
      BY <2>5 DEF CancelJob, LockInv, IdInv, SenderInv
    <2> QED BY <1>1, <2>1, <2>2, <2>3, <2>4, <2>5 DEF ClientStep
  <1>2. ASSUME NEW s \in Slots, HandlerStep(s) PROVE DocumentInv'
    <2>1. CASE TryLockBusy(s)
      <3>1. CASE Reply(s, "try")
        BY <2>1, <3>1 DEF TryLockBusy, LockInv, IdInv, SenderInv
      <3>2. CASE HandlerGoto(s, "try", "add")
        BY <2>1, <3>2 DEF TryLockBusy, LockInv, IdInv, SenderInv
      <3> QED BY <2>1, <3>1, <3>2 DEF TryLockBusy
    <2>2. CASE TryLockFree(s)
      BY <2>2 DEF TryLockFree, LockInv, IdInv, SenderInv
    <2>3. CASE Query(s)
      <3>1. CASE Reply(s, "query")
        BY <2>3, <3>1 DEF Query, LockInv, IdInv, SenderInv
      <3>2. CASE HandlerGoto(s, "query", "add")
        BY <2>3, <3>2 DEF Query, LockInv, IdInv, SenderInv
      <3> QED BY <2>3, <3>1, <3>2 DEF Query
    <2>4. CASE AddCreated(s)
      BY <2>4 DEF AddCreated, LockInv, IdInv, SenderInv
    <2>5. CASE AddPrinted(s)
      BY <2>5 DEF AddPrinted, LockInv, IdInv, SenderInv
    <2>6. CASE CheckDocSet(s)
      <3>1. CASE Reply(s, "checkDoc")
        BY <2>6, <3>1 DEF CheckDocSet, LockInv, IdInv, SenderInv
      <3>2. CASE HandlerGoto(s, "checkDoc", "checkState")
        BY <2>6, <3>2 DEF CheckDocSet, LockInv, IdInv, SenderInv
      <3> QED BY <2>6, <3>1, <3>2 DEF CheckDocSet
    <2>7. CASE CheckState(s)
      <3>1. CASE Reply(s, "checkState")
        BY <2>7, <3>1 DEF CheckState, LockInv, IdInv, SenderInv
      <3>2. CASE HandlerGoto(s, "checkState", "doc")
        BY <2>7, <3>2 DEF CheckState, LockInv, IdInv, SenderInv
      <3> QED BY <2>7, <3>1, <3>2 DEF CheckState
    <2>8. CASE SetDoc(s)
      <3>1. \A t \in Slots : t # s /\ hPc[t] \in SendPcs => hJob[t] # hJob[s]
        BY <2>8 DEF SetDoc, SenderInv
      <3>2. hJob[s] \in JobIds
        BY <2>8, JobOfSlot DEF SetDoc
      <3>3. \A t \in Slots \ {s} : hPc'[t] = hPc[t] /\ hJob'[t] = hJob[t]
        BY <2>8 DEF SetDoc
      <3>4. hPc'[s] = "docSet" /\ hJob'[s] = hJob[s]
        BY <2>8 DEF SetDoc
      <3> QED BY <2>8, <3>1, <3>2, <3>3, <3>4 DEF SetDoc
    <2>9. CASE SetDocSet(s)
      <3>1. \A t \in Slots : t # s /\ hPc[t] \in SendPcs => hJob[t] # hJob[s]
        BY <2>9 DEF SetDocSet, SenderInv
      <3>2. hJob[s] \in JobIds
        BY <2>9, JobOfSlot DEF SetDocSet
      <3>3. \A t \in Slots \ {s} : hPc'[t] = hPc[t] /\ hJob'[t] = hJob[t]
        BY <2>9 DEF SetDocSet
      <3>4. hPc'[s] = "docFormat" /\ hJob'[s] = hJob[s]
        BY <2>9 DEF SetDocSet
      <3> QED BY <2>9, <3>1, <3>2, <3>3, <3>4 DEF SetDocSet
    <2>10. CASE SetDocFormat(s)
      <3>1. \A t \in Slots : t # s /\ hPc[t] \in SendPcs => hJob[t] # hJob[s]
        BY <2>10 DEF SetDocFormat, SenderInv
      <3>2. hJob[s] \in JobIds
        BY <2>10, JobOfSlot DEF SetDocFormat
      <3>3. \A t \in Slots \ {s} : hPc'[t] = hPc[t] /\ hJob'[t] = hJob[t]
        BY <2>10 DEF SetDocFormat
      <3>4. hPc'[s] = "start" /\ hJob'[s] = hJob[s]
        BY <2>10 DEF SetDocFormat
      <3> QED BY <2>10, <3>1, <3>2, <3>3, <3>4 DEF SetDocFormat
    <2>11. CASE NotLastDocument(s)
      BY <2>11 DEF NotLastDocument, LockInv, IdInv, SenderInv
    <2>12. CASE StartProcessing(s)
      BY <2>12 DEF StartProcessing, LockInv, IdInv, SenderInv
    <2>13. CASE CancelSnapshot(s)
      <3>1. CASE Reply(s, "snapshot")
        BY <2>13, <3>1 DEF CancelSnapshot, LockInv, IdInv, SenderInv
      <3>2. CASE HandlerGoto(s, "snapshot", "setCancel")
        BY <2>13, <3>2 DEF CancelSnapshot, LockInv, IdInv, SenderInv
      <3> QED BY <2>13, <3>1, <3>2 DEF CancelSnapshot
    <2>14. CASE SetCancel(s)
      BY <2>14 DEF SetCancel, LockInv, IdInv, SenderInv
    <2>15. CASE CancelLoadStarted(s)
      <3>1. CASE Reply(s, "loadStarted")
        BY <2>15, <3>1 DEF CancelLoadStarted, LockInv, IdInv, SenderInv
      <3>2. CASE HandlerGoto(s, "loadStarted", "setCanceled")
        BY <2>15, <3>2 DEF CancelLoadStarted, LockInv, IdInv, SenderInv
      <3> QED BY <2>15, <3>1, <3>2 DEF CancelLoadStarted
    <2>16. CASE CancelSetState(s)
      BY <2>16 DEF CancelSetState, LockInv, IdInv, SenderInv
    <2> QED BY <1>2, <2>1, <2>2, <2>3, <2>4, <2>5, <2>6, <2>7, <2>8, <2>9, <2>10,
               <2>11, <2>12, <2>13, <2>14, <2>15, <2>16 DEF HandlerStep
  <1>3. ASSUME NEW s \in Slots, WorkerStep(s) PROVE DocumentInv'
    BY <1>3 DEF WorkerStep, WorkerLock, WorkerCheck, WorkerProcess, WorkerConvert,
       WorkerPrint,
           WorkerFinish, WorkerUnlock, LockInv, IdInv, SenderInv
  <1>4. CASE UNCHANGED vars
    BY <1>4 DEF vars, LockInv, IdInv, SenderInv
  <1> QED BY <1>1, <1>2, <1>3, <1>4 DEF Next

\* A job is started once, with a complete document (server.go:352-354, 391).
LEMMA WorkerInv_Step ==
  ASSUME TypeOK, LockInv, IdInv, SenderInv, DocumentInv, WorkerInv, [Next]_vars
  PROVE  WorkerInv'
  <1> USE DEF WorkerInv
  <1>1. ASSUME NEW s \in Slots, ClientStep(s) PROVE WorkerInv'
    BY <1>1 DEF ClientStep, GetPrinterAttributes, CreateJob, PrintJob, SendDocument,
       CancelJob, LockInv, IdInv, SenderInv, DocumentInv
  <1>2. ASSUME NEW s \in Slots, HandlerStep(s) PROVE WorkerInv'
    <2>1. CASE TryLockBusy(s)
      <3>1. CASE Reply(s, "try")
        BY <2>1, <3>1 DEF TryLockBusy, LockInv, IdInv, SenderInv, DocumentInv
      <3>2. CASE HandlerGoto(s, "try", "add")
        BY <2>1, <3>2 DEF TryLockBusy, LockInv, IdInv, SenderInv, DocumentInv
      <3> QED BY <2>1, <3>1, <3>2 DEF TryLockBusy
    <2>2. CASE TryLockFree(s)
      BY <2>2 DEF TryLockFree, LockInv, IdInv, SenderInv, DocumentInv
    <2>3. CASE Query(s)
      <3>1. CASE Reply(s, "query")
        BY <2>3, <3>1 DEF Query, LockInv, IdInv, SenderInv, DocumentInv
      <3>2. CASE HandlerGoto(s, "query", "add")
        BY <2>3, <3>2 DEF Query, LockInv, IdInv, SenderInv, DocumentInv
      <3> QED BY <2>3, <3>1, <3>2 DEF Query
    <2>4. CASE AddCreated(s)
      BY <2>4 DEF AddCreated, LockInv, IdInv, SenderInv, DocumentInv
    <2>5. CASE AddPrinted(s)
      BY <2>5 DEF AddPrinted, LockInv, IdInv, SenderInv, DocumentInv
    <2>6. CASE CheckDocSet(s)
      <3>1. CASE Reply(s, "checkDoc")
        BY <2>6, <3>1 DEF CheckDocSet, LockInv, IdInv, SenderInv, DocumentInv
      <3>2. CASE HandlerGoto(s, "checkDoc", "checkState")
        BY <2>6, <3>2 DEF CheckDocSet, LockInv, IdInv, SenderInv, DocumentInv
      <3> QED BY <2>6, <3>1, <3>2 DEF CheckDocSet
    <2>7. CASE CheckState(s)
      <3>1. CASE Reply(s, "checkState")
        BY <2>7, <3>1 DEF CheckState, LockInv, IdInv, SenderInv, DocumentInv
      <3>2. CASE HandlerGoto(s, "checkState", "doc")
        BY <2>7, <3>2 DEF CheckState, LockInv, IdInv, SenderInv, DocumentInv
      <3> QED BY <2>7, <3>1, <3>2 DEF CheckState
    <2>8. CASE SetDoc(s)
      BY <2>8 DEF SetDoc, LockInv, IdInv, SenderInv, DocumentInv
    <2>9. CASE SetDocSet(s)
      BY <2>9 DEF SetDocSet, LockInv, IdInv, SenderInv, DocumentInv
    <2>10. CASE SetDocFormat(s)
      BY <2>10 DEF SetDocFormat, LockInv, IdInv, SenderInv, DocumentInv
    <2>11. CASE NotLastDocument(s)
      BY <2>11 DEF NotLastDocument, LockInv, IdInv, SenderInv, DocumentInv
    <2>12. CASE StartProcessing(s)
      BY <2>12 DEF StartProcessing, LockInv, IdInv, SenderInv, DocumentInv
    <2>13. CASE CancelSnapshot(s)
      <3>1. CASE Reply(s, "snapshot")
        BY <2>13, <3>1 DEF CancelSnapshot, LockInv, IdInv, SenderInv, DocumentInv
      <3>2. CASE HandlerGoto(s, "snapshot", "setCancel")
        BY <2>13, <3>2 DEF CancelSnapshot, LockInv, IdInv, SenderInv, DocumentInv
      <3> QED BY <2>13, <3>1, <3>2 DEF CancelSnapshot
    <2>14. CASE SetCancel(s)
      BY <2>14 DEF SetCancel, LockInv, IdInv, SenderInv, DocumentInv
    <2>15. CASE CancelLoadStarted(s)
      <3>1. CASE Reply(s, "loadStarted")
        BY <2>15, <3>1 DEF CancelLoadStarted, LockInv, IdInv, SenderInv, DocumentInv
      <3>2. CASE HandlerGoto(s, "loadStarted", "setCanceled")
        BY <2>15, <3>2 DEF CancelLoadStarted, LockInv, IdInv, SenderInv, DocumentInv
      <3> QED BY <2>15, <3>1, <3>2 DEF CancelLoadStarted
    <2>16. CASE CancelSetState(s)
      BY <2>16 DEF CancelSetState, LockInv, IdInv, SenderInv, DocumentInv
    <2> QED BY <1>2, <2>1, <2>2, <2>3, <2>4, <2>5, <2>6, <2>7, <2>8, <2>9, <2>10,
               <2>11, <2>12, <2>13, <2>14, <2>15, <2>16 DEF HandlerStep
  <1>3. ASSUME NEW s \in Slots, WorkerStep(s) PROVE WorkerInv'
    <2>1. CASE WorkerLock(s)
      BY <2>1 DEF WorkerLock, LockInv, IdInv, SenderInv, DocumentInv
    <2>2. CASE WorkerCheck(s)
      <3>1. CASE WorkerGoto(s, "check1", "canceled")
        BY <2>2, <3>1 DEF WorkerCheck, LockInv, IdInv, SenderInv, DocumentInv
      <3>2. CASE WorkerGoto(s, "check2", "canceled")
        BY <2>2, <3>2 DEF WorkerCheck, LockInv, IdInv, SenderInv, DocumentInv
      <3>3. CASE WorkerGoto(s, "check3", "canceled")
        BY <2>2, <3>3 DEF WorkerCheck, LockInv, IdInv, SenderInv, DocumentInv
      <3>4. CASE WorkerGoto(s, "check1", "process")
        BY <2>2, <3>4 DEF WorkerCheck, LockInv, IdInv, SenderInv, DocumentInv
      <3>5. CASE WorkerGoto(s, "check2", "print")
        BY <2>2, <3>5 DEF WorkerCheck, LockInv, IdInv, SenderInv, DocumentInv
      <3>6. CASE WorkerGoto(s, "check3", "completed")
        BY <2>2, <3>6 DEF WorkerCheck, LockInv, IdInv, SenderInv, DocumentInv
      <3> QED BY <2>2, <3>1, <3>2, <3>3, <3>4, <3>5, <3>6 DEF WorkerCheck
    <2>3. CASE WorkerProcess(s)
      BY <2>3 DEF WorkerProcess, LockInv, IdInv, SenderInv, DocumentInv
    <2>4. CASE WorkerConvert(s)
      <3>1. CASE WorkerGoto(s, "convert", "check2")
        BY <2>4, <3>1 DEF WorkerConvert, LockInv, IdInv, SenderInv, DocumentInv
      <3>2. CASE WorkerGoto(s, "convert", "aborted")
        BY <2>4, <3>2 DEF WorkerConvert, LockInv, IdInv, SenderInv, DocumentInv
      <3> QED BY <2>4, <3>1, <3>2 DEF WorkerConvert
    <2>5. CASE WorkerPrint(s)
      <3>1. CASE WorkerGoto(s, "print", "aborted")
        BY <2>5, <3>1 DEF WorkerPrint, LockInv, IdInv, SenderInv, DocumentInv
      <3>2. CASE WorkerGoto(s, "print", "check3")
        BY <2>5, <3>2 DEF WorkerPrint, LockInv, IdInv, SenderInv, DocumentInv
      <3> QED BY <2>5, <3>1, <3>2 DEF WorkerPrint
    <2>6. CASE WorkerFinish(s)
      <3>1. PICK st \in Terminal : WorkerGoto(s, st, "unlock") /\ SetState(wJob[s], st)
        BY <2>6 DEF WorkerFinish
      <3> QED BY <2>6, <3>1 DEF WorkerFinish, LockInv, IdInv, SenderInv, DocumentInv
    <2>7. CASE WorkerUnlock(s)
      BY <2>7 DEF WorkerUnlock, LockInv, IdInv, SenderInv, DocumentInv
    <2> QED BY <1>3, <2>1, <2>2, <2>3, <2>4, <2>5, <2>6, <2>7 DEF WorkerStep
  <1>4. CASE UNCHANGED vars
    BY <1>4 DEF vars, LockInv, IdInv, SenderInv, DocumentInv
  <1> QED BY <1>1, <1>2, <1>3, <1>4 DEF Next

\* A job's state follows its goroutine (server.go:402-460).
LEMMA StateInv_Step ==
  ASSUME TypeOK, LockInv, IdInv, SenderInv, DocumentInv, WorkerInv, StateInv,
         PrintInv, CancelInv, [Next]_vars
  PROVE  StateInv'
  <1> USE DEF StateInv
  <1>1. ASSUME NEW s \in Slots, ClientStep(s) PROVE StateInv'
    BY <1>1 DEF ClientStep, GetPrinterAttributes, CreateJob, PrintJob, SendDocument,
       CancelJob, LockInv, IdInv, SenderInv, DocumentInv, WorkerInv, PrintInv, CancelInv
  <1>2. ASSUME NEW s \in Slots, HandlerStep(s) PROVE StateInv'
    <2>1. CASE TryLockBusy(s)
      <3>1. CASE Reply(s, "try")
        BY <2>1, <3>1 DEF TryLockBusy, LockInv, IdInv, SenderInv, DocumentInv,
           WorkerInv, PrintInv, CancelInv
      <3>2. CASE HandlerGoto(s, "try", "add")
        BY <2>1, <3>2 DEF TryLockBusy, LockInv, IdInv, SenderInv, DocumentInv,
           WorkerInv, PrintInv, CancelInv
      <3> QED BY <2>1, <3>1, <3>2 DEF TryLockBusy
    <2>2. CASE TryLockFree(s)
      BY <2>2 DEF TryLockFree, LockInv, IdInv, SenderInv, DocumentInv, WorkerInv,
         PrintInv, CancelInv
    <2>3. CASE Query(s)
      <3>1. CASE Reply(s, "query")
        BY <2>3, <3>1 DEF Query, LockInv, IdInv, SenderInv, DocumentInv, WorkerInv,
           PrintInv, CancelInv
      <3>2. CASE HandlerGoto(s, "query", "add")
        BY <2>3, <3>2 DEF Query, LockInv, IdInv, SenderInv, DocumentInv, WorkerInv,
           PrintInv, CancelInv
      <3> QED BY <2>3, <3>1, <3>2 DEF Query
    <2>4. CASE AddCreated(s)
      BY <2>4 DEF AddCreated, LockInv, IdInv, SenderInv, DocumentInv, WorkerInv,
         PrintInv, CancelInv
    <2>5. CASE AddPrinted(s)
      BY <2>5 DEF AddPrinted, LockInv, IdInv, SenderInv, DocumentInv, WorkerInv,
         PrintInv, CancelInv
    <2>6. CASE CheckDocSet(s)
      <3>1. CASE Reply(s, "checkDoc")
        BY <2>6, <3>1 DEF CheckDocSet, LockInv, IdInv, SenderInv, DocumentInv,
           WorkerInv, PrintInv, CancelInv
      <3>2. CASE HandlerGoto(s, "checkDoc", "checkState")
        BY <2>6, <3>2 DEF CheckDocSet, LockInv, IdInv, SenderInv, DocumentInv,
           WorkerInv, PrintInv, CancelInv
      <3> QED BY <2>6, <3>1, <3>2 DEF CheckDocSet
    <2>7. CASE CheckState(s)
      <3>1. CASE Reply(s, "checkState")
        BY <2>7, <3>1 DEF CheckState, LockInv, IdInv, SenderInv, DocumentInv,
           WorkerInv, PrintInv, CancelInv
      <3>2. CASE HandlerGoto(s, "checkState", "doc")
        BY <2>7, <3>2 DEF CheckState, LockInv, IdInv, SenderInv, DocumentInv,
           WorkerInv, PrintInv, CancelInv
      <3> QED BY <2>7, <3>1, <3>2 DEF CheckState
    <2>8. CASE SetDoc(s)
      BY <2>8 DEF SetDoc, LockInv, IdInv, SenderInv, DocumentInv, WorkerInv, PrintInv,
         CancelInv
    <2>9. CASE SetDocSet(s)
      BY <2>9 DEF SetDocSet, LockInv, IdInv, SenderInv, DocumentInv, WorkerInv,
         PrintInv, CancelInv
    <2>10. CASE SetDocFormat(s)
      BY <2>10 DEF SetDocFormat, LockInv, IdInv, SenderInv, DocumentInv, WorkerInv,
         PrintInv, CancelInv
    <2>11. CASE NotLastDocument(s)
      BY <2>11 DEF NotLastDocument, LockInv, IdInv, SenderInv, DocumentInv, WorkerInv,
         PrintInv, CancelInv
    <2>12. CASE StartProcessing(s)
      <3>1. hJob[s] \in JobIds /\ ~started[hJob[s]]
        BY <2>12, JobOfSlot DEF StartProcessing, DocumentInv
      <3>2. wPc'[s] = "lock" /\ wJob'[s] = hJob[s]
        BY <2>12 DEF StartProcessing
      <3>3. \A t \in Slots \ {s} : wPc'[t] = wPc[t] /\ wJob'[t] = wJob[t]
        BY <2>12 DEF StartProcessing
      <3> QED BY <2>12, <3>1, <3>2, <3>3 DEF StartProcessing
    <2>13. CASE CancelSnapshot(s)
      <3>1. CASE Reply(s, "snapshot")
        BY <2>13, <3>1 DEF CancelSnapshot, LockInv, IdInv, SenderInv, DocumentInv,
           WorkerInv, PrintInv, CancelInv
      <3>2. CASE HandlerGoto(s, "snapshot", "setCancel")
        BY <2>13, <3>2 DEF CancelSnapshot, LockInv, IdInv, SenderInv, DocumentInv,
           WorkerInv, PrintInv, CancelInv
      <3> QED BY <2>13, <3>1, <3>2 DEF CancelSnapshot
    <2>14. CASE SetCancel(s)
      BY <2>14 DEF SetCancel, LockInv, IdInv, SenderInv, DocumentInv, WorkerInv,
         PrintInv, CancelInv
    <2>15. CASE CancelLoadStarted(s)
      <3>1. CASE Reply(s, "loadStarted")
        BY <2>15, <3>1 DEF CancelLoadStarted, LockInv, IdInv, SenderInv, DocumentInv,
           WorkerInv, PrintInv, CancelInv
      <3>2. CASE HandlerGoto(s, "loadStarted", "setCanceled")
        BY <2>15, <3>2 DEF CancelLoadStarted, LockInv, IdInv, SenderInv, DocumentInv,
           WorkerInv, PrintInv, CancelInv
      <3> QED BY <2>15, <3>1, <3>2 DEF CancelLoadStarted
    <2>16. CASE CancelSetState(s)
      BY <2>16 DEF CancelSetState, LockInv, IdInv, SenderInv, DocumentInv, WorkerInv,
         PrintInv, CancelInv
    <2> QED BY <1>2, <2>1, <2>2, <2>3, <2>4, <2>5, <2>6, <2>7, <2>8, <2>9, <2>10,
               <2>11, <2>12, <2>13, <2>14, <2>15, <2>16 DEF HandlerStep
  <1>3. ASSUME NEW s \in Slots, WorkerStep(s) PROVE StateInv'
    <2>1. CASE WorkerLock(s)
      BY <2>1 DEF WorkerLock, LockInv, IdInv, SenderInv, DocumentInv, WorkerInv,
         PrintInv, CancelInv
    <2>2. CASE WorkerCheck(s)
      <3>1. CASE WorkerGoto(s, "check1", "canceled")
        BY <2>2, <3>1 DEF WorkerCheck, LockInv, IdInv, SenderInv, DocumentInv,
           WorkerInv, PrintInv, CancelInv
      <3>2. CASE WorkerGoto(s, "check2", "canceled")
        BY <2>2, <3>2 DEF WorkerCheck, LockInv, IdInv, SenderInv, DocumentInv,
           WorkerInv, PrintInv, CancelInv
      <3>3. CASE WorkerGoto(s, "check3", "canceled")
        BY <2>2, <3>3 DEF WorkerCheck, LockInv, IdInv, SenderInv, DocumentInv,
           WorkerInv, PrintInv, CancelInv
      <3>4. CASE WorkerGoto(s, "check1", "process")
        BY <2>2, <3>4 DEF WorkerCheck, LockInv, IdInv, SenderInv, DocumentInv,
           WorkerInv, PrintInv, CancelInv
      <3>5. CASE WorkerGoto(s, "check2", "print")
        BY <2>2, <3>5 DEF WorkerCheck, LockInv, IdInv, SenderInv, DocumentInv,
           WorkerInv, PrintInv, CancelInv
      <3>6. CASE WorkerGoto(s, "check3", "completed")
        BY <2>2, <3>6 DEF WorkerCheck, LockInv, IdInv, SenderInv, DocumentInv,
           WorkerInv, PrintInv, CancelInv
      <3> QED BY <2>2, <3>1, <3>2, <3>3, <3>4, <3>5, <3>6 DEF WorkerCheck
    <2>3. CASE WorkerProcess(s)
      BY <2>3 DEF WorkerProcess, LockInv, IdInv, SenderInv, DocumentInv, WorkerInv,
         PrintInv, CancelInv
    <2>4. CASE WorkerConvert(s)
      <3>1. CASE WorkerGoto(s, "convert", "check2")
        BY <2>4, <3>1 DEF WorkerConvert, LockInv, IdInv, SenderInv, DocumentInv,
           WorkerInv, PrintInv, CancelInv
      <3>2. CASE WorkerGoto(s, "convert", "aborted")
        BY <2>4, <3>2 DEF WorkerConvert, LockInv, IdInv, SenderInv, DocumentInv,
           WorkerInv, PrintInv, CancelInv
      <3> QED BY <2>4, <3>1, <3>2 DEF WorkerConvert
    <2>5. CASE WorkerPrint(s)
      <3>1. CASE WorkerGoto(s, "print", "aborted")
        BY <2>5, <3>1 DEF WorkerPrint, LockInv, IdInv, SenderInv, DocumentInv,
           WorkerInv, PrintInv, CancelInv
      <3>2. CASE WorkerGoto(s, "print", "check3")
        BY <2>5, <3>2 DEF WorkerPrint, LockInv, IdInv, SenderInv, DocumentInv,
           WorkerInv, PrintInv, CancelInv
      <3> QED BY <2>5, <3>1, <3>2 DEF WorkerPrint
    <2>6. CASE WorkerFinish(s)
      <3>1. PICK st \in Terminal : WorkerGoto(s, st, "unlock") /\ SetState(wJob[s], st)
        BY <2>6 DEF WorkerFinish
      <3> QED BY <2>6, <3>1 DEF WorkerFinish, LockInv, IdInv, SenderInv, DocumentInv,
                 WorkerInv, PrintInv, CancelInv
    <2>7. CASE WorkerUnlock(s)
      BY <2>7 DEF WorkerUnlock, LockInv, IdInv, SenderInv, DocumentInv, WorkerInv,
         PrintInv, CancelInv
    <2> QED BY <1>3, <2>1, <2>2, <2>3, <2>4, <2>5, <2>6, <2>7 DEF WorkerStep
  <1>4. CASE UNCHANGED vars
    BY <1>4 DEF vars, LockInv, IdInv, SenderInv, DocumentInv, WorkerInv, PrintInv,
       CancelInv
  <1> QED BY <1>1, <1>2, <1>3, <1>4 DEF Next

\* PrintJobs is called once for a job, by its goroutine (server.go:433-436).
LEMMA PrintInv_Step ==
  ASSUME TypeOK, LockInv, IdInv, SenderInv, DocumentInv, WorkerInv, StateInv,
         PrintInv, CancelInv, [Next]_vars
  PROVE  PrintInv'
  <1> USE DEF PrintInv
  <1>1. ASSUME NEW s \in Slots, ClientStep(s) PROVE PrintInv'
    BY <1>1 DEF ClientStep, GetPrinterAttributes, CreateJob, PrintJob, SendDocument,
       CancelJob, LockInv, IdInv, SenderInv, DocumentInv, WorkerInv, StateInv, CancelInv
  <1>2. ASSUME NEW s \in Slots, HandlerStep(s) PROVE PrintInv'
    <2>1. CASE TryLockBusy(s)
      <3>1. CASE Reply(s, "try")
        BY <2>1, <3>1 DEF TryLockBusy, LockInv, IdInv, SenderInv, DocumentInv,
           WorkerInv, StateInv, CancelInv
      <3>2. CASE HandlerGoto(s, "try", "add")
        BY <2>1, <3>2 DEF TryLockBusy, LockInv, IdInv, SenderInv, DocumentInv,
           WorkerInv, StateInv, CancelInv
      <3> QED BY <2>1, <3>1, <3>2 DEF TryLockBusy
    <2>2. CASE TryLockFree(s)
      BY <2>2 DEF TryLockFree, LockInv, IdInv, SenderInv, DocumentInv, WorkerInv,
         StateInv, CancelInv
    <2>3. CASE Query(s)
      <3>1. CASE Reply(s, "query")
        BY <2>3, <3>1 DEF Query, LockInv, IdInv, SenderInv, DocumentInv, WorkerInv,
           StateInv, CancelInv
      <3>2. CASE HandlerGoto(s, "query", "add")
        BY <2>3, <3>2 DEF Query, LockInv, IdInv, SenderInv, DocumentInv, WorkerInv,
           StateInv, CancelInv
      <3> QED BY <2>3, <3>1, <3>2 DEF Query
    <2>4. CASE AddCreated(s)
      BY <2>4 DEF AddCreated, LockInv, IdInv, SenderInv, DocumentInv, WorkerInv,
         StateInv, CancelInv
    <2>5. CASE AddPrinted(s)
      BY <2>5 DEF AddPrinted, LockInv, IdInv, SenderInv, DocumentInv, WorkerInv,
         StateInv, CancelInv
    <2>6. CASE CheckDocSet(s)
      <3>1. CASE Reply(s, "checkDoc")
        BY <2>6, <3>1 DEF CheckDocSet, LockInv, IdInv, SenderInv, DocumentInv,
           WorkerInv, StateInv, CancelInv
      <3>2. CASE HandlerGoto(s, "checkDoc", "checkState")
        BY <2>6, <3>2 DEF CheckDocSet, LockInv, IdInv, SenderInv, DocumentInv,
           WorkerInv, StateInv, CancelInv
      <3> QED BY <2>6, <3>1, <3>2 DEF CheckDocSet
    <2>7. CASE CheckState(s)
      <3>1. CASE Reply(s, "checkState")
        BY <2>7, <3>1 DEF CheckState, LockInv, IdInv, SenderInv, DocumentInv,
           WorkerInv, StateInv, CancelInv
      <3>2. CASE HandlerGoto(s, "checkState", "doc")
        BY <2>7, <3>2 DEF CheckState, LockInv, IdInv, SenderInv, DocumentInv,
           WorkerInv, StateInv, CancelInv
      <3> QED BY <2>7, <3>1, <3>2 DEF CheckState
    <2>8. CASE SetDoc(s)
      BY <2>8 DEF SetDoc, LockInv, IdInv, SenderInv, DocumentInv, WorkerInv, StateInv,
         CancelInv
    <2>9. CASE SetDocSet(s)
      BY <2>9 DEF SetDocSet, LockInv, IdInv, SenderInv, DocumentInv, WorkerInv,
         StateInv, CancelInv
    <2>10. CASE SetDocFormat(s)
      BY <2>10 DEF SetDocFormat, LockInv, IdInv, SenderInv, DocumentInv, WorkerInv,
         StateInv, CancelInv
    <2>11. CASE NotLastDocument(s)
      BY <2>11 DEF NotLastDocument, LockInv, IdInv, SenderInv, DocumentInv, WorkerInv,
         StateInv, CancelInv
    <2>12. CASE StartProcessing(s)
      <3>1. hJob[s] \in JobIds /\ ~started[hJob[s]]
        BY <2>12, JobOfSlot DEF StartProcessing, DocumentInv
      <3>2. wPc'[s] = "lock" /\ wJob'[s] = hJob[s]
        BY <2>12 DEF StartProcessing
      <3>3. \A t \in Slots \ {s} : wPc'[t] = wPc[t] /\ wJob'[t] = wJob[t]
        BY <2>12 DEF StartProcessing
      <3> QED BY <2>12, <3>1, <3>2, <3>3 DEF StartProcessing
    <2>13. CASE CancelSnapshot(s)
      <3>1. CASE Reply(s, "snapshot")
        BY <2>13, <3>1 DEF CancelSnapshot, LockInv, IdInv, SenderInv, DocumentInv,
           WorkerInv, StateInv, CancelInv
      <3>2. CASE HandlerGoto(s, "snapshot", "setCancel")
        BY <2>13, <3>2 DEF CancelSnapshot, LockInv, IdInv, SenderInv, DocumentInv,
           WorkerInv, StateInv, CancelInv
      <3> QED BY <2>13, <3>1, <3>2 DEF CancelSnapshot
    <2>14. CASE SetCancel(s)
      BY <2>14 DEF SetCancel, LockInv, IdInv, SenderInv, DocumentInv, WorkerInv,
         StateInv, CancelInv
    <2>15. CASE CancelLoadStarted(s)
      <3>1. CASE Reply(s, "loadStarted")
        BY <2>15, <3>1 DEF CancelLoadStarted, LockInv, IdInv, SenderInv, DocumentInv,
           WorkerInv, StateInv, CancelInv
      <3>2. CASE HandlerGoto(s, "loadStarted", "setCanceled")
        BY <2>15, <3>2 DEF CancelLoadStarted, LockInv, IdInv, SenderInv, DocumentInv,
           WorkerInv, StateInv, CancelInv
      <3> QED BY <2>15, <3>1, <3>2 DEF CancelLoadStarted
    <2>16. CASE CancelSetState(s)
      BY <2>16 DEF CancelSetState, LockInv, IdInv, SenderInv, DocumentInv, WorkerInv,
         StateInv, CancelInv
    <2> QED BY <1>2, <2>1, <2>2, <2>3, <2>4, <2>5, <2>6, <2>7, <2>8, <2>9, <2>10,
               <2>11, <2>12, <2>13, <2>14, <2>15, <2>16 DEF HandlerStep
  <1>3. ASSUME NEW s \in Slots, WorkerStep(s) PROVE PrintInv'
    <2>1. CASE WorkerLock(s)
      BY <2>1 DEF WorkerLock, LockInv, IdInv, SenderInv, DocumentInv, WorkerInv,
         StateInv, CancelInv
    <2>2. CASE WorkerCheck(s)
      <3>1. CASE WorkerGoto(s, "check1", "canceled")
        BY <2>2, <3>1 DEF WorkerCheck, LockInv, IdInv, SenderInv, DocumentInv,
           WorkerInv, StateInv, CancelInv
      <3>2. CASE WorkerGoto(s, "check2", "canceled")
        BY <2>2, <3>2 DEF WorkerCheck, LockInv, IdInv, SenderInv, DocumentInv,
           WorkerInv, StateInv, CancelInv
      <3>3. CASE WorkerGoto(s, "check3", "canceled")
        BY <2>2, <3>3 DEF WorkerCheck, LockInv, IdInv, SenderInv, DocumentInv,
           WorkerInv, StateInv, CancelInv
      <3>4. CASE WorkerGoto(s, "check1", "process")
        BY <2>2, <3>4 DEF WorkerCheck, LockInv, IdInv, SenderInv, DocumentInv,
           WorkerInv, StateInv, CancelInv
      <3>5. CASE WorkerGoto(s, "check2", "print")
        BY <2>2, <3>5 DEF WorkerCheck, LockInv, IdInv, SenderInv, DocumentInv,
           WorkerInv, StateInv, CancelInv
      <3>6. CASE WorkerGoto(s, "check3", "completed")
        BY <2>2, <3>6 DEF WorkerCheck, LockInv, IdInv, SenderInv, DocumentInv,
           WorkerInv, StateInv, CancelInv
      <3> QED BY <2>2, <3>1, <3>2, <3>3, <3>4, <3>5, <3>6 DEF WorkerCheck
    <2>3. CASE WorkerProcess(s)
      BY <2>3 DEF WorkerProcess, LockInv, IdInv, SenderInv, DocumentInv, WorkerInv,
         StateInv, CancelInv
    <2>4. CASE WorkerConvert(s)
      <3>1. CASE WorkerGoto(s, "convert", "check2")
        BY <2>4, <3>1 DEF WorkerConvert, LockInv, IdInv, SenderInv, DocumentInv,
           WorkerInv, StateInv, CancelInv
      <3>2. CASE WorkerGoto(s, "convert", "aborted")
        BY <2>4, <3>2 DEF WorkerConvert, LockInv, IdInv, SenderInv, DocumentInv,
           WorkerInv, StateInv, CancelInv
      <3> QED BY <2>4, <3>1, <3>2 DEF WorkerConvert
    <2>5. CASE WorkerPrint(s)
      <3>1. CASE WorkerGoto(s, "print", "aborted")
        BY <2>5, <3>1 DEF WorkerPrint, LockInv, IdInv, SenderInv, DocumentInv,
           WorkerInv, StateInv, CancelInv
      <3>2. CASE WorkerGoto(s, "print", "check3")
        BY <2>5, <3>2 DEF WorkerPrint, LockInv, IdInv, SenderInv, DocumentInv,
           WorkerInv, StateInv, CancelInv
      <3> QED BY <2>5, <3>1, <3>2 DEF WorkerPrint
    <2>6. CASE WorkerFinish(s)
      <3>1. PICK st \in Terminal : WorkerGoto(s, st, "unlock") /\ SetState(wJob[s], st)
        BY <2>6 DEF WorkerFinish
      <3> QED BY <2>6, <3>1 DEF WorkerFinish, LockInv, IdInv, SenderInv, DocumentInv,
                 WorkerInv, StateInv, CancelInv
    <2>7. CASE WorkerUnlock(s)
      BY <2>7 DEF WorkerUnlock, LockInv, IdInv, SenderInv, DocumentInv, WorkerInv,
         StateInv, CancelInv
    <2> QED BY <1>3, <2>1, <2>2, <2>3, <2>4, <2>5, <2>6, <2>7 DEF WorkerStep
  <1>4. CASE UNCHANGED vars
    BY <1>4 DEF vars, LockInv, IdInv, SenderInv, DocumentInv, WorkerInv, StateInv,
       CancelInv
  <1> QED BY <1>1, <1>2, <1>3, <1>4 DEF Next

\* The last write of Cancel-Job finds the goroutine before its first check or on its
\* way to "canceled" (server.go:446-460).
LEMMA CancelInv_Step ==
  ASSUME TypeOK, LockInv, IdInv, SenderInv, DocumentInv, WorkerInv, StateInv,
         PrintInv, CancelInv, [Next]_vars
  PROVE  CancelInv'
  <1> USE DEF CancelInv
  <1>1. ASSUME NEW s \in Slots, ClientStep(s) PROVE CancelInv'
    <2>1. UNCHANGED <<state, cancel, wPc, wJob>>
      BY <1>1 DEF ClientStep, GetPrinterAttributes, CreateJob, PrintJob, SendDocument, CancelJob
    <2>2. \A t \in Slots : hPc'[t] \in {"loadStarted", "setCanceled"} =>
                            hPc[t] = hPc'[t] /\ hJob[t] = hJob'[t]
      BY <1>1 DEF ClientStep, GetPrinterAttributes, CreateJob, PrintJob, SendDocument, CancelJob
    <2> QED BY <2>1, <2>2
  <1>2. ASSUME NEW s \in Slots, HandlerStep(s) PROVE CancelInv'
    <2>1. CASE TryLockBusy(s)
      <3>1. CASE Reply(s, "try")
        BY <2>1, <3>1 DEF TryLockBusy, LockInv, IdInv, SenderInv, DocumentInv,
           WorkerInv, StateInv, PrintInv
      <3>2. CASE HandlerGoto(s, "try", "add")
        BY <2>1, <3>2 DEF TryLockBusy, LockInv, IdInv, SenderInv, DocumentInv,
           WorkerInv, StateInv, PrintInv
      <3> QED BY <2>1, <3>1, <3>2 DEF TryLockBusy
    <2>2. CASE TryLockFree(s)
      BY <2>2 DEF TryLockFree, LockInv, IdInv, SenderInv, DocumentInv, WorkerInv,
         StateInv, PrintInv
    <2>3. CASE Query(s)
      <3>1. CASE Reply(s, "query")
        BY <2>3, <3>1 DEF Query, LockInv, IdInv, SenderInv, DocumentInv, WorkerInv,
           StateInv, PrintInv
      <3>2. CASE HandlerGoto(s, "query", "add")
        BY <2>3, <3>2 DEF Query, LockInv, IdInv, SenderInv, DocumentInv, WorkerInv,
           StateInv, PrintInv
      <3> QED BY <2>3, <3>1, <3>2 DEF Query
    <2>4. CASE AddCreated(s)
      BY <2>4 DEF AddCreated, LockInv, IdInv, SenderInv, DocumentInv, WorkerInv,
         StateInv, PrintInv
    <2>5. CASE AddPrinted(s)
      BY <2>5 DEF AddPrinted, LockInv, IdInv, SenderInv, DocumentInv, WorkerInv,
         StateInv, PrintInv
    <2>6. CASE CheckDocSet(s)
      <3>1. CASE Reply(s, "checkDoc")
        BY <2>6, <3>1 DEF CheckDocSet, LockInv, IdInv, SenderInv, DocumentInv,
           WorkerInv, StateInv, PrintInv
      <3>2. CASE HandlerGoto(s, "checkDoc", "checkState")
        BY <2>6, <3>2 DEF CheckDocSet, LockInv, IdInv, SenderInv, DocumentInv,
           WorkerInv, StateInv, PrintInv
      <3> QED BY <2>6, <3>1, <3>2 DEF CheckDocSet
    <2>7. CASE CheckState(s)
      <3>1. CASE Reply(s, "checkState")
        BY <2>7, <3>1 DEF CheckState, LockInv, IdInv, SenderInv, DocumentInv,
           WorkerInv, StateInv, PrintInv
      <3>2. CASE HandlerGoto(s, "checkState", "doc")
        BY <2>7, <3>2 DEF CheckState, LockInv, IdInv, SenderInv, DocumentInv,
           WorkerInv, StateInv, PrintInv
      <3> QED BY <2>7, <3>1, <3>2 DEF CheckState
    <2>8. CASE SetDoc(s)
      BY <2>8 DEF SetDoc, LockInv, IdInv, SenderInv, DocumentInv, WorkerInv, StateInv,
         PrintInv
    <2>9. CASE SetDocSet(s)
      BY <2>9 DEF SetDocSet, LockInv, IdInv, SenderInv, DocumentInv, WorkerInv,
         StateInv, PrintInv
    <2>10. CASE SetDocFormat(s)
      BY <2>10 DEF SetDocFormat, LockInv, IdInv, SenderInv, DocumentInv, WorkerInv,
         StateInv, PrintInv
    <2>11. CASE NotLastDocument(s)
      BY <2>11 DEF NotLastDocument, LockInv, IdInv, SenderInv, DocumentInv, WorkerInv,
         StateInv, PrintInv
    <2>12. CASE StartProcessing(s)
      BY <2>12 DEF StartProcessing, LockInv, IdInv, SenderInv, DocumentInv, WorkerInv,
         StateInv, PrintInv
    <2>13. CASE CancelSnapshot(s)
      <3>1. CASE Reply(s, "snapshot")
        BY <2>13, <3>1 DEF CancelSnapshot, LockInv, IdInv, SenderInv, DocumentInv,
           WorkerInv, StateInv, PrintInv
      <3>2. CASE HandlerGoto(s, "snapshot", "setCancel")
        BY <2>13, <3>2 DEF CancelSnapshot, LockInv, IdInv, SenderInv, DocumentInv,
           WorkerInv, StateInv, PrintInv
      <3> QED BY <2>13, <3>1, <3>2 DEF CancelSnapshot
    <2>14. CASE SetCancel(s)
      BY <2>14 DEF SetCancel, LockInv, IdInv, SenderInv, DocumentInv, WorkerInv,
         StateInv, PrintInv
    <2>15. CASE CancelLoadStarted(s)
      <3>1. CASE Reply(s, "loadStarted")
        BY <2>15, <3>1 DEF CancelLoadStarted, LockInv, IdInv, SenderInv, DocumentInv,
           WorkerInv, StateInv, PrintInv
      <3>2. CASE HandlerGoto(s, "loadStarted", "setCanceled")
        BY <2>15, <3>2 DEF CancelLoadStarted, LockInv, IdInv, SenderInv, DocumentInv,
           WorkerInv, StateInv, PrintInv
      <3> QED BY <2>15, <3>1, <3>2 DEF CancelLoadStarted
    <2>16. CASE CancelSetState(s)
      BY <2>16 DEF CancelSetState, LockInv, IdInv, SenderInv, DocumentInv, WorkerInv,
         StateInv, PrintInv
    <2> QED BY <1>2, <2>1, <2>2, <2>3, <2>4, <2>5, <2>6, <2>7, <2>8, <2>9, <2>10,
               <2>11, <2>12, <2>13, <2>14, <2>15, <2>16 DEF HandlerStep
  <1>3. ASSUME NEW s \in Slots, WorkerStep(s) PROVE CancelInv'
    <2>1. CASE WorkerLock(s)
      BY <2>1 DEF WorkerLock, LockInv, IdInv, SenderInv, DocumentInv, WorkerInv,
         StateInv, PrintInv
    <2>2. CASE WorkerCheck(s)
      <3>1. CASE WorkerGoto(s, "check1", "canceled")
        BY <2>2, <3>1 DEF WorkerCheck, LockInv, IdInv, SenderInv, DocumentInv,
           WorkerInv, StateInv, PrintInv
      <3>2. CASE WorkerGoto(s, "check2", "canceled")
        BY <2>2, <3>2 DEF WorkerCheck, LockInv, IdInv, SenderInv, DocumentInv,
           WorkerInv, StateInv, PrintInv
      <3>3. CASE WorkerGoto(s, "check3", "canceled")
        BY <2>2, <3>3 DEF WorkerCheck, LockInv, IdInv, SenderInv, DocumentInv,
           WorkerInv, StateInv, PrintInv
      <3>4. CASE WorkerGoto(s, "check1", "process")
        BY <2>2, <3>4 DEF WorkerCheck, LockInv, IdInv, SenderInv, DocumentInv,
           WorkerInv, StateInv, PrintInv
      <3>5. CASE WorkerGoto(s, "check2", "print")
        BY <2>2, <3>5 DEF WorkerCheck, LockInv, IdInv, SenderInv, DocumentInv,
           WorkerInv, StateInv, PrintInv
      <3>6. CASE WorkerGoto(s, "check3", "completed")
        BY <2>2, <3>6 DEF WorkerCheck, LockInv, IdInv, SenderInv, DocumentInv,
           WorkerInv, StateInv, PrintInv
      <3> QED BY <2>2, <3>1, <3>2, <3>3, <3>4, <3>5, <3>6 DEF WorkerCheck
    <2>3. CASE WorkerProcess(s)
      <3>1. wJob[s] \in JobIds /\ Works(s)
        BY <2>3, JobOfSlot DEF WorkerProcess
      <3>2. \A t \in Slots : hPc[t] = "setCanceled" => hJob[t] # wJob[s]
        BY <2>3, <3>1 DEF WorkerProcess
      <3>3. \A t \in Slots : Works(t) /\ t # s => wJob[t] # wJob[s]
        BY <3>1 DEF WorkerInv
      <3>4. \A t \in Slots \ {s} : wPc'[t] = wPc[t]
        BY <2>3 DEF WorkerProcess
      <3>5. wPc[s] = "process" /\ wPc'[s] = "convert"
        BY <2>3 DEF WorkerProcess
      <3>6. \A j \in JobIds : state'[j] = IF j = wJob[s] THEN "processing" ELSE state[j]
        BY <2>3, <3>1 DEF WorkerProcess
      <3> QED BY <2>3, <3>1, <3>2, <3>3, <3>4, <3>5, <3>6 DEF WorkerProcess, IdInv
    <2>4. CASE WorkerConvert(s)
      <3>1. CASE WorkerGoto(s, "convert", "check2")
        BY <2>4, <3>1 DEF WorkerConvert, LockInv, IdInv, SenderInv, DocumentInv,
           WorkerInv, StateInv, PrintInv
      <3>2. CASE WorkerGoto(s, "convert", "aborted")
        BY <2>4, <3>2 DEF WorkerConvert, LockInv, IdInv, SenderInv, DocumentInv,
           WorkerInv, StateInv, PrintInv
      <3> QED BY <2>4, <3>1, <3>2 DEF WorkerConvert
    <2>5. CASE WorkerPrint(s)
      <3>1. CASE WorkerGoto(s, "print", "aborted")
        BY <2>5, <3>1 DEF WorkerPrint, LockInv, IdInv, SenderInv, DocumentInv,
           WorkerInv, StateInv, PrintInv
      <3>2. CASE WorkerGoto(s, "print", "check3")
        BY <2>5, <3>2 DEF WorkerPrint, LockInv, IdInv, SenderInv, DocumentInv,
           WorkerInv, StateInv, PrintInv
      <3> QED BY <2>5, <3>1, <3>2 DEF WorkerPrint
    <2>6. CASE WorkerFinish(s)
      <3>1. PICK st \in Terminal : WorkerGoto(s, st, "unlock") /\ SetState(wJob[s], st)
        BY <2>6 DEF WorkerFinish
      <3> QED BY <2>6, <3>1 DEF WorkerFinish, LockInv, IdInv, SenderInv, DocumentInv,
                 WorkerInv, StateInv, PrintInv
    <2>7. CASE WorkerUnlock(s)
      BY <2>7 DEF WorkerUnlock, LockInv, IdInv, SenderInv, DocumentInv, WorkerInv,
         StateInv, PrintInv
    <2> QED BY <1>3, <2>1, <2>2, <2>3, <2>4, <2>5, <2>6, <2>7 DEF WorkerStep
  <1>4. CASE UNCHANGED vars
    BY <1>4 DEF vars, LockInv, IdInv, SenderInv, DocumentInv, WorkerInv, StateInv,
       PrintInv
  <1> QED BY <1>1, <1>2, <1>3, <1>4 DEF Next

HIDE DEF TypeOK, StoreTypes, HandlerTypes, WorkerTypes, AddJob, HandlerGoto, Reply,
         SetState, Available, CanTryLock, HasDocument, EndsHere, MarkStarted,
         WorkerGoto, Canceled, CheckCanceled, ReleasePrintMu, Begin, vars,
         handlerVars, workerVars, docVars, flagVars, jobVars, JobIds, JobStates,
         Terminal, Operations, NoJobPcs, SendPcs, CancelPcs, HandlerPcs, AttachPcs,
         WorkerPcs, WorkerInside, UsesPrinter, Stored, IsSending, Works

-----------------------------------------------------------------------------
\* What holds before any request arrives.
LEMMA InitEstablishes == Init => IInv
  BY DEF Init, IInv, TypeOK, StoreTypes, HandlerTypes, WorkerTypes, LockInv, IdInv,
         SenderInv, DocumentInv, WorkerInv, StateInv, PrintInv, CancelInv, JobIds,
         JobStates, Terminal, Operations, NoJobPcs, SendPcs, AttachPcs, CancelPcs,
         HandlerPcs, WorkerPcs, WorkerInside, UsesPrinter, Stored, Works

\* Whatever clients send, the store, the handlers and the goroutines keep to
\* their types and to stored jobs, and printMu is held by whoever uses the printer.
LEMMA AnyClients == Spec => [](TypeOK /\ LockInv /\ IdInv)
  <1>1. Init => TypeOK /\ LockInv /\ IdInv
    BY InitEstablishes DEF IInv
  <1>2. TypeOK /\ LockInv /\ IdInv /\ [Next]_vars => (TypeOK /\ LockInv /\ IdInv)'
    BY StoreTypes_Step, HandlerTypes_Step, WorkerTypes_Step, LockInv_Step, IdInv_Step
       DEF TypeOK
  <1> QED BY <1>1, <1>2, PTL DEF Spec

\* The inductive invariant, for clients that send one document at a time: who
\* may be where with which job (server.go:321-460).
THEOREM SerialClients == ASSUME SerialSenders PROVE Spec => []IInv
  <1>1. Init => IInv
    BY InitEstablishes
  <1>2. IInv /\ [Next]_vars => IInv'
    BY StoreTypes_Step, HandlerTypes_Step, WorkerTypes_Step, LockInv_Step, IdInv_Step,
       SenderInv_Step, DocumentInv_Step, WorkerInv_Step, StateInv_Step, PrintInv_Step,
       CancelInv_Step
       DEF IInv, TypeOK
  <1> QED BY <1>1, <1>2, PTL DEF Spec

\* Type correctness of the job server (job.go:392-414, server.go:45-62).
THEOREM TypeCorrect == Spec => []TypeOK
  BY AnyClients, PTL

\* printMu keeps goroutines and status queries from using the printer together,
\* whatever clients do (server.go:225-237, 405-406).
THEOREM Exclusive == Spec => []PrinterExclusive
  <1>1. LockInv => PrinterExclusive
    BY DEF LockInv, PrinterExclusive
  <1> QED BY <1>1, AnyClients, PTL

\* A job's document is handed to the printer at most once when clients send one
\* document at a time; without that they can get it printed twice (server.go:326).
THEOREM PrintedOnce == ASSUME SerialSenders PROVE Spec => []PrintedAtMostOnce
  <1>1. IInv => PrintedAtMostOnce
    BY DEF IInv, PrintInv, PrintedAtMostOnce
  <1> QED BY <1>1, SerialClients, PTL

\* A goroutine never converts half of another request's document
\* (server.go:342-344, 423).
THEOREM OwnDocument == ASSUME SerialSenders PROVE Spec => []ConvertsOwnDocument
  <1>1. IInv => ConvertsOwnDocument
    BY DEF IInv, WorkerInv, Works, ConvertsOwnDocument
  <1> QED BY <1>1, SerialClients, PTL

-----------------------------------------------------------------------------
\* The steps that create a job, change a job's state or hand data to the printer.
Writes(s) ==
  \/ AddCreated(s) \/ AddPrinted(s) \/ CancelSetState(s)
  \/ WorkerProcess(s) \/ WorkerPrint(s) \/ WorkerFinish(s)

\* No other step of the server does any of this (server.go:298-460).
LEMMA OnlyWrites ==
  ASSUME [Next]_vars, \A s \in Slots : ~Writes(s)
  PROVE  UNCHANGED <<next, state, prints>>
  <1> USE DEF Writes, jobVars
  <1>1. ASSUME NEW s \in Slots, ClientStep(s) PROVE UNCHANGED <<next, state, prints>>
    BY <1>1 DEF ClientStep, GetPrinterAttributes, CreateJob, PrintJob, SendDocument,
           CancelJob, Begin
  <1>2. ASSUME NEW s \in Slots, HandlerStep(s) PROVE UNCHANGED <<next, state, prints>>
    BY <1>2 DEF HandlerStep, TryLockBusy, TryLockFree, Query, CheckDocSet, CheckState,
           SetDoc, SetDocSet, SetDocFormat, NotLastDocument, StartProcessing,
           CancelSnapshot, SetCancel, CancelLoadStarted
  <1>3. ASSUME NEW s \in Slots, WorkerStep(s) PROVE UNCHANGED <<next, state, prints>>
    BY <1>3 DEF WorkerStep, WorkerLock, WorkerCheck, WorkerConvert, WorkerUnlock
  <1>4. CASE UNCHANGED vars
    BY <1>4 DEF vars
  <1> QED BY <1>1, <1>2, <1>3, <1>4 DEF Next

\* What those steps find in the job they write (server.go:402-460).
LEMMA BeforeWrite ==
  ASSUME IInv, NEW s \in Slots
  PROVE  /\ CancelSetState(s) =>
              hJob[s] \in JobIds /\ hJob[s] <= next /\ state[hJob[s]] \in {"pending", "canceled"}
         /\ WorkerProcess(s) =>
              wJob[s] \in JobIds /\ wJob[s] <= next /\ state[wJob[s]] = "pending"
         /\ WorkerPrint(s) =>
              /\ wJob[s] \in JobIds /\ wJob[s] <= next
              /\ state[wJob[s]] = "processing" /\ prints[wJob[s]] = 0
         /\ WorkerFinish(s) =>
              /\ wJob[s] \in JobIds /\ wJob[s] <= next
              /\ wPc[s] \in Terminal
              /\ wPc[s] = "completed" => prints[wJob[s]] = 1
              /\ state' = [state EXCEPT ![wJob[s]] = wPc[s]]
              /\ state[wJob[s]] = "processing" \/ wPc[s] = "canceled"
              /\ state[wJob[s]] \in {"pending", "processing", "canceled"}
  <1>1. \A j \in Stored : j \in JobIds /\ j <= next
    BY DEF IInv, TypeOK, StoreTypes, Stored, JobIds
  <1>2. CancelSetState(s) => hJob[s] \in Stored /\ state[hJob[s]] \in {"pending", "canceled"}
    BY DEF CancelSetState, Reply, IInv, IdInv, CancelInv, NoJobPcs
  <1>3. WorkerProcess(s) => wJob[s] \in Stored /\ state[wJob[s]] = "pending"
    BY DEF WorkerProcess, WorkerGoto, IInv, IdInv, StateInv
  <1>4. WorkerPrint(s) => /\ wJob[s] \in Stored
                          /\ state[wJob[s]] = "processing" /\ prints[wJob[s]] = 0
    BY DEF WorkerPrint, WorkerGoto, IInv, IdInv, StateInv, PrintInv
  <1>5. ASSUME WorkerFinish(s)
        PROVE  /\ wJob[s] \in Stored
               /\ wPc[s] \in Terminal
               /\ wPc[s] = "completed" => prints[wJob[s]] = 1
               /\ state' = [state EXCEPT ![wJob[s]] = wPc[s]]
               /\ state[wJob[s]] = "processing" \/ wPc[s] = "canceled"
               /\ state[wJob[s]] \in {"pending", "processing", "canceled"}
    <2>1. PICK st \in Terminal : WorkerGoto(s, st, "unlock") /\ SetState(wJob[s], st)
      BY <1>5 DEF WorkerFinish
    <2>2. wPc[s] = st /\ state' = [state EXCEPT ![wJob[s]] = st]
      BY <2>1 DEF WorkerGoto, SetState
    <2> QED BY <2>1, <2>2 DEF Terminal, IInv, IdInv, StateInv, PrintInv
  <1> QED BY <1>1, <1>2, <1>3, <1>4, <1>5

\* A final state is never left: no write of a handler or goroutine overtakes
\* another (server.go:402-460, job.go:417-429).
THEOREM Final == ASSUME SerialSenders PROVE Spec => TerminalIsFinal
  <1> DEFINE Kept == \A j \in JobIds : state[j] \in Terminal => state'[j] = state[j]
  <1>1. ASSUME IInv, [Next]_vars PROVE Kept
    <2>1. state \in [JobIds -> JobStates]
      BY <1>1 DEF IInv, TypeOK, StoreTypes
    <2>2. ASSUME NEW s \in Slots, CancelSetState(s) PROVE Kept
      BY <1>1, <2>1, <2>2, BeforeWrite DEF CancelSetState, SetState, Terminal
    <2>3. ASSUME NEW s \in Slots, WorkerProcess(s) PROVE Kept
      BY <1>1, <2>1, <2>3, BeforeWrite DEF WorkerProcess, SetState, Terminal
    <2>4. ASSUME NEW s \in Slots, WorkerFinish(s) PROVE Kept
      BY <1>1, <2>1, <2>4, BeforeWrite DEF Terminal
    <2>5. ASSUME NEW s \in Slots, AddCreated(s) \/ AddPrinted(s) \/ WorkerPrint(s) PROVE Kept
      BY <2>5 DEF AddCreated, AddPrinted, AddJob, WorkerPrint, jobVars
    <2> QED BY <1>1, <2>2, <2>3, <2>4, <2>5, OnlyWrites DEF Writes
  <1>2. IInv /\ [Next]_vars => [Kept]_vars
    BY <1>1
  <1> QED BY <1>2, SerialClients, PTL DEF Spec, TerminalIsFinal

\* A job seen as canceled is not being printed and never will be
\* (server.go:408-436, 454-456).
THEOREM NoPrintAfterCanceled == ASSUME SerialSenders PROVE Spec => CanceledNeverPrints
  <1> DEFINE Kept == \A j \in JobIds : state[j] = "canceled" => prints'[j] = prints[j]
  <1>1. ASSUME IInv, [Next]_vars PROVE Kept
    <2>1. prints \in [JobIds -> Nat]
      BY <1>1 DEF IInv, TypeOK, StoreTypes
    <2>2. ASSUME NEW s \in Slots, WorkerPrint(s) PROVE Kept
      BY <1>1, <2>1, <2>2, BeforeWrite DEF WorkerPrint
    <2>3. ASSUME NEW s \in Slots, Writes(s), ~WorkerPrint(s) PROVE UNCHANGED prints
      BY <2>3 DEF Writes, AddCreated, AddPrinted, AddJob, CancelSetState, WorkerProcess,
             WorkerFinish
    <2> QED BY <1>1, <2>2, <2>3, OnlyWrites
  <1>2. IInv /\ [Next]_vars => [Kept]_vars
    BY <1>1
  <1> QED BY <1>2, SerialClients, PTL DEF Spec, CanceledNeverPrints

\* The server implements the abstract life cycle of a job, step by step
\* (server.go:298-460).
THEOREM Implements == ASSUME SerialSenders PROVE Spec => Abstract!Spec
  <1> DEFINE abs == [j \in JobIds |-> IF j <= next THEN state[j] ELSE "absent"]
  <1>1. Init => Abstract!Init
    BY DEF Init, Abstract!Init, JobIds
  <1>2. ASSUME IInv, [Next]_vars PROVE [Abstract!Next]_(Abstract!jobVars)
    <2>1. /\ next \in Nat
          /\ state \in [JobIds -> JobStates]
          /\ prints \in [JobIds -> Nat]
          /\ JobIds \subseteq Nat
      BY <1>2 DEF IInv, TypeOK, StoreTypes, JobIds
    <2>2. ASSUME NEW s \in Slots, AddCreated(s) \/ AddPrinted(s)
          PROVE  [Abstract!Next]_(Abstract!jobVars)
      <3>1. /\ next' = next + 1 /\ state' = state /\ prints' = prints
            /\ next + 1 \in JobIds
        BY <2>1, <2>2 DEF AddCreated, AddPrinted, AddJob, JobIds
      <3>2. state[next + 1] = "pending"
        BY <1>2, <2>1, <3>1 DEF IInv, IdInv
      <3>3. \A j \in JobIds : abs'[j] = IF j = next + 1 THEN "pending" ELSE abs[j]
        BY <2>1, <3>1, <3>2
      <3>4. abs' = [abs EXCEPT ![next + 1] = "pending"]
        BY <3>3
      <3>5. abs[next + 1] = "absent"
        BY <2>1, <3>1
      <3> QED BY <3>1, <3>4, <3>5 DEF Abstract!Next, Abstract!Submit
    <2>3. ASSUME NEW s \in Slots, CancelSetState(s)
          PROVE  [Abstract!Next]_(Abstract!jobVars)
      <3>1. /\ next' = next /\ prints' = prints
            /\ state' = [state EXCEPT ![hJob[s]] = "canceled"]
        BY <2>3 DEF CancelSetState, SetState
      <3>2. hJob[s] \in JobIds /\ hJob[s] <= next /\ state[hJob[s]] \in {"pending", "canceled"}
        BY <1>2, <2>3, BeforeWrite
      <3>3. abs' = [abs EXCEPT ![hJob[s]] = "canceled"]
        BY <2>1, <3>1, <3>2
      <3>4. CASE state[hJob[s]] = "pending"
        BY <3>1, <3>2, <3>3, <3>4 DEF Abstract!Next, Abstract!Cancel
      <3>5. CASE state[hJob[s]] = "canceled"
        BY <3>1, <3>2, <3>3, <3>5 DEF Abstract!jobVars
      <3> QED BY <3>2, <3>4, <3>5
    <2>4. ASSUME NEW s \in Slots, WorkerProcess(s) PROVE [Abstract!Next]_(Abstract!jobVars)
      <3>1. /\ next' = next /\ prints' = prints
            /\ state' = [state EXCEPT ![wJob[s]] = "processing"]
        BY <2>4 DEF WorkerProcess, SetState
      <3>2. wJob[s] \in JobIds /\ wJob[s] <= next /\ state[wJob[s]] = "pending"
        BY <1>2, <2>4, BeforeWrite
      <3>3. abs' = [abs EXCEPT ![wJob[s]] = "processing"]
        BY <2>1, <3>1, <3>2
      <3> QED BY <3>1, <3>2, <3>3 DEF Abstract!Next, Abstract!Process
    <2>5. ASSUME NEW s \in Slots, WorkerPrint(s)
          PROVE  [Abstract!Next]_(Abstract!jobVars)
      <3>1. /\ next' = next /\ state' = state
            /\ prints' = prints \/ prints' = [prints EXCEPT ![wJob[s]] = @ + 1]
        BY <2>5 DEF WorkerPrint, jobVars
      <3>2. /\ wJob[s] \in JobIds /\ wJob[s] <= next
            /\ state[wJob[s]] = "processing" /\ prints[wJob[s]] = 0
        BY <1>2, <2>5, BeforeWrite
      <3>3. abs' = abs
        BY <3>1
      <3>4. CASE prints' = prints
        BY <3>3, <3>4 DEF Abstract!jobVars
      <3>5. CASE prints' = [prints EXCEPT ![wJob[s]] = @ + 1]
        <4>1. prints' = [prints EXCEPT ![wJob[s]] = 1]
          BY <3>2, <3>5
        <4>2. abs[wJob[s]] = "processing"
          BY <3>2
        <4> QED BY <3>2, <3>3, <4>1, <4>2 DEF Abstract!Next, Abstract!PrintLabel
      <3> QED BY <3>1, <3>4, <3>5
    <2>6. ASSUME NEW s \in Slots, WorkerFinish(s)
          PROVE  [Abstract!Next]_(Abstract!jobVars)
      <3>1. /\ next' = next /\ prints' = prints
        BY <2>6 DEF WorkerFinish, SetState
      <3>2. /\ wJob[s] \in JobIds /\ wJob[s] <= next
            /\ wPc[s] \in Terminal
            /\ wPc[s] = "completed" => prints[wJob[s]] = 1
            /\ state' = [state EXCEPT ![wJob[s]] = wPc[s]]
            /\ state[wJob[s]] = "processing" \/ wPc[s] = "canceled"
            /\ state[wJob[s]] \in {"pending", "processing", "canceled"}
        BY <1>2, <2>6, BeforeWrite
      <3>3. abs' = [abs EXCEPT ![wJob[s]] = wPc[s]]
        BY <2>1, <3>1, <3>2
      <3>4. CASE state[wJob[s]] = "processing"
        BY <3>1, <3>2, <3>3, <3>4 DEF Abstract!Next, Abstract!Finish, Abstract!Terminal, Terminal
      <3>5. CASE state[wJob[s]] = "pending"
        BY <3>1, <3>2, <3>3, <3>5 DEF Abstract!Next, Abstract!Cancel
      <3>6. CASE state[wJob[s]] = "canceled"
        BY <3>1, <3>2, <3>3, <3>6 DEF Abstract!jobVars
      <3> QED BY <3>2, <3>4, <3>5, <3>6
    <2>7. ASSUME \A s \in Slots : ~Writes(s) PROVE UNCHANGED Abstract!jobVars
      BY <1>2, <2>7, OnlyWrites DEF Abstract!jobVars
    <2> QED BY <2>2, <2>3, <2>4, <2>5, <2>6, <2>7 DEF Writes
  <1>3. IInv /\ [Next]_vars => [Abstract!Next]_(Abstract!jobVars)
    BY <1>2
  <1> QED BY <1>1, <1>3, SerialClients, PTL DEF Spec, Abstract!Spec

\* Whatever clients do, a recorded cancellation keeps every goroutine that has
\* not passed its last check from printing (server.go:429-433).
THEOREM Honored == Spec => CancelIsHonored
  <1> DEFINE Held == \A j \in JobIds, s \in Slots :
               cancel[j] /\ PastLastCheck(s, j)' => PastLastCheck(s, j)
  <1>1. ASSUME TypeOK, [Next]_vars PROVE Held
    <2> USE DEF TypeOK, WorkerTypes, PastLastCheck
    <2>1. ASSUME NEW t \in Slots, WorkerStep(t), ~WorkerCheck(t) PROVE Held
      BY <1>1, <2>1 DEF WorkerStep, WorkerLock, WorkerProcess, WorkerConvert, WorkerPrint,
             WorkerFinish, WorkerUnlock, WorkerGoto, Terminal
    <2>2. ASSUME NEW t \in Slots, WorkerCheck(t) PROVE Held
      BY <1>1, <2>2 DEF WorkerCheck, CheckCanceled, Canceled, WorkerGoto
    <2>3. ASSUME NEW t \in Slots, StartProcessing(t) PROVE Held
      BY <1>1, <2>3 DEF StartProcessing
    <2>4. CASE UNCHANGED workerVars
      BY <2>4 DEF workerVars
    <2>5. ASSUME NEW t \in Slots, HandlerStep(t), ~StartProcessing(t)
          PROVE UNCHANGED workerVars
      BY <2>5, HandlerStartsOnly
    <2>6. ASSUME NEW t \in Slots, ClientStep(t) PROVE UNCHANGED workerVars
      BY <2>6 DEF ClientStep, GetPrinterAttributes, CreateJob, PrintJob, SendDocument,
             CancelJob, Begin
    <2> QED BY <1>1, <2>1, <2>2, <2>3, <2>4, <2>5, <2>6 DEF Next, vars
  <1>2. TypeOK /\ [Next]_vars => [Held]_vars
    BY <1>1
  <1> QED BY <1>2, TypeCorrect, PTL DEF Spec, CancelIsHonored

=============================================================================
