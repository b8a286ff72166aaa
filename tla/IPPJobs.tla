------------------------------- MODULE IPPJobs -------------------------------
(***************************************************************************)
(* The job side of the IPP server: pkg/ipp/server.go with the job store of *)
(* pkg/ipp/job.go.  HTTP handlers run concurrently; each document starts a *)
(* background goroutine, and printMu serializes the goroutines and the     *)
(* status queries.  A job's flags are atomics or plain fields read without *)
(* a lock, so every read and every write of one is a step of its own.      *)
(*                                                                         *)
(* A slot stands for one HTTP request and the goroutine it may start.  It  *)
(* serves another request once both have ended, so n slots stand for every *)
(* execution with at most n of them alive at a time.                       *)
(***************************************************************************)
EXTENDS Naturals, FiniteSets

CONSTANTS
  Slots,          \* requests (with their goroutine) that can be alive together
  NoSlot,         \* no slot: printMu is free, a document is not set
  MaxJobs,        \* bound: jobs created in one execution
  SerialSenders   \* TRUE: clients never have two documents under way for a job

ASSUME SlotsAssumption == NoSlot \notin Slots
ASSUME MaxJobsAssumption == MaxJobs \in Nat
ASSUME SerialSendersAssumption == SerialSenders \in BOOLEAN

VARIABLES
  next,                      \* JobStore.next: the last job id handed out
  state,                     \* fields of StoredJob, by job id; those of ids above
  doc, docSet, docFormat,    \* next are a new job's. doc and docFormat name the
  cancel, started,           \* slot whose request supplied Doc and DocFormat
  printMu,                   \* Server.printMu: the slot that holds it, or NoSlot
  hPc, hOp, hJob,            \* where the handler of a slot is, its operation and job
  wPc, wJob,                 \* where the goroutine of a slot is, and its job
  prints                     \* how often data of a job went to the printer

handlerVars == <<hPc, hOp, hJob>>
workerVars == <<wPc, wJob>>
docVars == <<doc, docSet, docFormat>>
flagVars == <<cancel, started>>
jobVars == <<next, state, docVars, flagVars>>
vars == <<jobVars, printMu, handlerVars, workerVars, prints>>

JobIds == 1..MaxJobs

Terminal == {"completed", "aborted", "canceled"}
JobStates == {"pending", "processing"} \union Terminal

Operations == {"get", "create", "print", "send", "cancel"}

\* A handler that has no job yet, then one that brings a document, then Cancel-Job.
NoJobPcs == {"idle", "try", "query", "add"}
AttachPcs == {"doc", "docSet", "docFormat", "start"}
SendPcs == {"checkDoc", "checkState"} \union AttachPcs
CancelPcs == {"snapshot", "setCancel", "loadStarted", "setCanceled"}
HandlerPcs == NoJobPcs \union SendPcs \union CancelPcs

\* A goroutine about to record a final state is at the name of that state.
WorkerInside ==
  {"check1", "process", "convert", "check2", "print", "check3", "unlock"}
    \union Terminal
WorkerPcs == {"idle", "lock"} \union WorkerInside

StoreTypes ==
  /\ next \in 0..MaxJobs
  /\ state \in [JobIds -> JobStates]
  /\ doc \in [JobIds -> Slots \union {NoSlot}]
  /\ docSet \in [JobIds -> BOOLEAN]
  /\ docFormat \in [JobIds -> Slots \union {NoSlot}]
  /\ cancel \in [JobIds -> BOOLEAN]
  /\ started \in [JobIds -> BOOLEAN]
  /\ printMu \in Slots \union {NoSlot}
  /\ prints \in [JobIds -> Nat]

HandlerTypes ==
  /\ hPc \in [Slots -> HandlerPcs]
  /\ hOp \in [Slots -> Operations]
  /\ hJob \in [Slots -> 0..MaxJobs]

WorkerTypes ==
  /\ wPc \in [Slots -> WorkerPcs]
  /\ wJob \in [Slots -> 0..MaxJobs]

TypeOK == StoreTypes /\ HandlerTypes /\ WorkerTypes

Init ==
  /\ next = 0
  /\ state = [j \in JobIds |-> "pending"]
  /\ doc = [j \in JobIds |-> NoSlot]
  /\ docSet = [j \in JobIds |-> FALSE]
  /\ docFormat = [j \in JobIds |-> NoSlot]
  /\ cancel = [j \in JobIds |-> FALSE]
  /\ started = [j \in JobIds |-> FALSE]
  /\ printMu = NoSlot
  /\ hPc = [s \in Slots |-> "idle"]
  /\ hOp = [s \in Slots |-> "get"]
  /\ hJob = [s \in Slots |-> 0]
  /\ wPc = [s \in Slots |-> "idle"]
  /\ wJob = [s \in Slots |-> 0]
  /\ prints = [j \in JobIds |-> 0]

-----------------------------------------------------------------------------
Stored == 1..next

HandlerGoto(s, from, to) ==
  /\ hPc[s] = from
  /\ hPc' = [hPc EXCEPT ![s] = to]
  /\ UNCHANGED <<hOp, hJob>>

Reply(s, from) ==
  /\ hPc[s] = from
  /\ hPc' = [hPc EXCEPT ![s] = "idle"]
  /\ hOp' = [hOp EXCEPT ![s] = "get"]
  /\ hJob' = [hJob EXCEPT ![s] = 0]

WorkerGoto(s, from, to) ==
  /\ wPc[s] = from
  /\ wPc' = [wPc EXCEPT ![s] = to]
  /\ UNCHANGED wJob

\* setState: no transition is refused, one out of a final state included.
SetState(j, st) ==
  /\ state' = [state EXCEPT ![j] = st]
  /\ UNCHANGED <<next, docVars, flagVars>>

(* An operator named X_Y is a deliberate mistake in X.                     *)

-----------------------------------------------------------------------------
(* Requests.  Read-only operations (Get-Jobs, Get-Job-Attributes,          *)
(* Validate-Job, Identify-Printer) and requests refused before they reach  *)
(* shared state change nothing here.                                       *)

Begin(s, op, pc, j) ==
  /\ hPc[s] = "idle"
  /\ wPc[s] = "idle"
  /\ hPc' = [hPc EXCEPT ![s] = pc]
  /\ hOp' = [hOp EXCEPT ![s] = op]
  /\ hJob' = [hJob EXCEPT ![s] = j]
  /\ UNCHANGED <<jobVars, printMu, workerVars, prints>>

\* Bound: no more creations under way than ids left.
RoomForJob ==
  next + Cardinality({s \in Slots : hOp[s] \in {"create", "print"} /\ hJob[s] = 0})
    < MaxJobs

GetPrinterAttributes(s) == Begin(s, "get", "try", 0)

CreateJob(s) == RoomForJob /\ Begin(s, "create", "try", 0)

PrintJob(s) == RoomForJob /\ Begin(s, "print", "try", 0)

IsSending(s, j) == hPc[s] \in SendPcs /\ hJob[s] = j

SendDocument(s, j) ==
  /\ j \in Stored
  /\ SerialSenders => \A t \in Slots : ~IsSending(t, j)
  /\ Begin(s, "send", "checkDoc", j)

CancelJob(s, j) == j \in Stored /\ Begin(s, "cancel", "snapshot", j)

-----------------------------------------------------------------------------
(* currentPrinterState: TryLock, then a status query under the lock.       *)

CanTryLock_AlwaysSucceeds == TRUE
CanTryLock == printMu = NoSlot

\* With a printer that takes jobs, Create-Job and Print-Job go on to store.Add.
Available(s, from) ==
  \/ hOp[s] = "get" /\ Reply(s, from)
  \/ hOp[s] # "get" /\ HandlerGoto(s, from, "add")

\* TryLock fails: the printer is reported as printing and accepting.
TryLockBusy(s) ==
  /\ ~CanTryLock
  /\ Available(s, "try")
  /\ UNCHANGED <<jobVars, printMu, workerVars, prints>>

TryLockFree(s) ==
  /\ CanTryLock
  /\ printMu' = s
  /\ HandlerGoto(s, "try", "query")
  /\ UNCHANGED <<jobVars, workerVars, prints>>

\* printer.Status answers or fails, and the deferred unlock follows.
Query(s) ==
  /\ printMu' = NoSlot
  /\ Available(s, "query") \/ Reply(s, "query")
  /\ UNCHANGED <<jobVars, workerVars, prints>>

\* JobStore.Add: the next id, for a job in the initial state of its fields.
AddJob ==
  /\ next < MaxJobs
  /\ next' = next + 1
  /\ UNCHANGED <<state, docVars, flagVars, printMu, workerVars, prints>>

AddCreated(s) == hOp[s] = "create" /\ Reply(s, "add") /\ AddJob

\* Print-Job goes on to attach its document.
AddPrinted(s) ==
  /\ hPc[s] = "add"
  /\ hOp[s] = "print"
  /\ AddJob
  /\ hPc' = [hPc EXCEPT ![s] = "doc"]
  /\ hJob' = [hJob EXCEPT ![s] = next + 1]
  /\ UNCHANGED hOp

-----------------------------------------------------------------------------
(* Send-Document: two checks, then the unsynchronized writes.              *)

HasDocument_Ignored(j) == FALSE
HasDocument(j) == docSet[j]

CheckDocSet(s) ==
  /\ \/ Reply(s, "checkDoc") /\ HasDocument(hJob[s])
     \/ HandlerGoto(s, "checkDoc", "checkState") /\ ~HasDocument(hJob[s])
  /\ UNCHANGED <<jobVars, printMu, workerVars, prints>>

\* Refused if the job was canceled or the format is not supported.
CheckState(s) ==
  /\ \/ Reply(s, "checkState")
     \/ HandlerGoto(s, "checkState", "doc") /\ state[hJob[s]] # "canceled"
  /\ UNCHANGED <<jobVars, printMu, workerVars, prints>>

SetDoc(s) ==
  /\ HandlerGoto(s, "doc", "docSet")
  /\ doc' = [doc EXCEPT ![hJob[s]] = s]
  /\ UNCHANGED <<next, state, docSet, docFormat, flagVars, printMu, workerVars, prints>>

SetDocSet_SkipsFormat(s) ==
  /\ HandlerGoto(s, "docSet", "start")
  /\ docSet' = [docSet EXCEPT ![hJob[s]] = TRUE]
  /\ UNCHANGED <<next, state, doc, docFormat, flagVars, printMu, workerVars, prints>>
SetDocSet(s) ==
  /\ HandlerGoto(s, "docSet", "docFormat")
  /\ docSet' = [docSet EXCEPT ![hJob[s]] = TRUE]
  /\ UNCHANGED <<next, state, doc, docFormat, flagVars, printMu, workerVars, prints>>

SetDocFormat(s) ==
  /\ HandlerGoto(s, "docFormat", "start")
  /\ docFormat' = [docFormat EXCEPT ![hJob[s]] = s]
  /\ UNCHANGED <<next, state, doc, docSet, flagVars, printMu, workerVars, prints>>

\* last-document = false: the document is kept and nothing is started.
NotLastDocument(s) ==
  /\ hOp[s] = "send"
  /\ Reply(s, "start")
  /\ UNCHANGED <<jobVars, printMu, workerVars, prints>>

\* startProcessing: the started flag, then the goroutine.
MarkStarted_Dropped(j) == started' = started
MarkStarted(j) == started' = [started EXCEPT ![j] = TRUE]

StartProcessing(s) ==
  /\ Reply(s, "start")
  /\ MarkStarted(hJob[s])
  /\ wPc' = [wPc EXCEPT ![s] = "lock"]
  /\ wJob' = [wJob EXCEPT ![s] = hJob[s]]
  /\ UNCHANGED <<next, state, docVars, cancel, printMu, prints>>

-----------------------------------------------------------------------------
(* Cancel-Job: Cancel's snapshot and flag, then started, then the state.   *)

CancelSnapshot_SkipsFlag(s) ==
  /\ \/ Reply(s, "snapshot") /\ state[hJob[s]] \in Terminal
     \/ HandlerGoto(s, "snapshot", "loadStarted") /\ state[hJob[s]] \notin Terminal
  /\ UNCHANGED <<jobVars, printMu, workerVars, prints>>
CancelSnapshot(s) ==
  /\ \/ Reply(s, "snapshot") /\ state[hJob[s]] \in Terminal
     \/ HandlerGoto(s, "snapshot", "setCancel") /\ state[hJob[s]] \notin Terminal
  /\ UNCHANGED <<jobVars, printMu, workerVars, prints>>

SetCancel(s) ==
  /\ HandlerGoto(s, "setCancel", "loadStarted")
  /\ cancel' = [cancel EXCEPT ![hJob[s]] = TRUE]
  /\ UNCHANGED <<next, state, docVars, started, printMu, workerVars, prints>>

\* A started goroutine ends the job itself; without one Cancel-Job has to.
EndsHere_Never(j) == FALSE
EndsHere_Always(j) == TRUE
EndsHere(j) == ~started[j]

CancelLoadStarted(s) ==
  /\ \/ Reply(s, "loadStarted") /\ ~EndsHere(hJob[s])
     \/ HandlerGoto(s, "loadStarted", "setCanceled") /\ EndsHere(hJob[s])
  /\ UNCHANGED <<jobVars, printMu, workerVars, prints>>

CancelSetState(s) ==
  /\ Reply(s, "setCanceled")
  /\ SetState(hJob[s], "canceled")
  /\ UNCHANGED <<printMu, workerVars, prints>>

-----------------------------------------------------------------------------
(* The goroutine of startProcessing, under printMu from Lock to Unlock.    *)

WorkerLock(s) ==
  /\ printMu = NoSlot
  /\ printMu' = s
  /\ WorkerGoto(s, "lock", "check1")
  /\ UNCHANGED <<jobVars, handlerVars, prints>>

Canceled_Ignored(j) == FALSE
Canceled(j) == cancel[j]

CheckCanceled(s, from, to) ==
  \/ WorkerGoto(s, from, "canceled") /\ Canceled(wJob[s])
  \/ WorkerGoto(s, from, to) /\ ~Canceled(wJob[s])

\* The three Canceled() tests: before processing, before and after printing.
WorkerCheck(s) ==
  /\ \/ CheckCanceled(s, "check1", "process")
     \/ CheckCanceled(s, "check2", "print")
     \/ CheckCanceled(s, "check3", "completed")
  /\ UNCHANGED <<jobVars, printMu, handlerVars, prints>>

WorkerProcess(s) ==
  /\ WorkerGoto(s, "process", "convert")
  /\ SetState(wJob[s], "processing")
  /\ UNCHANGED <<printMu, handlerVars, prints>>

\* A status query whose failure is ignored, then IPPJobToQL: it may fail.
WorkerConvert(s) ==
  /\ \/ WorkerGoto(s, "convert", "check2")
     \/ WorkerGoto(s, "convert", "aborted")
  /\ UNCHANGED <<jobVars, printMu, handlerVars, prints>>

\* PrintJobs: refused before any data, or failed after it, or confirmed.
WorkerPrint(s) ==
  /\ \/ WorkerGoto(s, "print", "aborted") /\ UNCHANGED prints
     \/ /\ WorkerGoto(s, "print", "aborted") \/ WorkerGoto(s, "print", "check3")
        /\ prints' = [prints EXCEPT ![wJob[s]] = @ + 1]
  /\ UNCHANGED <<jobVars, printMu, handlerVars>>

WorkerFinish(s) ==
  /\ \E st \in Terminal : WorkerGoto(s, st, "unlock") /\ SetState(wJob[s], st)
  /\ UNCHANGED <<printMu, handlerVars, prints>>

ReleasePrintMu_Forgotten == printMu' = printMu
ReleasePrintMu == printMu' = NoSlot

WorkerUnlock(s) ==
  /\ wPc[s] = "unlock"
  /\ ReleasePrintMu
  /\ wPc' = [wPc EXCEPT ![s] = "idle"]
  /\ wJob' = [wJob EXCEPT ![s] = 0]
  /\ UNCHANGED <<jobVars, handlerVars, prints>>

-----------------------------------------------------------------------------
HandlerStep(s) ==
  \/ TryLockBusy(s) \/ TryLockFree(s) \/ Query(s)
  \/ AddCreated(s) \/ AddPrinted(s)
  \/ CheckDocSet(s) \/ CheckState(s) \/ SetDoc(s) \/ SetDocSet(s) \/ SetDocFormat(s)
  \/ NotLastDocument(s) \/ StartProcessing(s)
  \/ CancelSnapshot(s) \/ SetCancel(s) \/ CancelLoadStarted(s) \/ CancelSetState(s)

WorkerStep(s) ==
  \/ WorkerLock(s) \/ WorkerCheck(s) \/ WorkerProcess(s) \/ WorkerConvert(s)
  \/ WorkerPrint(s) \/ WorkerFinish(s) \/ WorkerUnlock(s)

ClientStep(s) ==
  \/ GetPrinterAttributes(s) \/ CreateJob(s) \/ PrintJob(s)
  \/ \E j \in JobIds : SendDocument(s, j) \/ CancelJob(s, j)

Next == \E s \in Slots : ClientStep(s) \/ HandlerStep(s) \/ WorkerStep(s)

Spec == Init /\ [][Next]_vars

(* A goroutine that can run does; USB calls and the client's upload are    *)
(* bounded by timeouts.  Waiting for printMu gets strong fairness: a       *)
(* sync.Mutex goes to its longest waiter after 1 ms, so TryLock cannot     *)
(* starve a goroutine.  Clients need not send anything.                    *)
Fairness ==
  \A s \in Slots :
    /\ WF_vars(HandlerStep(s))
    /\ WF_vars(WorkerStep(s))
    /\ SF_vars(WorkerLock(s))

FairSpec == Spec /\ Fairness

-----------------------------------------------------------------------------
(* Properties.                                                             *)

UsesPrinter(s) == wPc[s] \in WorkerInside \/ hPc[s] = "query"

\* printMu lets one of the goroutines and status queries at a time use the
\* printer, on every path out of startProcessing (server.go:59-61).
PrinterExclusive ==
  \A s, t \in Slots : UsesPrinter(s) /\ UsesPrinter(t) => s = t

\* A job is handed to the printer at most once: "only one document per job
\* is supported" (server.go:326-328).
PrintedAtMostOnce == \A j \in JobIds : prints[j] <= 1

\* The document a goroutine converts is the whole document of the request
\* that started it, in that request's format (server.go:342-344, 423).
ConvertsOwnDocument ==
  \A s \in Slots : wPc[s] = "convert" =>
    doc[wJob[s]] = s /\ docFormat[wJob[s]] = s

\* A job that reached a final state keeps it, although setState refuses
\* nothing and Cancel-Job writes the state beside the goroutine.
TerminalIsFinal ==
  [][\A j \in JobIds : state[j] \in Terminal => state'[j] = state[j]]_vars

PastLastCheck(s, j) == wPc[s] = "print" /\ wJob[s] = j

\* From the moment a cancellation is recorded, no goroutine gets past the
\* check that precedes PrintJobs: only one already past it may still print.
CancelIsHonored ==
  [][\A j \in JobIds, s \in Slots :
       cancel[j] /\ PastLastCheck(s, j)' => PastLastCheck(s, j)]_vars

\* A job the client sees as canceled is not being printed and never will be.
CanceledNeverPrints ==
  [][\A j \in JobIds : state[j] = "canceled" => prints'[j] = prints[j]]_vars

\* A cancellation that was recorded ends the job, whether or not a document
\* ever comes (server.go:446-456).
CancelEndsJob ==
  \A j \in JobIds : cancel[j] ~> state[j] \in Terminal

\* A job whose processing was started reaches a final state.
StartedEndsJob ==
  \A j \in JobIds : started[j] ~> state[j] \in Terminal

-----------------------------------------------------------------------------
(* The inductive invariant behind the safety properties (IPPJobs_proofs).  *)

\* A slot's goroutine outlives its handler; the holder of printMu uses the printer.
LockInv ==
  \A s \in Slots :
    /\ wPc[s] # "idle" => hPc[s] = "idle"
    /\ UsesPrinter(s) <=> printMu = s

\* Handlers and goroutines work on stored jobs; later ids are untouched.
IdInv ==
  /\ \A s \in Slots :
       /\ hPc[s] \in NoJobPcs => hJob[s] = 0
       /\ hPc[s] \notin NoJobPcs => hJob[s] \in Stored
       /\ wPc[s] # "idle" => wJob[s] \in Stored
  /\ \A j \in JobIds : j > next =>
       prints[j] = 0 /\ state[j] = "pending" /\ ~docSet[j] /\ ~cancel[j] /\ ~started[j]

\* At most one request at a time brings a document for a job.
SenderInv ==
  \A s, t \in Slots :
    s # t /\ hPc[s] \in SendPcs /\ hPc[t] \in SendPcs => hJob[s] # hJob[t]

\* What the sender of a document has established so far.
DocumentInv ==
  /\ \A j \in JobIds : started[j] => docSet[j]
  /\ \A s \in Slots :
       /\ hPc[s] \in {"checkState", "doc", "docSet"} => ~docSet[hJob[s]]
       /\ hPc[s] \in AttachPcs => ~started[hJob[s]]
       /\ hPc[s] \in {"docSet", "docFormat", "start"} => doc[hJob[s]] = s
       /\ hPc[s] \in {"docFormat", "start"} => docSet[hJob[s]]
       /\ hPc[s] = "start" => docFormat[hJob[s]] = s

Works(s) == wPc[s] # "idle"

\* A job has at most one goroutine, started with the document it converts.
WorkerInv ==
  /\ \A s, t \in Slots : s # t /\ Works(s) /\ Works(t) => wJob[s] # wJob[t]
  /\ \A s \in Slots : Works(s) =>
       started[wJob[s]] /\ doc[wJob[s]] = s /\ docFormat[wJob[s]] = s

\* How far the goroutine is shows in its job's state.
StateInv ==
  /\ \A j \in JobIds : ~started[j] => state[j] \in {"pending", "canceled"}
  /\ \A s \in Slots :
       /\ wPc[s] \in {"lock", "check1"} => state[wJob[s]] \in {"pending", "canceled"}
       /\ wPc[s] = "process" => state[wJob[s]] = "pending"
       /\ wPc[s] \in {"convert", "check2", "print", "check3", "completed", "aborted"}
            => state[wJob[s]] = "processing"
       /\ wPc[s] = "canceled" => state[wJob[s]] \in {"pending", "processing", "canceled"}
       /\ wPc[s] = "unlock" => state[wJob[s]] \in Terminal

\* Before PrintJobs nothing has been printed, and it is called once.
PrintInv ==
  /\ \A j \in JobIds : prints[j] <= 1 /\ (~started[j] => prints[j] = 0)
  /\ \A s \in Slots :
       /\ wPc[s] \in {"lock", "check1", "process", "convert", "check2", "print"}
            => prints[wJob[s]] = 0
       /\ wPc[s] \in {"check3", "completed"} => prints[wJob[s]] = 1

\* A handler that found the job not started may still write "canceled"; until
\* it has, the goroutine cannot get past its first check.
CancelInv ==
  /\ \A j \in JobIds : state[j] = "canceled" => cancel[j]
  /\ \A s \in Slots :
       /\ wPc[s] = "canceled" => cancel[wJob[s]]
       /\ hPc[s] \in {"loadStarted", "setCanceled"} => cancel[hJob[s]]
       /\ hPc[s] = "setCanceled" =>
            /\ state[hJob[s]] \in {"pending", "canceled"}
            /\ \A t \in Slots : Works(t) /\ wJob[t] = hJob[s] =>
                 wPc[t] \in {"lock", "check1", "canceled", "unlock"}

\* With clients that send one document at a time, why a job is printed once
\* and a final state is final (server.go:321-460).
IInv ==
  /\ TypeOK /\ LockInv /\ IdInv /\ SenderInv
  /\ DocumentInv /\ WorkerInv /\ StateInv /\ PrintInv /\ CancelInv

-----------------------------------------------------------------------------
\* The job life cycle a client is promised: IPPJobs implements JobLifecycle.
Abstract ==
  INSTANCE JobLifecycle WITH
    Jobs <- JobIds,
    state <- [j \in JobIds |-> IF j <= next THEN state[j] ELSE "absent"]

Lifecycle == Abstract!FairSpec

=============================================================================
