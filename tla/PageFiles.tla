------------------------------ MODULE PageFiles ------------------------------
(***************************************************************************)
(* Page images on their way to the printer: the PDF engine of              *)
(* pkg/pdf/pdf.go (one instance for the whole process), and the three      *)
(* users of it: the warm-up goroutine and the upload handler of            *)
(* cmd/ql570/daemon.go, and IPPJobToQL of pkg/ipp/job.go with the print    *)
(* goroutine of pkg/ipp/server.go, which removes the files it printed.     *)
(*                                                                         *)
(* File names start with a random prefix of the call, so a call's page     *)
(* images are a function of the call.  X_Y is a deliberate mistake in X.   *)
(***************************************************************************)
EXTENDS Naturals

CONSTANTS
  WarmUps,    \* the daemon's warm-up of the engine
  Uploads,    \* POST /v1/upload
  Jobs,       \* print goroutines of IPP jobs
  NoCall,     \* nobody has the engine
  MaxPages    \* MaxPages: a PDF with more pages is refused

Calls == WarmUps \union Uploads \union Jobs

ASSUME CallsAssumption ==
  /\ NoCall \notin Calls
  /\ Uploads \intersect Jobs = {} /\ WarmUps \intersect (Uploads \union Jobs) = {}
ASSUME MaxPagesAssumption == MaxPages \in Nat \ {0}

Page == 1 .. MaxPages

VARIABLES
  startup,    \* initOnce and initErr
  engine,     \* the call that holds the only instance
  pc, doc,    \* where a call is, and the document it was given
  task,       \* what a call takes the instance for
  page,       \* the next page of the call's loop
  disk,       \* disk[c][p]: the image of page p in the temporary directory
  temp,       \* QLJobs.TempFiles, the pages Cleanup removes
  outcome     \* how a call ended

engineVars == <<startup, engine>>
vars == <<engineVars, pc, doc, task, page, disk, temp, outcome>>

\* A PDF may report no page at all or one too many.  "turn": the job asks for
\* an orientation, so every page is read, turned as it needs and written back.
Documents ==
  [format : {"pdf"}, pages : 0 .. MaxPages + 1, turn : BOOLEAN]
    \union [format : {"pwg"}, pages : Page, turn : BOOLEAN]
    \union [format : {"image", "other"}, pages : {1}, turn : {FALSE}]

NoDocument == [format |-> "other", pages |-> 1, turn |-> FALSE]

Tasks == {"init", "count", "render"}
Outcomes == {"none", "ok", "failed", "renderFailed", "canceled"}

TypeOK ==
  /\ startup \in {"new", "starting", "ready", "failed"}
  /\ engine \in Calls \union {NoCall}
  /\ pc \in [Calls -> Tasks \union {"idle", "once", "starting", "write", "turn", "store",
                                    "check", "printing", "done"}]
  /\ doc \in [Calls -> Documents]
  /\ task \in [Calls -> Tasks]
  /\ page \in [Calls -> 1 .. MaxPages + 1]
  /\ disk \in [Calls -> [Page -> {"none", "partial", "rendered", "turned"}]]
  /\ temp \in [Calls -> SUBSET Page]
  /\ outcome \in [Calls -> Outcomes]

Init ==
  /\ startup = "new" /\ engine = NoCall
  /\ pc = [c \in Calls |-> "idle"]
  /\ doc = [c \in Calls |-> NoDocument]
  /\ task = [c \in Calls |-> "init"]
  /\ page = [c \in Calls |-> 1]
  /\ disk = [c \in Calls |-> [p \in Page |-> "none"]]
  /\ temp = [c \in Calls |-> {}]
  /\ outcome = [c \in Calls |-> "none"]

-----------------------------------------------------------------------------
Goto(c, l) == pc' = [pc EXCEPT ![c] = l]
End(c, how) == Goto(c, "done") /\ outcome' = [outcome EXCEPT ![c] = how]

\* The deferred inst.Close: the instance goes back to the pool.
CloseInstance_Forgotten == UNCHANGED engine
CloseInstance == engine' = NoCall

\* QLJobs.Cleanup; os.Remove of a file that is not there is ignored.
Cleanup_Nothing(c) == temp' = [temp EXCEPT ![c] = {}] /\ UNCHANGED disk
Cleanup(c) ==
  /\ temp' = [temp EXCEPT ![c] = {}]
  /\ disk' = [disk EXCEPT ![c] =
       [p \in Page |-> IF p \in temp[c] THEN "none" ELSE disk[c][p]]]

\* Calling instance() for a task.
Want(c, t) == Goto(c, "once") /\ task' = [task EXCEPT ![c] = t]

-----------------------------------------------------------------------------
(* instance: sync.Once, then the pool of one with a time limit.            *)

StartEngine(c) ==
  /\ pc[c] = "once" /\ startup = "new"
  /\ startup' = "starting" /\ Goto(c, "starting")
  /\ UNCHANGED <<engine, doc, task, page, disk, temp, outcome>>

EngineStarted(c) ==
  /\ pc[c] = "starting"
  /\ startup' \in {"ready", "failed"} /\ Goto(c, "once")
  /\ UNCHANGED <<engine, doc, task, page, disk, temp, outcome>>

GetInstance(c) ==
  /\ pc[c] = "once" /\ startup = "ready" /\ engine = NoCall
  /\ engine' = c /\ Goto(c, task[c])
  /\ UNCHANGED <<startup, doc, task, page, disk, temp, outcome>>

\* Pool.GetInstance gives up after instanceTimeout.
TimesOut_Never(c) == FALSE
TimesOut(c) == startup = "ready" /\ engine # NoCall

NoInstance(c) ==
  /\ pc[c] = "once"
  /\ startup = "failed" \/ TimesOut(c)
  /\ End(c, "failed")
  /\ UNCHANGED <<engineVars, doc, task, page, disk, temp>>

-----------------------------------------------------------------------------
(* The work done with an instance.                                         *)

\* pdf.Init: the warmed instance is released at once.
Warmed(c) ==
  /\ pc[c] = "init"
  /\ CloseInstance
  /\ IF c \in WarmUps
     THEN End(c, "ok") /\ UNCHANGED task
     ELSE Want(c, "count") /\ UNCHANGED outcome
  /\ UNCHANGED <<startup, doc, page, disk, temp>>

\* Opening the document or reading its page count fails.
Unreadable(c) ==
  /\ pc[c] \in {"count", "render"}
  /\ page[c] = 1
  /\ CloseInstance /\ End(c, "failed")
  /\ UNCHANGED <<startup, doc, task, page, disk, temp>>

\* PageCount, and what both callers do with the number.
Acceptable_OneMore(n) == n # 0 /\ n <= MaxPages + 1
Acceptable(n) == n # 0 /\ n <= MaxPages

CountPages(c) ==
  /\ pc[c] = "count"
  /\ CloseInstance
  /\ IF Acceptable(doc[c].pages)
     THEN Want(c, "render") /\ UNCHANGED outcome
     ELSE End(c, "failed") /\ UNCHANGED task
  /\ UNCHANGED <<startup, doc, page, disk, temp>>

Store(c, how) == disk' = [disk EXCEPT ![c][page[c]] = how]
NextPage(c) == page' = [page EXCEPT ![c] = @ + 1]

RenderPage(c) ==
  /\ pc[c] = "render" /\ page[c] <= doc[c].pages
  /\ Store(c, "rendered") /\ NextPage(c)
  /\ UNCHANGED <<engineVars, pc, doc, task, temp, outcome>>

\* Rendering or os.Create fails, or the image was stored only in part.  The
\* paths stored so far are not returned.
RenderFails(c) ==
  /\ pc[c] = "render" /\ page[c] <= doc[c].pages
  /\ Store(c, "partial") \/ UNCHANGED disk
  /\ CloseInstance /\ End(c, "renderFailed")
  /\ UNCHANGED <<startup, doc, task, page, temp>>

\* The upload answers with the paths; the IPP job turns the pages.
Rendered(c) ==
  /\ pc[c] = "render" /\ page[c] > doc[c].pages
  /\ CloseInstance
  /\ IF c \in Uploads
     THEN End(c, "ok") /\ UNCHANGED <<temp, page>>
     ELSE /\ Goto(c, IF doc[c].turn THEN "turn" ELSE "check")
          /\ temp' = [temp EXCEPT ![c] = 1 .. doc[c].pages]
          /\ page' = [page EXCEPT ![c] = 1]
          /\ UNCHANGED outcome
  /\ UNCHANGED <<startup, doc, task, disk>>

-----------------------------------------------------------------------------
(* IPPJobToQL without the engine.                                          *)

\* Orientation is applied to PDF pages, each read, turned and written back.
TurnPage(c) ==
  /\ pc[c] = "turn"
  /\ Store(c, "turned") /\ NextPage(c)
  /\ Goto(c, IF page[c] = doc[c].pages THEN "check" ELSE "turn")
  /\ UNCHANGED <<engineVars, doc, task, temp, outcome>>

TurnFails(c) ==
  /\ pc[c] = "turn"
  /\ Cleanup(c) /\ End(c, "failed")
  /\ UNCHANGED <<engineVars, doc, task, page>>

\* writeTempPNG for each page of a PWG Raster document.
WritePage(c) ==
  /\ pc[c] = "write"
  /\ Store(c, "rendered") /\ NextPage(c)
  /\ temp' = [temp EXCEPT ![c] = @ \union {page[c]}]
  /\ Goto(c, IF page[c] = doc[c].pages THEN "check" ELSE "write")
  /\ UNCHANGED <<engineVars, doc, task, outcome>>

\* A file stored in part is not among the TempFiles that are removed.
WriteFails(c) ==
  /\ pc[c] = "write"
  /\ temp' = [temp EXCEPT ![c] = {}]
  /\ \E left \in {"none", "partial"} :
       disk' = [disk EXCEPT ![c] =
         [p \in Page |-> IF p = page[c] THEN left
                         ELSE IF p \in temp[c] THEN "none" ELSE disk[c][p]]]
  /\ End(c, "failed")
  /\ UNCHANGED <<engineVars, doc, task, page>>

-----------------------------------------------------------------------------
(* The callers.                                                            *)

\* An upload is a PDF or one image; an IPP document is a PDF or PWG Raster.
\* Anything else is an error.
Begin(c, d) ==
  /\ pc[c] = "idle"
  /\ c \in Jobs \/ ~ d.turn
  /\ doc' = [doc EXCEPT ![c] = d]
  /\ CASE c \in Jobs /\ d.format = "pdf" -> Want(c, "init") /\ UNCHANGED outcome
       [] c \in Jobs /\ d.format = "pwg" -> Goto(c, "write") /\ UNCHANGED <<task, outcome>>
       [] c \in Uploads /\ d.format = "pdf" -> Want(c, "count") /\ UNCHANGED outcome
       [] c \in Uploads /\ d.format = "image" -> Goto(c, "store") /\ UNCHANGED <<task, outcome>>
       [] OTHER -> End(c, "failed") /\ UNCHANGED task
  /\ UNCHANGED <<engineVars, page, disk, temp>>

\* The daemon warms the engine up when it starts to listen.
WarmUp(c) ==
  /\ pc[c] = "idle"
  /\ Want(c, "init")
  /\ UNCHANGED <<engineVars, doc, page, disk, temp, outcome>>

\* An uploaded image is copied to a file; the copy may stop half-way.
StoreUpload(c) ==
  /\ pc[c] = "store"
  /\ \/ Store(c, "rendered") /\ End(c, "ok")
     \/ (Store(c, "partial") \/ UNCHANGED disk) /\ End(c, "failed")
  /\ UNCHANGED <<engineVars, doc, task, page, temp>>

\* The print goroutine looks once more whether the job was canceled.
CanceledMeanwhile(c) ==
  /\ pc[c] = "check"
  /\ Cleanup(c) /\ End(c, "canceled")
  /\ UNCHANGED <<engineVars, doc, task, page>>

StartPrint_CleansFirst(c) ==
  /\ pc[c] = "check"
  /\ Cleanup(c) /\ Goto(c, "printing")
  /\ UNCHANGED <<engineVars, doc, task, page, outcome>>
StartPrint(c) ==
  /\ pc[c] = "check"
  /\ Goto(c, "printing")
  /\ UNCHANGED <<engineVars, doc, task, page, disk, temp, outcome>>

\* PrintJobs returned; the deferred Cleanup runs whatever it returned.
Printed(c) ==
  /\ pc[c] = "printing"
  /\ Cleanup(c)
  /\ \E how \in {"ok", "failed", "canceled"} : End(c, how)
  /\ UNCHANGED <<engineVars, doc, task, page>>

Waiting(c) == GetInstance(c) \/ NoInstance(c) \/ StartEngine(c) \/ EngineStarted(c)
WithInstance(c) ==
  Warmed(c) \/ Unreadable(c) \/ CountPages(c) \/ RenderPage(c) \/ RenderFails(c) \/ Rendered(c)
WithoutInstance(c) ==
  \/ TurnPage(c) \/ TurnFails(c) \/ WritePage(c) \/ WriteFails(c) \/ StoreUpload(c)
  \/ CanceledMeanwhile(c) \/ StartPrint(c) \/ Printed(c)

\* A process that has nothing to do any more waits for requests.
AllDone == (\A c \in Calls : pc[c] = "done") /\ UNCHANGED vars

Next ==
  \/ \E c \in WarmUps : WarmUp(c)
  \/ \E c \in Uploads \union Jobs, d \in Documents : Begin(c, d)
  \/ \E c \in Calls : Waiting(c) \/ WithInstance(c) \/ WithoutInstance(c)
  \/ AllDone

Spec == Init /\ [][Next]_vars

\* The engine compiles in a finite time and the pool keeps its time limit.
\* Nothing bounds a rendering: it may take for ever.
FairSpec == Spec /\ \A c \in Calls : WF_vars(Waiting(c))

-----------------------------------------------------------------------------
\* The instance is held only by a call that works with it: every return of
\* pdf.go gives it back (the deferred inst.Close).
EngineIsReturned ==
  /\ engine # NoCall => pc[engine] \in Tasks
  /\ \A c \in Calls : pc[c] \in Tasks => engine = c

PagesOf(c) == 1 .. doc[c].pages
Ready(c) ==
  \A p \in PagesOf(c) :
    p \in Page /\ disk[c][p] = IF c \in Jobs /\ doc[c].format = "pdf" /\ doc[c].turn
                               THEN "turned" ELSE "rendered"

\* A job that is printing, and a client that was given paths, has every page
\* of its document, completely stored and turned as the job asked.
PagesAreThere ==
  \A c \in Calls :
    \/ pc[c] = "printing"
    \/ c \in Uploads /\ outcome[c] = "ok"
    => doc[c].pages # 0 /\ Ready(c)

\* After an IPP job its pages are gone, unless RenderPNGFiles failed: the
\* pages it had stored are then known to nobody.  A PWG page that was stored
\* in part is left behind too.
OnlyFailuresLeaveFiles ==
  \A c \in Calls : c \in Jobs /\ pc[c] = "done" =>
    \A p \in Page :
      /\ disk[c][p] # "none" => outcome[c] \in {"failed", "renderFailed"}
      /\ disk[c][p] \in {"rendered", "turned"} =>
           outcome[c] = "renderFailed" /\ doc[c].format = "pdf"

\* Whoever asks for the engine gets it or an error, even when the rendering
\* that holds it never returns.
WaitersGoOn == \A c \in Calls : pc[c] = "once" ~> pc[c] # "once"
=============================================================================
