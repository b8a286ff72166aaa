--------------------------- MODULE PageFiles_proofs ---------------------------
(***************************************************************************)
(* For any number of uploads, jobs and pages: the PDF engine always comes  *)
(* back, and pages are there exactly as long as they are needed.           *)
(***************************************************************************)
EXTENDS PageFiles, TLAPS

Clean(c) == page[c] = 1 /\ temp[c] = {} /\ \A p \in Page : disk[c][p] = "none"

\* The pages of a document that is accepted.
PagesInv(c) == doc[c].pages # 0 /\ doc[c].pages <= MaxPages

\* What a call has done so far of its document is on the disk, and nothing else.
StartInv(c) ==
  /\ pc[c] # "done" => outcome[c] = "none"
  /\ c \in WarmUps => task[c] = "init" /\ pc[c] \in {"idle", "once", "starting", "init", "done"}
  /\ pc[c] \in {"idle", "once", "starting", "init", "count", "store"} => Clean(c)
  /\ c \notin WarmUps /\ pc[c] \in {"once", "starting", "init", "count", "render"} =>
       doc[c].format = "pdf"
  /\ pc[c] \in {"once", "starting"} /\ task[c] = "render" => PagesInv(c)
  /\ pc[c] = "store" => c \in Uploads /\ doc[c].format = "image" /\ doc[c].pages = 1

RenderInv(c) ==
  pc[c] = "render" =>
    /\ PagesInv(c) /\ temp[c] = {} /\ page[c] <= doc[c].pages + 1
    /\ \A p \in Page : disk[c][p] = IF p < page[c] THEN "rendered" ELSE "none"

TurnInv(c) ==
  pc[c] = "turn" =>
    /\ c \in Jobs /\ doc[c].format = "pdf" /\ doc[c].turn
    /\ PagesInv(c) /\ temp[c] = 1 .. doc[c].pages /\ page[c] <= doc[c].pages
    /\ \A p \in Page :
         disk[c][p] = IF p < page[c] THEN "turned"
                      ELSE IF p <= doc[c].pages THEN "rendered" ELSE "none"

WriteInv(c) ==
  pc[c] = "write" =>
    /\ c \in Jobs /\ doc[c].format = "pwg"
    /\ PagesInv(c) /\ temp[c] = 1 .. page[c] - 1 /\ page[c] <= doc[c].pages
    /\ \A p \in Page : disk[c][p] = IF p < page[c] THEN "rendered" ELSE "none"

PrintInv(c) ==
  pc[c] \in {"check", "printing"} =>
    /\ c \in Jobs /\ PagesInv(c) /\ temp[c] = 1 .. doc[c].pages /\ Ready(c)
    /\ \A p \in Page : p > doc[c].pages => disk[c][p] = "none"

DoneInv(c) ==
  pc[c] = "done" =>
    /\ c \in Uploads /\ outcome[c] = "ok" => doc[c].pages # 0 /\ Ready(c)
    /\ c \in Jobs => \A p \in Page :
         /\ disk[c][p] # "none" => outcome[c] \in {"failed", "renderFailed"}
         /\ disk[c][p] \in {"rendered", "turned"} =>
              outcome[c] = "renderFailed" /\ doc[c].format = "pdf"

CallInv(c) ==
  StartInv(c) /\ RenderInv(c) /\ TurnInv(c) /\ WriteInv(c) /\ PrintInv(c) /\ DoneInv(c)

IInv == TypeOK /\ EngineIsReturned /\ \A c \in Calls : CallInv(c)

\* What holds when the daemon starts.
LEMMA InitEstablishes == Init => IInv
  <1> SUFFICES ASSUME Init PROVE IInv
    OBVIOUS
  <1>1. TypeOK
    BY MaxPagesAssumption DEF Init, TypeOK, Calls, Page, Documents, NoDocument, Tasks,
       Outcomes
  <1>2. EngineIsReturned
    BY DEF Init, EngineIsReturned, Tasks
  <1>3. ASSUME NEW c \in Calls PROVE CallInv(c)
    BY DEF Init, CallInv, StartInv, RenderInv, TurnInv, WriteInv, PrintInv, DoneInv, Clean
  <1> QED BY <1>1, <1>2, <1>3 DEF IInv

\* The fields of a document.
LEMMA DocumentFields ==
  ASSUME NEW d \in Documents
  PROVE  /\ d.format \in {"pdf", "pwg", "image", "other"} /\ d.pages \in Nat
         /\ d.turn \in BOOLEAN
         /\ d.format # "pdf" => d.pages \in Page
  <1>1. CASE d \in [format : {"pdf"}, pages : 0 .. MaxPages + 1, turn : BOOLEAN]
    BY <1>1, MaxPagesAssumption
  <1>2. CASE d \in [format : {"pwg"}, pages : Page, turn : BOOLEAN]
    BY <1>2, MaxPagesAssumption DEF Page
  <1>3. CASE d \in [format : {"image", "other"}, pages : {1}, turn : {FALSE}]
    <2>1. d.format \in {"image", "other"} /\ d.pages = 1 /\ d.turn \in BOOLEAN
      BY <1>3
    <2>2. 1 \in Page
      BY MaxPagesAssumption DEF Page
    <2> QED BY <2>1, <2>2
  <1> QED BY <1>1, <1>2, <1>3 DEF Documents

\* A call touches what belongs to it only.
OnlyOf(c) ==
  \A d \in Calls \ {c} :
    /\ pc'[d] = pc[d] /\ doc'[d] = doc[d] /\ task'[d] = task[d] /\ page'[d] = page[d]
    /\ disk'[d] = disk[d] /\ temp'[d] = temp[d] /\ outcome'[d] = outcome[d]

\* A call's part of the invariant depends on nothing else.
LEMMA OthersKeep ==
  ASSUME NEW c \in Calls, OnlyOf(c), NEW d \in Calls \ {c}, CallInv(d)
  PROVE  CallInv(d)'
  <1>1. /\ pc'[d] = pc[d] /\ doc'[d] = doc[d] /\ task'[d] = task[d] /\ page'[d] = page[d]
        /\ disk'[d] = disk[d] /\ temp'[d] = temp[d] /\ outcome'[d] = outcome[d]
    BY DEF OnlyOf
  <1> QED BY <1>1 DEF CallInv, StartInv, RenderInv, TurnInv, WriteInv, PrintInv, DoneInv,
               Clean, PagesInv, Ready, PagesOf

CallStep(c) == Waiting(c) \/ WithInstance(c) \/ WithoutInstance(c)

\* Storing an image keeps the type of the disk.
LEMMA StoredType ==
  ASSUME NEW I, NEW d \in [Calls -> [Page -> I]], NEW c \in Calls, NEW p, NEW how \in I
  PROVE  [d EXCEPT ![c][p] = how] \in [Calls -> [Page -> I]]
  <1>1. [d[c] EXCEPT ![p] = how] \in [Page -> I]
    OBVIOUS
  <1> QED BY <1>1

\* Types are kept by every step of a call.
LEMMA TypeOK_Step ==
  ASSUME IInv, NEW c \in Calls, CallStep(c)
  PROVE  TypeOK'
  <1> USE MaxPagesAssumption DEF TypeOK, Page, engineVars
  <1>1. doc[c].pages \in Nat
    BY DocumentFields DEF IInv
  <1>2. CASE StartEngine(c)
    BY <1>2 DEF IInv, Tasks, Outcomes, StartEngine, Goto
  <1>3. CASE EngineStarted(c)
    BY <1>3 DEF IInv, Tasks, Outcomes, EngineStarted, Goto
  <1>4. CASE GetInstance(c)
    BY <1>4 DEF IInv, Tasks, Outcomes, GetInstance, Goto
  <1>5. CASE NoInstance(c)
    BY <1>5 DEF IInv, Tasks, Outcomes, NoInstance, End, Goto, TimesOut
  <1>6. CASE Warmed(c)
    <2>1. UNCHANGED <<startup, doc, page, disk, temp>> /\ engine' = NoCall
      BY <1>6 DEF Warmed, CloseInstance
    <2>2. CASE c \in WarmUps
      BY <1>6, <2>1, <2>2 DEF IInv, Warmed, End, Goto, Tasks, Outcomes
    <2>3. CASE c \notin WarmUps
      BY <1>6, <2>1, <2>3 DEF IInv, Warmed, Want, Goto, Tasks, Outcomes
    <2> QED BY <2>2, <2>3
  <1>7. CASE Unreadable(c)
    BY <1>7 DEF IInv, Tasks, Outcomes, Unreadable, CloseInstance, End, Goto
  <1>8. CASE CountPages(c)
    <2>1. UNCHANGED <<startup, doc, page, disk, temp>> /\ engine' = NoCall
      BY <1>8 DEF CountPages, CloseInstance
    <2>2. CASE Acceptable(doc[c].pages)
      BY <1>8, <2>1, <2>2 DEF IInv, CountPages, Want, Goto, Tasks, Outcomes
    <2>3. CASE ~ Acceptable(doc[c].pages)
      BY <1>8, <2>1, <2>3 DEF IInv, CountPages, End, Goto, Tasks, Outcomes
    <2> QED BY <2>2, <2>3
  <1>9. CASE RenderPage(c)
    BY <1>1, <1>9 DEF IInv, CallInv, RenderInv, PagesInv, RenderPage, Store, NextPage
  <1>10. CASE RenderFails(c)
    <2>1. UNCHANGED <<startup, doc, task, page, temp>> /\ engine' = NoCall
      BY <1>10 DEF RenderFails, CloseInstance
    <2>2. pc' = [pc EXCEPT ![c] = "done"] /\ outcome' = [outcome EXCEPT ![c] = "renderFailed"]
      BY <1>10 DEF RenderFails, End, Goto
    <2>3. disk' = [disk EXCEPT ![c][page[c]] = "partial"] \/ disk' = disk
      BY <1>10 DEF RenderFails, Store
    <2>4. disk' \in [Calls -> [Page -> {"none", "partial", "rendered", "turned"}]]
      <3>1. disk \in [Calls -> [Page -> {"none", "partial", "rendered", "turned"}]]
        BY DEF IInv
      <3> HIDE DEF Page, TypeOK
      <3> QED BY ONLY <2>3, <3>1, c \in Calls, StoredType
    <2> QED BY <2>1, <2>2, <2>4 DEF IInv, Tasks, Outcomes
  <1>11. CASE Rendered(c)
    <2>1. UNCHANGED <<startup, doc, task, disk>> /\ engine' = NoCall
      BY <1>11 DEF Rendered, CloseInstance
    <2>2. 1 .. doc[c].pages \in SUBSET Page
      BY <1>1, <1>11 DEF IInv, CallInv, RenderInv, PagesInv, Rendered
    <2>3. CASE c \in Uploads
      BY <1>11, <2>1, <2>3 DEF IInv, Rendered, End, Goto, Tasks, Outcomes
    <2>4. CASE c \notin Uploads
      <3>1. temp' \in [Calls -> SUBSET Page] /\ page' \in [Calls -> 1 .. MaxPages + 1]
        <4>1. /\ temp' = [temp EXCEPT ![c] = 1 .. doc[c].pages]
              /\ page' = [page EXCEPT ![c] = 1]
          BY <1>11, <2>4 DEF Rendered
        <4>2. temp \in [Calls -> SUBSET Page] /\ page \in [Calls -> 1 .. MaxPages + 1]
          BY DEF IInv
        <4> HIDE DEF TypeOK, Page
        <4> QED BY <2>2, <4>1, <4>2
      <3>2. /\ pc' = [pc EXCEPT ![c] = IF doc[c].turn THEN "turn" ELSE "check"]
            /\ UNCHANGED outcome
        BY <1>11, <2>4 DEF Rendered, Goto
      <3> QED BY <2>1, <3>1, <3>2 DEF IInv, Tasks, Outcomes
    <2> QED BY <2>3, <2>4
  <1>12. CASE TurnPage(c)
    BY <1>1, <1>12 DEF IInv, CallInv, TurnInv, PagesInv, Tasks, TurnPage, Store, NextPage,
       Goto
  <1>13. CASE TurnFails(c)
    BY <1>13 DEF IInv, Tasks, Outcomes, TurnFails, Cleanup, End, Goto
  <1>14. CASE WritePage(c)
    BY <1>1, <1>14 DEF IInv, CallInv, WriteInv, PagesInv, Tasks, WritePage, Store, NextPage,
       Goto
  <1>15. CASE WriteFails(c)
    BY <1>15 DEF IInv, Tasks, Outcomes, WriteFails, End, Goto
  <1>16. CASE StoreUpload(c)
    <2>1. UNCHANGED <<engineVars, doc, task, page, temp>>
      BY <1>16 DEF StoreUpload
    <2>2. disk' = [disk EXCEPT ![c][page[c]] = "rendered"]
          \/ disk' = [disk EXCEPT ![c][page[c]] = "partial"] \/ disk' = disk
      BY <1>16 DEF StoreUpload, Store
    <2>3. disk' \in [Calls -> [Page -> {"none", "partial", "rendered", "turned"}]]
      <3>1. disk \in [Calls -> [Page -> {"none", "partial", "rendered", "turned"}]]
        BY DEF IInv
      <3> HIDE DEF Page, TypeOK
      <3> QED BY ONLY <2>2, <3>1, c \in Calls, StoredType
    <2>4. /\ pc' = [pc EXCEPT ![c] = "done"]
          /\ outcome' \in [Calls -> Outcomes]
      BY <1>16 DEF StoreUpload, End, Goto, IInv, Outcomes
    <2> QED BY <2>1, <2>3, <2>4 DEF IInv, Tasks, Outcomes
  <1>17. CASE CanceledMeanwhile(c)
    BY <1>17 DEF IInv, Tasks, Outcomes, CanceledMeanwhile, Cleanup, End, Goto
  <1>18. CASE StartPrint(c)
    BY <1>18 DEF IInv, Tasks, Outcomes, StartPrint, Goto
  <1>19. CASE Printed(c)
    BY <1>19 DEF IInv, Tasks, Outcomes, Printed, Cleanup, End, Goto
  <1> QED BY <1>2, <1>3, <1>4, <1>5, <1>6, <1>7, <1>8, <1>9, <1>10, <1>11, <1>12, <1>13,
     <1>14, <1>15, <1>16, <1>17, <1>18, <1>19 DEF CallStep, Waiting, WithInstance,
     WithoutInstance

\* Every step of a call touches what belongs to it only.
LEMMA OnlyOf_Step ==
  ASSUME IInv, NEW c \in Calls, CallStep(c)
  PROVE  OnlyOf(c)
  <1> USE DEF TypeOK, OnlyOf, engineVars
  <1>1. CASE StartEngine(c)
    BY <1>1 DEF IInv, StartEngine, Goto
  <1>2. CASE EngineStarted(c)
    BY <1>2 DEF IInv, EngineStarted, Goto
  <1>3. CASE GetInstance(c)
    BY <1>3 DEF IInv, GetInstance, Goto
  <1>4. CASE NoInstance(c)
    BY <1>4 DEF IInv, NoInstance, End, Goto, TimesOut
  <1>5. CASE Warmed(c)
    BY <1>5 DEF IInv, Warmed, CloseInstance, End, Goto, Want
  <1>6. CASE Unreadable(c)
    BY <1>6 DEF IInv, Unreadable, CloseInstance, End, Goto
  <1>7. CASE CountPages(c)
    BY <1>7 DEF IInv, CountPages, CloseInstance, Acceptable, End, Goto, Want
  <1>8. CASE RenderPage(c)
    BY <1>8 DEF IInv, RenderPage, Store, NextPage
  <1>9. CASE RenderFails(c)
    BY <1>9 DEF IInv, RenderFails, Store, CloseInstance, End, Goto
  <1>10. CASE Rendered(c)
    BY <1>10 DEF IInv, Rendered, CloseInstance, End, Goto
  <1>11. CASE TurnPage(c)
    BY <1>11 DEF IInv, TurnPage, Store, NextPage, Goto
  <1>12. CASE TurnFails(c)
    BY <1>12 DEF IInv, TurnFails, Cleanup, End, Goto
  <1>13. CASE WritePage(c)
    BY <1>13 DEF IInv, WritePage, Store, NextPage, Goto
  <1>14. CASE WriteFails(c)
    BY <1>14 DEF IInv, WriteFails, End, Goto
  <1>15. CASE StoreUpload(c)
    BY <1>15 DEF IInv, StoreUpload, Store, End, Goto
  <1>16. CASE CanceledMeanwhile(c)
    BY <1>16 DEF IInv, CanceledMeanwhile, Cleanup, End, Goto
  <1>17. CASE StartPrint(c)
    BY <1>17 DEF IInv, StartPrint, Goto
  <1>18. CASE Printed(c)
    BY <1>18 DEF IInv, Printed, Cleanup, End, Goto
  <1> QED BY <1>1, <1>2, <1>3, <1>4, <1>5, <1>6, <1>7, <1>8, <1>9, <1>10, <1>11, <1>12,
     <1>13, <1>14, <1>15, <1>16, <1>17, <1>18 DEF CallStep, Waiting, WithInstance,
     WithoutInstance

\* Every step gives the engine back when the call stops working with it.
LEMMA Engine_Step ==
  ASSUME IInv, NEW c \in Calls, CallStep(c)
  PROVE  EngineIsReturned'
  <1> USE CallsAssumption DEF TypeOK, EngineIsReturned, Tasks, engineVars
  <1>1. CASE StartEngine(c)
    BY <1>1 DEF IInv, StartEngine, Goto
  <1>2. CASE EngineStarted(c)
    BY <1>2 DEF IInv, EngineStarted, Goto
  <1>3. CASE GetInstance(c)
    BY <1>3 DEF IInv, GetInstance, Goto
  <1>4. CASE NoInstance(c)
    BY <1>4 DEF IInv, NoInstance, End, Goto, TimesOut
  <1>5. CASE Warmed(c)
    BY <1>5 DEF IInv, Warmed, CloseInstance, End, Goto, Want
  <1>6. CASE Unreadable(c)
    BY <1>6 DEF IInv, Unreadable, CloseInstance, End, Goto
  <1>7. CASE CountPages(c)
    BY <1>7 DEF IInv, CountPages, CloseInstance, Acceptable, End, Goto, Want
  <1>8. CASE RenderPage(c)
    BY <1>8 DEF IInv, RenderPage, Store, NextPage
  <1>9. CASE RenderFails(c)
    BY <1>9 DEF IInv, RenderFails, Store, CloseInstance, End, Goto
  <1>10. CASE Rendered(c)
    BY <1>10 DEF IInv, Rendered, CloseInstance, End, Goto
  <1>11. CASE TurnPage(c)
    BY <1>11 DEF IInv, TurnPage, Store, NextPage, Goto
  <1>12. CASE TurnFails(c)
    BY <1>12 DEF IInv, TurnFails, Cleanup, End, Goto
  <1>13. CASE WritePage(c)
    BY <1>13 DEF IInv, WritePage, Store, NextPage, Goto
  <1>14. CASE WriteFails(c)
    BY <1>14 DEF IInv, WriteFails, End, Goto
  <1>15. CASE StoreUpload(c)
    BY <1>15 DEF IInv, StoreUpload, Store, End, Goto
  <1>16. CASE CanceledMeanwhile(c)
    BY <1>16 DEF IInv, CanceledMeanwhile, Cleanup, End, Goto
  <1>17. CASE StartPrint(c)
    BY <1>17 DEF IInv, StartPrint, Goto
  <1>18. CASE Printed(c)
    BY <1>18 DEF IInv, Printed, Cleanup, End, Goto
  <1> QED BY <1>1, <1>2, <1>3, <1>4, <1>5, <1>6, <1>7, <1>8, <1>9, <1>10, <1>11, <1>12,
     <1>13, <1>14, <1>15, <1>16, <1>17, <1>18 DEF CallStep, Waiting, WithInstance,
     WithoutInstance

\* Every step keeps the disk in line with the call's progress.
LEMMA Call_Step ==
  ASSUME IInv, NEW c \in Calls, CallStep(c)
  PROVE  CallInv(c)'
  <1> USE CallsAssumption, MaxPagesAssumption DEF TypeOK, Page, engineVars, Clean, PagesInv,
     Ready, PagesOf,
        CallInv, StartInv, RenderInv, TurnInv, WriteInv, PrintInv, DoneInv, Calls
  <1>1. /\ doc[c].format \in {"pdf", "pwg", "image", "other"} /\ doc[c].pages \in Nat
        /\ doc[c].turn \in BOOLEAN
    <2>1. doc[c] \in Documents
      BY DEF IInv
    <2> HIDE DEF Page
    <2> QED BY <2>1, DocumentFields
  <1>2. CASE StartEngine(c)
    BY <1>1, <1>2 DEF IInv, Tasks, StartEngine, Goto
  <1>3. CASE EngineStarted(c)
    BY <1>1, <1>3 DEF IInv, Tasks, EngineStarted, Goto
  <1>4. CASE GetInstance(c)
    BY <1>1, <1>4 DEF IInv, Tasks, GetInstance, Goto
  <1>5. CASE NoInstance(c)
    BY <1>1, <1>5 DEF IInv, Tasks, NoInstance, End, Goto, TimesOut
  <1>6. CASE Warmed(c)
    BY <1>1, <1>6 DEF IInv, Tasks, Warmed, CloseInstance, End, Goto, Want
  <1>7. CASE Unreadable(c)
    BY <1>1, <1>7 DEF IInv, Tasks, Unreadable, CloseInstance, End, Goto
  <1>8. CASE CountPages(c)
    BY <1>1, <1>8 DEF IInv, Tasks, CountPages, CloseInstance, Acceptable, End, Goto, Want
  <1>9. CASE RenderPage(c)
    BY <1>1, <1>9 DEF IInv, Tasks, RenderPage, Store, NextPage
  <1>10. CASE RenderFails(c)
    BY <1>1, <1>10 DEF IInv, Tasks, RenderFails, Store, CloseInstance, End, Goto
  <1>11. CASE Rendered(c)
    BY <1>1, <1>11 DEF IInv, Tasks, Rendered, CloseInstance, End, Goto
  <1>12. CASE TurnPage(c)
    BY <1>1, <1>12 DEF IInv, Tasks, TurnPage, Store, NextPage, Goto
  <1>13. CASE TurnFails(c)
    BY <1>1, <1>13 DEF IInv, Tasks, TurnFails, Cleanup, End, Goto
  <1>14. CASE WritePage(c)
    <2>1. /\ pc[c] = "write" /\ c \in Jobs /\ doc[c].format = "pwg" /\ PagesInv(c)
          /\ temp[c] = 1 .. page[c] - 1 /\ page[c] \in 1 .. doc[c].pages /\ doc[c].pages <= MaxPages
          /\ \A p \in Page : disk[c][p] = IF p < page[c] THEN "rendered" ELSE "none"
      BY <1>1, <1>14 DEF IInv, WritePage
    <2>2. /\ doc'[c] = doc[c] /\ page'[c] = page[c] + 1 /\ outcome'[c] = outcome[c]
          /\ temp'[c] = 1 .. page[c] /\ task'[c] = task[c] /\ outcome[c] = "none"
          /\ pc'[c] = IF page[c] = doc[c].pages THEN "check" ELSE "write"
      BY <1>14, <2>1 DEF IInv, WritePage, NextPage, Goto
    <2>3. \A p \in Page : disk'[c][p] = IF p <= page[c] THEN "rendered" ELSE "none"
      BY <1>14, <2>1 DEF IInv, WritePage, Store
    <2>4. c \notin WarmUps /\ c \notin Uploads
      BY <2>1
    <2>5. StartInv(c)' /\ RenderInv(c)' /\ TurnInv(c)' /\ DoneInv(c)'
      BY <2>2, <2>4
    <2>6. CASE page[c] = doc[c].pages
      <3>1. WriteInv(c)'
        BY <2>2, <2>6
      <3>2. PrintInv(c)'
        BY <1>1, <2>1, <2>2, <2>3, <2>6
      <3> QED BY <2>5, <3>1, <3>2
    <2>7. CASE page[c] # doc[c].pages
      <3>1. WriteInv(c)'
        BY <1>1, <2>1, <2>2, <2>3, <2>7
      <3>2. PrintInv(c)'
        BY <2>2, <2>7
      <3> QED BY <2>5, <3>1, <3>2
    <2> QED BY <2>6, <2>7
  <1>15. CASE WriteFails(c)
    BY <1>1, <1>15 DEF IInv, Tasks, WriteFails, End, Goto
  <1>16. CASE StoreUpload(c)
    BY <1>1, <1>16 DEF IInv, Tasks, StoreUpload, Store, End, Goto
  <1>17. CASE CanceledMeanwhile(c)
    BY <1>1, <1>17 DEF IInv, Tasks, CanceledMeanwhile, Cleanup, End, Goto
  <1>18. CASE StartPrint(c)
    BY <1>1, <1>18 DEF IInv, Tasks, StartPrint, Goto
  <1>19. CASE Printed(c)
    BY <1>1, <1>19 DEF IInv, Tasks, Printed, Cleanup, End, Goto
  <1> QED BY <1>2, <1>3, <1>4, <1>5, <1>6, <1>7, <1>8, <1>9, <1>10, <1>11, <1>12, <1>13,
     <1>14, <1>15, <1>16, <1>17, <1>18, <1>19 DEF CallStep, Waiting, WithInstance,
     WithoutInstance

\* The same for the request that starts a call.
LEMMA Begin_Step ==
  ASSUME IInv, NEW c \in Uploads \union Jobs, NEW d \in Documents, Begin(c, d)
  PROVE  TypeOK' /\ OnlyOf(c) /\ EngineIsReturned' /\ CallInv(c)'
  <1> USE CallsAssumption, MaxPagesAssumption DEF engineVars
  <1>1. c \in Calls /\ c \notin WarmUps /\ pc[c] = "idle" /\ doc' = [doc EXCEPT ![c] = d]
    BY DEF Begin, Calls
  <1>2. UNCHANGED <<engineVars, page, disk, temp>>
    BY DEF Begin
  <1>3. \/ /\ c \in Jobs /\ d.format = "pdf" /\ pc' = [pc EXCEPT ![c] = "once"]
           /\ task' = [task EXCEPT ![c] = "init"] /\ outcome' = outcome
        \/ /\ c \in Jobs /\ d.format = "pwg" /\ pc' = [pc EXCEPT ![c] = "write"]
           /\ task' = task /\ outcome' = outcome
        \/ /\ c \in Uploads /\ d.format = "pdf" /\ pc' = [pc EXCEPT ![c] = "once"]
           /\ task' = [task EXCEPT ![c] = "count"] /\ outcome' = outcome
        \/ /\ c \in Uploads /\ d.format = "image" /\ pc' = [pc EXCEPT ![c] = "store"]
           /\ task' = task /\ outcome' = outcome
        \/ /\ pc' = [pc EXCEPT ![c] = "done"] /\ task' = task
           /\ outcome' = [outcome EXCEPT ![c] = "failed"]
    BY DEF Begin, Want, Goto, End
  <1>4. TypeOK'
    BY <1>1, <1>2, <1>3 DEF IInv, TypeOK, Tasks, Outcomes
  <1>5. OnlyOf(c)
    BY <1>1, <1>2, <1>3 DEF IInv, TypeOK, OnlyOf
  <1>6. EngineIsReturned'
    BY <1>1, <1>2, <1>3 DEF IInv, TypeOK, EngineIsReturned, Tasks
  <1>7. d.format = "pwg" => d.pages \in Page
    BY ONLY d \in Documents, DocumentFields
  <1>8. d.format = "image" => d.pages = 1
    BY DEF Documents
  <1>9. Clean(c)' /\ doc'[c] = d /\ outcome[c] = "none"
    BY <1>1, <1>2 DEF IInv, TypeOK, CallInv, StartInv, Clean
  <1>10. pc'[c] = "write" => d.format = "pwg" /\ c \in Jobs /\ outcome'[c] = "none"
    BY <1>1, <1>3, <1>9 DEF IInv, TypeOK
  <1>11. CallInv(c)'
    <2>1. StartInv(c)'
      BY <1>1, <1>3, <1>8, <1>9 DEF IInv, TypeOK, StartInv
    <2>2. WriteInv(c)'
      BY <1>7, <1>9, <1>10 DEF WriteInv, Clean, PagesInv, Page
    <2>3. RenderInv(c)' /\ TurnInv(c)' /\ PrintInv(c)'
      BY <1>1, <1>3 DEF IInv, TypeOK, RenderInv, TurnInv, PrintInv
    <2>4. DoneInv(c)'
      BY <1>1, <1>3, <1>9 DEF IInv, TypeOK, DoneInv, Clean
    <2> QED BY <2>1, <2>2, <2>3, <2>4 DEF CallInv
  <1> QED BY <1>4, <1>5, <1>6, <1>11

\* The same for the warm-up of the engine.
LEMMA WarmUp_Step ==
  ASSUME IInv, NEW c \in WarmUps, WarmUp(c)
  PROVE  TypeOK' /\ OnlyOf(c) /\ EngineIsReturned' /\ CallInv(c)'
  <1> USE CallsAssumption DEF IInv, TypeOK, WarmUp, Want, Goto, engineVars
  <1>1. c \in Calls /\ pc[c] = "idle"
    BY DEF Calls
  <1>2. TypeOK'
    BY <1>1 DEF Tasks
  <1>3. OnlyOf(c)
    BY <1>1 DEF OnlyOf
  <1>4. EngineIsReturned'
    BY <1>1 DEF EngineIsReturned, Tasks
  <1>5. CallInv(c)'
    BY <1>1 DEF CallInv, StartInv, RenderInv, TurnInv, WriteInv, PrintInv, DoneInv, Clean
  <1> QED BY <1>2, <1>3, <1>4, <1>5

\* The inductive invariant: the engine is held by a call that works with it, and
\* each call's part of the disk is what its progress says (pdf.go:52-173,
\* job.go:65-152, server.go:413-442).
THEOREM Invariance == Spec => []IInv
  <1>1. ASSUME IInv, Next PROVE IInv'
    <2>1. ASSUME NEW c \in Calls, OnlyOf(c), CallInv(c)' PROVE \A d \in Calls : CallInv(d)'
      <3>1. ASSUME NEW d \in Calls, d # c PROVE CallInv(d)'
        BY <1>1, <2>1, <3>1, OthersKeep DEF IInv
      <3> QED BY <2>1, <3>1
    <2>2. ASSUME NEW c \in Calls, CallStep(c) PROVE IInv'
      BY <1>1, <2>1, <2>2, TypeOK_Step, OnlyOf_Step, Engine_Step, Call_Step DEF IInv
    <2>3. ASSUME NEW c \in WarmUps, WarmUp(c) PROVE IInv'
      BY <1>1, <2>1, <2>3, WarmUp_Step DEF IInv, Calls
    <2>4. ASSUME NEW c \in Uploads \union Jobs, NEW d \in Documents, Begin(c, d) PROVE IInv'
      BY <1>1, <2>1, <2>4, Begin_Step DEF IInv, Calls
    <2>5. CASE UNCHANGED vars
      BY <1>1, <2>5 DEF vars, engineVars, IInv, TypeOK, EngineIsReturned, CallInv, StartInv,
         RenderInv, TurnInv, WriteInv, PrintInv, DoneInv, Clean, PagesInv, Ready, PagesOf
    <2> QED BY <1>1, <2>2, <2>3, <2>4, <2>5 DEF Next, AllDone, CallStep
  <1>2. ASSUME IInv, UNCHANGED vars PROVE IInv'
    BY <1>2 DEF vars, engineVars, IInv, TypeOK, EngineIsReturned, CallInv, StartInv,
       RenderInv, TurnInv, WriteInv, PrintInv, DoneInv, Clean, PagesInv, Ready, PagesOf
  <1> QED BY <1>1, <1>2, InitEstablishes, PTL DEF Spec

-----------------------------------------------------------------------------
\* Type correctness of the engine, the calls and their files.
THEOREM TypeCorrect == Spec => []TypeOK
  BY Invariance, PTL DEF IInv

\* Every way out of the work with the engine gives it back (pdf.go:52-173).
THEOREM Returned == Spec => []EngineIsReturned
  BY Invariance, PTL DEF IInv

\* Nothing is printed and no paths are given out unless every page of the
\* document is completely there and turned (job.go:90-144, pdf.go:152-172).
THEOREM PagesComplete == Spec => []PagesAreThere
  <1>1. IInv => PagesAreThere
    BY DEF IInv, TypeOK, CallInv, StartInv, PrintInv, DoneInv, PagesInv, PagesAreThere
  <1> QED BY <1>1, Invariance, PTL

\* An IPP job leaves complete page files behind only when rendering a PDF
\* failed, and parts of one only when storing it failed (job.go:49-55, pdf.go:155).
THEOREM FilesRemoved == Spec => []OnlyFailuresLeaveFiles
  <1>1. IInv => OnlyFailuresLeaveFiles
    BY DEF IInv, CallInv, DoneInv, OnlyFailuresLeaveFiles
  <1> QED BY <1>1, Invariance, PTL
=============================================================================
