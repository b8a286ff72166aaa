--------------------------- MODULE PrinterProtocol ---------------------------
(***************************************************************************)
(* One ql.Printer and the device behind it: how Status, Configure and      *)
(* PrintJobs (pkg/ql/printer.go, settings.go) send commands and take the   *)
(* status frames that come back.  Printer.mu makes the calls sequential.   *)
(* Lost devices and failed writes are in PrinterPool.                      *)
(*                                                                         *)
(* Nothing in a frame says which request or job it is about: frames are    *)
(* taken in the order they arrive.                                         *)
(*                                                                         *)
(* X_Y is a deliberate mistake in X.                                       *)
(***************************************************************************)
EXTENDS Integers, Sequences

CONSTANTS
  MaxCalls,     \* bound: calls in one execution
  Pages,        \* pages of every print job
  Patient       \* TRUE: no deadline passes while the device has work to do

ASSUME MaxCallsAssumption == MaxCalls \in Nat \ {0}
ASSUME PagesAssumption == Pages \in Nat \ {0}
ASSUME PatientAssumption == Patient \in BOOLEAN

VARIABLES
  calls,        \* calls begun so far, the number of the current call
  pc,           \* where that call is
  seen,         \* what collectStatuses has seen in this call
  result,       \* how each call ended
  wire,         \* commands the device has not yet processed
  frames,       \* status frames the host has not yet read
  device,       \* what the device is doing
  job,          \* the call whose stream the device works on
  left,         \* pages of that stream that are not out yet
  condition,    \* what the device reports: "fine", "error", "otherMedia"
  printed       \* pages that came out for each call

hostVars == <<calls, pc, seen, result>>
deviceVars == <<device, job, left, condition, printed>>
vars == <<hostVars, wire, frames, deviceVars>>

Calls == 1..MaxCalls
Conditions == {"fine", "error", "otherMedia"}
Frame == [kind : {"reply", "printing", "completed", "waiting", "failed"},
          condition : Conditions]
Command == [name : {"status", "stream"}, call : Calls]

TypeOK ==
  /\ calls \in 0..MaxCalls
  /\ pc \in {"idle", "status", "preflight", "collect"}
  /\ pc # "idle" => calls # 0
  /\ seen \subseteq {"completed", "waiting", "error"}
  /\ result \in [Calls -> {"none", "answered", "confirmed", "failed"}]
  /\ wire \in Seq(Command)
  /\ frames \in Seq(Frame)
  /\ device \in {"idle", "receiving", "received", "printing", "ejecting", "halted"}
  /\ job \in 0..MaxCalls
  /\ left \in 0..Pages
  /\ device \in {"receiving", "received", "printing"} => job # 0 /\ left # 0
  /\ condition \in Conditions
  /\ printed \in [Calls -> Nat]

Init ==
  /\ calls = 0
  /\ pc = "idle"
  /\ seen = {}
  /\ result = [c \in Calls |-> "none"]
  /\ wire = <<>>
  /\ frames = <<>>
  /\ device = "idle"
  /\ job = 0
  /\ left = 0
  /\ condition = "fine"
  /\ printed = [c \in Calls |-> 0]

-----------------------------------------------------------------------------
(* The host: the methods of Printer, each step inside Printer.mu. *)

HasErrors(f) == f.condition = "error"

End(outcome) ==
  /\ pc' = "idle"
  /\ result' = [result EXCEPT ![calls] = outcome]

StartCall(method) ==
  /\ pc = "idle"
  /\ calls < MaxCalls
  /\ calls' = calls + 1
  /\ pc' = IF method = "PrintJobs" THEN "preflight" ELSE "status"
  /\ wire' = Append(wire, [name |-> "status", call |-> calls + 1])
  /\ UNCHANGED <<seen, result, frames, deviceVars>>

\* Status and Configure take the next frame for the reply to their request.
ReadStatus ==
  /\ pc = "status"
  /\ frames # <<>>
  /\ End("answered")
  /\ frames' = Tail(frames)
  /\ UNCHANGED <<calls, seen, wire, deviceVars>>

\* The preflight check: an error resets the device, other media only refuses.
Refuse ==
  /\ pc = "preflight"
  /\ frames # <<>>
  /\ Head(frames).condition # "fine"
  /\ End("failed")
  /\ frames' = IF HasErrors(Head(frames)) THEN <<>> ELSE Tail(frames)
  /\ UNCHANGED <<calls, seen, wire, deviceVars>>

\* Rendering comes after the check; a job that cannot be rendered is not sent.
RenderFails ==
  /\ pc = "preflight"
  /\ frames # <<>>
  /\ Head(frames).condition = "fine"
  /\ End("failed")
  /\ frames' = Tail(frames)
  /\ UNCHANGED <<calls, seen, wire, deviceVars>>

Send_KeepsSeen ==
  /\ pc = "preflight"
  /\ frames # <<>>
  /\ Head(frames).condition = "fine"
  /\ pc' = "collect"
  /\ frames' = Tail(frames)
  /\ wire' = Append(wire, [name |-> "stream", call |-> calls])
  /\ UNCHANGED <<calls, seen, result, deviceVars>>

Send ==
  /\ pc = "preflight"
  /\ frames # <<>>
  /\ Head(frames).condition = "fine"
  /\ pc' = "collect"
  /\ seen' = {}
  /\ frames' = Tail(frames)
  /\ wire' = Append(wire, [name |-> "stream", call |-> calls])
  /\ UNCHANGED <<calls, result, deviceVars>>

DeadlineMayPass ==
  Patient => frames = <<>> /\ wire = <<>> /\ device \in {"idle", "halted"}

StatusTimeout ==
  /\ pc \in {"status", "preflight"}
  /\ DeadlineMayPass
  /\ End("failed")
  /\ UNCHANGED <<calls, seen, wire, frames, deviceVars>>

Confirmed_OnCompleted == "completed" \in seen
Confirmed == {"completed", "waiting"} \subseteq seen

SeenWith(f) ==
  seen \union (IF f.kind \in {"completed", "waiting"} THEN {f.kind} ELSE {})
       \union (IF HasErrors(f) THEN {"error"} ELSE {})

CollectFrame ==
  /\ pc = "collect"
  /\ ~Confirmed
  /\ frames # <<>>
  /\ seen' = SeenWith(Head(frames))
  /\ frames' = Tail(frames)
  /\ UNCHANGED <<calls, pc, result, wire, deviceVars>>

CollectEnds_NoDeadline == Confirmed
CollectEnds == Confirmed \/ DeadlineMayPass

Verdict_IgnoresErrors == IF Confirmed THEN "confirmed" ELSE "failed"
Verdict == IF "error" \notin seen /\ Confirmed THEN "confirmed" ELSE "failed"

FinishPrint ==
  /\ pc = "collect"
  /\ CollectEnds
  /\ End(Verdict)
  /\ frames' = IF "error" \in seen THEN <<>> ELSE frames
  /\ UNCHANGED <<calls, seen, wire, deviceVars>>

Host ==
  \/ ReadStatus
  \/ Refuse \/ RenderFails \/ Send
  \/ StatusTimeout
  \/ CollectFrame
  \/ FinishPrint

-----------------------------------------------------------------------------
(* The device, known from how the code uses it. *)

Report(kind, c) == frames' = Append(frames, [kind |-> kind, condition |-> c])

\* A status request is answered unless the device is busy with a stream.
Reply ==
  /\ device \in {"idle", "halted"}
  /\ wire # <<>>
  /\ Head(wire).name = "status"
  /\ wire' = Tail(wire)
  /\ Report("reply", condition)
  /\ UNCHANGED <<hostVars, deviceVars>>

TakeStream ==
  /\ device = "idle"
  /\ wire # <<>>
  /\ Head(wire).name = "stream"
  /\ wire' = Tail(wire)
  /\ device' = "receiving"
  /\ job' = Head(wire).call
  /\ left' = Pages
  /\ UNCHANGED <<hostVars, frames, condition, printed>>

\* BuildJobsStream puts a status request before every page.
PageReply ==
  /\ device = "receiving"
  /\ device' = "received"
  /\ Report("reply", condition)
  /\ UNCHANGED <<hostVars, wire, job, left, condition, printed>>

PageStarts ==
  /\ device = "received"
  /\ condition = "fine"
  /\ device' = "printing"
  /\ Report("printing", condition)
  /\ UNCHANGED <<hostVars, wire, job, left, condition, printed>>

PageDone ==
  /\ device = "printing"
  /\ left' = left - 1
  /\ device' = IF left' = 0 THEN "ejecting" ELSE "receiving"
  /\ printed' = [printed EXCEPT ![job] = @ + 1]
  /\ Report("completed", condition)
  /\ UNCHANGED <<hostVars, wire, job, condition>>

Ready ==
  /\ device = "ejecting"
  /\ device' = "idle"
  /\ Report("waiting", condition)
  /\ UNCHANGED <<hostVars, wire, job, left, condition, printed>>

\* The rest of the stream is dropped.
Fail ==
  /\ device = "printing" \/ (device = "received" /\ condition # "fine")
  /\ device' = "halted"
  /\ left' = 0
  /\ condition' = "error"
  /\ Report("failed", "error")
  /\ UNCHANGED <<hostVars, wire, job, printed>>

Device == Reply \/ TakeStream \/ PageReply \/ PageStarts \/ PageDone \/ Ready \/ Fail

\* Somebody changes the roll, opens the cover or closes it again.
Change ==
  /\ device \in {"idle", "receiving", "received"}
  /\ condition' \in Conditions \ {condition}
  /\ UNCHANGED <<hostVars, wire, frames, device, job, left, printed>>

Clear ==
  /\ device = "halted"
  /\ device' = "idle"
  /\ condition' \in {"fine", "otherMedia"}
  /\ Report("waiting", condition')
  /\ UNCHANGED <<hostVars, wire, job, left, printed>>

-----------------------------------------------------------------------------
Next ==
  \/ \E method \in {"Status", "PrintJobs"} : StartCall(method)
  \/ Host
  \/ Device
  \/ Change
  \/ Clear

Spec == Init /\ [][Next]_vars

\* Calls proceed and their deadlines pass; the printer need not do anything.
FairSpec == Spec /\ WF_vars(Host)

-----------------------------------------------------------------------------
(* What must hold. *)

\* A PrintJobs that returns without an error has had all its pages come out,
\* and no frame of another job or of a failed page made it return so: what
\* PrintResult.Printed and Ready promise (printer.go:60-66).
ConfirmedIsPrinted == \A c \in Calls : result[c] = "confirmed" => printed[c] = Pages

Holds(kinds) == \E i \in 1..Len(frames) : frames[i].kind \in kinds

\* A call leaves nothing of its job behind that could confirm the next one: no
\* stream unprocessed, no page under way, no "printing completed" unread.
NothingLeftOver ==
  pc = "idle" =>
    /\ device \in {"idle", "halted"}
    /\ \A i \in 1..Len(wire) : wire[i].name = "status"
    /\ ~Holds({"printing", "completed"})

\* The inductive invariant behind both.

\* Some frame of this call reported an error, be it taken already or not.
ErrorBefore(i) == "error" \in seen \/ \E k \in 1..(i - 1) : HasErrors(frames[k])
ErrorReported == ErrorBefore(Len(frames) + 1)
Busy == device \in {"receiving", "received", "printing", "ejecting"}

\* No job is under way before the stream is sent: an unread "waiting" is left
\* from a job that halted, and whatever came before it reports that error.
QuietInv ==
  pc # "collect" =>
    /\ ~Busy
    /\ \A i \in 1..Len(wire) : wire[i].name = "status"
    /\ ~Holds({"printing", "completed"})
    /\ \A i \in 1..Len(frames) : frames[i].kind = "waiting" =>
         \A k \in 1..(i - 1) : HasErrors(frames[k])
    /\ device = "halted" => \A i \in 1..Len(frames) : HasErrors(frames[i])

\* The stream is the last command of its call and the device works on no other.
StreamInv ==
  /\ device = "halted" => condition = "error"
  /\ pc = "collect" =>
       /\ Busy \/ device = "halted" => job = calls /\ wire = <<>>
       /\ \A i \in 1..Len(wire) : wire[i].name = "stream" =>
            /\ i = Len(wire)
            /\ wire[i].call = calls
       /\ wire # <<>> =>
            /\ wire[Len(wire)].name = "stream"
            /\ printed[calls] = 0
            /\ seen \intersect {"completed", "waiting"} = {}
            /\ ~Holds({"printing", "completed", "waiting"})

\* "Waiting" is the last frame of a job, and without an error before it every
\* page is out.
WaitingInv ==
  pc = "collect" =>
    /\ "waiting" \in seen =>
         /\ frames = <<>> /\ wire = <<>> /\ device = "idle"
         /\ "error" \in seen \/ printed[calls] = Pages
    /\ \A i \in 1..Len(frames) : frames[i].kind = "waiting" =>
         /\ i = Len(frames) /\ wire = <<>> /\ device = "idle"
         /\ ErrorBefore(i) \/ printed[calls] = Pages

\* The pages that are out and those that are left make up the job, until an
\* error is reported.
PagesInv ==
  /\ \A c \in Calls : c > calls => printed[c] = 0
  /\ pc = "preflight" => printed[calls] = 0
  /\ pc = "collect" =>
       /\ Busy => printed[job] + left = Pages
       /\ device = "ejecting" => left = 0
       /\ device = "halted" => ErrorReported

\* A call has no result before it ends.
ResultInv == \A c \in Calls : c > calls \/ (c = calls /\ pc # "idle") => result[c] = "none"

IInv ==
  /\ TypeOK
  /\ QuietInv
  /\ StreamInv
  /\ WaitingInv
  /\ PagesInv
  /\ ResultInv
  /\ ConfirmedIsPrinted

\* Every call ends once its deadline may pass, whatever the printer does.
CallsEnd == pc # "idle" ~> pc = "idle"

=============================================================================
