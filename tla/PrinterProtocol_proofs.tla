----------------------- MODULE PrinterProtocol_proofs -----------------------
(***************************************************************************)
(* Theorems about PrinterProtocol, for any number of calls and pages.      *)
(***************************************************************************)
EXTENDS PrinterProtocol, TLAPS

USE MaxCallsAssumption, PagesAssumption, PatientAssumption

\* What taking the first element of a sequence does.
LEMMA Shorter ==
  ASSUME NEW S, NEW s \in Seq(S), s # <<>>
  PROVE  /\ Tail(s) \in Seq(S)
         /\ Head(s) = s[1] /\ Head(s) \in S
         /\ Len(s) \in Nat \ {0}
         /\ Len(Tail(s)) = Len(s) - 1
         /\ \A i \in 1..(Len(s) - 1) : Tail(s)[i] = s[i + 1]
  OBVIOUS

\* What adding an element at the end of a sequence does.
LEMMA Longer ==
  ASSUME NEW S, NEW s \in Seq(S), NEW e \in S
  PROVE  /\ Append(s, e) \in Seq(S)
         /\ Len(s) \in Nat
         /\ Len(Append(s, e)) = Len(s) + 1
         /\ \A i \in 1..Len(s) : Append(s, e)[i] = s[i]
         /\ Append(s, e)[Len(s) + 1] = e
  OBVIOUS

\* The device reports: the frame comes last.
LEMMA Reported ==
  ASSUME frames \in Seq(Frame), NEW kind, NEW c, [kind |-> kind, condition |-> c] \in Frame,
         Report(kind, c)
  PROVE  /\ frames' \in Seq(Frame)
         /\ Len(frames) \in Nat /\ Len(frames') = Len(frames) + 1
         /\ \A i \in 1..Len(frames) : frames'[i] = frames[i]
         /\ frames'[Len(frames')].kind = kind
         /\ frames'[Len(frames')].condition = c
  <1> DEFINE f == [kind |-> kind, condition |-> c]
  <1>1. f \in Frame /\ frames' = Append(frames, f)
    BY DEF Report
  <1>2. f.kind = kind /\ f.condition = c
    OBVIOUS
  <1> HIDE DEF f
  <1> QED BY <1>1, <1>2, Longer

\* The host takes a frame: the others move up.
LEMMA Taken ==
  ASSUME frames \in Seq(Frame), frames # <<>>, frames' = Tail(frames)
  PROVE  /\ frames' \in Seq(Frame)
         /\ Head(frames) = frames[1] /\ frames[1] \in Frame
         /\ Len(frames) \in Nat \ {0} /\ Len(frames') = Len(frames) - 1
         /\ Len(frames) = 1 => frames' = <<>>
         /\ \A i \in 1..Len(frames') : frames'[i] = frames[i + 1]
  BY Shorter

\* The device takes a command: the others move up.
LEMMA CommandTaken ==
  ASSUME wire \in Seq(Command), wire # <<>>, wire' = Tail(wire)
  PROVE  /\ wire' \in Seq(Command)
         /\ Head(wire) = wire[1] /\ wire[1] \in Command
         /\ Len(wire) \in Nat \ {0} /\ Len(wire') = Len(wire) - 1
         /\ Len(wire) = 1 => wire' = <<>>
         /\ \A i \in 1..Len(wire') : wire'[i] = wire[i + 1]
  BY Shorter

\* What a frame adds to what collectStatuses has seen.
LEMMA SeenAfter ==
  ASSUME CollectFrame
  PROVE  /\ "error" \in seen' <=> "error" \in seen \/ HasErrors(Head(frames))
         /\ \A k \in {"completed", "waiting"} :
              k \in seen' <=> k \in seen \/ Head(frames).kind = k
         /\ seen \subseteq {"completed", "waiting", "error"} =>
              seen' \subseteq {"completed", "waiting", "error"}
  BY DEF CollectFrame, SeenWith

\* The device takes the stream of the current call, and nothing is behind it.
LEMMA StreamTaken ==
  ASSUME TypeOK, QuietInv, StreamInv, TakeStream
  PROVE  /\ pc = "collect" /\ wire' = <<>> /\ job' = calls
         /\ printed[calls] = 0
         /\ "waiting" \notin seen /\ ~Holds({"waiting"})
  <1>1. /\ Head(wire) = wire[1] /\ Len(wire) \in Nat \ {0}
        /\ Len(wire) = 1 => wire' = <<>>
    BY CommandTaken DEF TakeStream, TypeOK
  <1>2. pc = "collect"
    BY <1>1 DEF QuietInv, TakeStream
  <1>3. 1 \in 1..Len(wire) /\ wire[1].name = "stream"
    BY <1>1 DEF TakeStream
  <1>4. Len(wire) = 1 /\ wire[1].call = calls
    BY <1>1, <1>2, <1>3 DEF StreamInv
  <1> QED BY <1>1, <1>2, <1>4 DEF StreamInv, TakeStream, Holds

\* An error that came before a frame still does when the frames move up.
LEMMA ErrorKept ==
  ASSUME TypeOK, CollectFrame, NEW i \in 1..Len(frames), ErrorBefore(i + 1)
  PROVE  ErrorBefore(i)'
  <1>1. /\ Len(frames) \in Nat \ {0} /\ Len(frames') = Len(frames) - 1
        /\ \A j \in 1..Len(frames') : frames'[j] = frames[j + 1]
        /\ Head(frames) = frames[1]
    BY Taken DEF CollectFrame, TypeOK
  <1>2. CASE "error" \in seen
    BY <1>2, SeenAfter DEF ErrorBefore
  <1>3. ASSUME NEW k \in 1..i, HasErrors(frames[k]) PROVE ErrorBefore(i)'
    <2>1. CASE k = 1
      BY <1>1, <1>3, <2>1, SeenAfter DEF ErrorBefore
    <2>2. CASE k # 1
      <3>1. PICK j \in 1..(i - 1) : k = j + 1
        BY <1>1, <2>2
      <3>2. frames'[j] = frames[k]
        BY <1>1, <3>1
      <3> QED BY <1>3, <3>1, <3>2 DEF ErrorBefore, HasErrors
    <2> QED BY <2>1, <2>2
  <1> QED BY <1>2, <1>3 DEF ErrorBefore

\* Types hold whatever the deadlines.
LEMMA TypeOK_Step ==
  ASSUME TypeOK, [Next]_vars
  PROVE  TypeOK'
  <1> USE DEF TypeOK, hostVars, deviceVars, Command, Frame, Conditions, Calls
  <1>1. ASSUME NEW method \in {"Status", "PrintJobs"}, StartCall(method) PROVE TypeOK'
    BY <1>1 DEF StartCall
  <1>2. CASE ReadStatus
    BY <1>2 DEF ReadStatus, End
  <1>3. CASE Refuse
    BY <1>3 DEF Refuse, End, HasErrors
  <1>4. CASE Send
    BY <1>4 DEF Send
  <1>5. CASE StatusTimeout
    BY <1>5 DEF StatusTimeout, End, DeadlineMayPass
  <1>6. CASE CollectFrame
    BY <1>6, Taken, SeenAfter DEF CollectFrame
  <1>7. CASE FinishPrint
    BY <1>7 DEF FinishPrint, End, CollectEnds, DeadlineMayPass, Verdict, Confirmed
  <1>8. CASE Reply
    BY <1>8 DEF Reply, Report
  <1>9. CASE TakeStream
    <2>1. wire' \in Seq(Command) /\ Head(wire).call \in Calls
      BY <1>9, CommandTaken DEF TakeStream
    <2>2. job' \in 0..MaxCalls /\ job' # 0 /\ left' \in 0..Pages /\ left' # 0
      BY <1>9, <2>1, PagesAssumption DEF TakeStream
    <2>3. device' = "receiving" /\ UNCHANGED <<calls, pc, seen, result, frames, condition, printed>>
      BY <1>9 DEF TakeStream
    <2> QED BY <2>1, <2>2, <2>3
  <1>10. CASE PageReply
    BY <1>10 DEF PageReply, Report
  <1>11. CASE PageStarts
    BY <1>11 DEF PageStarts, Report
  <1>12. CASE PageDone
    <2>1. left' \in 0..Pages /\ (left' # 0 => device' = "receiving")
      BY <1>12 DEF PageDone
    <2>2. printed' \in [Calls -> Nat]
      BY <1>12 DEF PageDone
    <2> QED BY <1>12, <2>1, <2>2 DEF PageDone, Report
  <1>13. CASE Ready
    BY <1>13 DEF Ready, Report
  <1>14. CASE Fail
    BY <1>14 DEF Fail, Report
  <1>15. CASE Change
    BY <1>15 DEF Change
  <1>16. CASE Clear
    BY <1>16 DEF Clear, Report
  <1>17. CASE UNCHANGED vars
    BY <1>17 DEF vars
  <1>18. CASE RenderFails
    BY <1>18 DEF RenderFails, End
  <1> QED BY <1>1, <1>2, <1>3, <1>4, <1>5, <1>6, <1>7, <1>8, <1>9, <1>10, <1>11, <1>12,
        <1>13, <1>14, <1>15, <1>16, <1>17, <1>18 DEF Next, Host, Device

\* Nothing of a job is under way before a stream is sent and after a verdict.
LEMMA QuietInv_Step ==
  ASSUME IInv, Patient, [Next]_vars
  PROVE  QuietInv'
  <1> USE DEF TypeOK, hostVars, deviceVars, Command, Frame, Conditions, Calls, QuietInv,
        StreamInv, WaitingInv, PagesInv, ErrorBefore, ErrorReported, Busy, Holds,
        HasErrors
  <1>1. ASSUME NEW method \in {"Status", "PrintJobs"}, StartCall(method) PROVE QuietInv'
    <2>1. /\ Len(wire') = Len(wire) + 1 /\ Len(wire) \in Nat
          /\ \A i \in 1..Len(wire) : wire'[i] = wire[i]
          /\ wire'[Len(wire')].name = "status"
      BY <1>1 DEF StartCall, IInv
    <2> QED BY <1>1, <2>1 DEF StartCall, IInv
  <1>2. CASE ReadStatus
    BY <1>2 DEF ReadStatus, End, IInv
  <1>3. CASE Refuse
    BY <1>3 DEF Refuse, End, IInv
  <1>4. CASE Send
    BY <1>4 DEF Send, IInv
  <1>5. CASE StatusTimeout
    BY <1>5 DEF StatusTimeout, End, DeadlineMayPass, IInv
  <1>6. CASE CollectFrame
    BY <1>6 DEF CollectFrame, SeenWith, Confirmed, IInv
  <1>7. CASE FinishPrint
    <2>1. frames' = <<>>
      BY <1>7 DEF FinishPrint, CollectEnds, DeadlineMayPass, Confirmed, IInv
    <2>2. /\ device \in {"idle", "halted"} /\ wire = <<>>
      BY <1>7 DEF FinishPrint, CollectEnds, DeadlineMayPass, Confirmed, IInv
    <2> QED BY <1>7, <2>1, <2>2 DEF FinishPrint, End, IInv
  <1>8. CASE Reply
    <2>1. /\ Len(frames) \in Nat /\ Len(frames') = Len(frames) + 1
          /\ \A i \in 1..Len(frames) : frames'[i] = frames[i]
          /\ frames'[Len(frames')].kind = "reply"
          /\ frames'[Len(frames')].condition = condition
      BY <1>8, Reported DEF Reply, IInv
    <2>2. /\ Len(wire) \in Nat \ {0} /\ Len(wire') = Len(wire) - 1
          /\ \A i \in 1..Len(wire') : wire'[i] = wire[i + 1]
          /\ wire[1].name = "status"
          /\ wire' # <<>> => Len(wire) # 1
      BY <1>8, CommandTaken DEF Reply, IInv
    <2>3. ASSUME pc # "collect"
          PROVE  /\ \A i \in 1..Len(wire) : wire[i].name = "status"
                 /\ \A i \in 1..Len(frames) :
                      /\ frames[i].kind \notin {"printing", "completed"}
                      /\ frames[i].kind = "waiting" =>
                           \A k \in 1..(i - 1) : frames[k].condition = "error"
                 /\ device = "halted" =>
                      /\ condition = "error"
                      /\ \A i \in 1..Len(frames) : frames[i].condition = "error"
      BY <2>3 DEF IInv
    <2>4. ASSUME pc # "collect"
          PROVE  /\ \A i \in 1..Len(wire') : wire'[i].name = "status"
                 /\ \A i \in 1..Len(frames') : frames'[i].kind \notin {"printing", "completed"}
      <3>1. \A i \in 1..Len(wire') : i + 1 \in 1..Len(wire)
        BY <2>2
      <3>2. \A i \in 1..Len(frames') : i \in 1..Len(frames) \/ i = Len(frames')
        BY <2>1
      <3> QED BY <2>1, <2>2, <2>3, <2>4, <3>1, <3>2
    <2>5. ASSUME pc # "collect", NEW i \in 1..Len(frames'), frames'[i].kind = "waiting",
                 NEW k \in 1..(i - 1)
          PROVE  HasErrors(frames'[k])
      <3>1. i # Len(frames') => i \in 1..Len(frames)
        BY <2>1
      <3>2. i \in 1..Len(frames) /\ k \in 1..Len(frames)
        BY <2>1, <2>5, <3>1
      <3> QED BY <2>1, <2>3, <2>5, <3>2
    <2>6. ASSUME pc # "collect", device = "halted", NEW i \in 1..Len(frames')
          PROVE  HasErrors(frames'[i])
      <3>1. i \in 1..Len(frames) \/ i = Len(frames')
        BY <2>1
      <3> QED BY <2>1, <2>3, <2>6, <3>1
    <2> QED BY <1>8, <2>3, <2>4, <2>5, <2>6 DEF Reply, IInv
  <1>9. CASE TakeStream
    BY <1>9, StreamTaken DEF TakeStream, IInv
  <1>10. CASE PageReply
    BY <1>10 DEF PageReply, Report, IInv
  <1>11. CASE PageStarts
    BY <1>11 DEF PageStarts, Report, IInv
  <1>12. CASE PageDone
    BY <1>12 DEF PageDone, Report, IInv
  <1>13. CASE Ready
    BY <1>13 DEF Ready, Report, IInv
  <1>14. CASE Fail
    BY <1>14 DEF Fail, Report, IInv
  <1>15. CASE Change
    BY <1>15 DEF Change, IInv
  <1>16. CASE Clear
    BY <1>16 DEF Clear, Report, IInv
  <1>17. CASE UNCHANGED vars
    BY <1>17 DEF vars, IInv
  <1>18. CASE RenderFails
    BY <1>18 DEF RenderFails, End, IInv
  <1> QED BY <1>1, <1>2, <1>3, <1>4, <1>5, <1>6, <1>7, <1>8, <1>9, <1>10, <1>11, <1>12,
        <1>13, <1>14, <1>15, <1>16, <1>17, <1>18 DEF Next, Host, Device

\* The stream is the last command of its call.
LEMMA StreamInv_Step ==
  ASSUME IInv, Patient, [Next]_vars
  PROVE  StreamInv'
  <1> USE DEF TypeOK, hostVars, deviceVars, Command, Frame, Conditions, Calls, QuietInv,
        StreamInv, WaitingInv, PagesInv, ErrorBefore, ErrorReported, Busy, Holds,
        HasErrors
  <1>1. ASSUME NEW method \in {"Status", "PrintJobs"}, StartCall(method) PROVE StreamInv'
    BY <1>1 DEF StartCall, IInv
  <1>2. CASE ReadStatus
    BY <1>2 DEF ReadStatus, End, IInv
  <1>3. CASE Refuse
    BY <1>3 DEF Refuse, End, IInv
  <1>4. CASE Send
    <2>1. /\ Head(frames) = frames[1] /\ Len(frames) \in Nat \ {0}
          /\ Len(frames') = Len(frames) - 1
          /\ \A i \in 1..Len(frames') : frames'[i] = frames[i + 1]
      BY <1>4, Taken DEF Send, IInv
    <2>2. /\ Len(wire') = Len(wire) + 1 /\ Len(wire) \in Nat
          /\ \A i \in 1..Len(wire) : wire'[i] = wire[i]
          /\ wire'[Len(wire')] = [name |-> "stream", call |-> calls]
      BY <1>4, Longer DEF Send, IInv
    <2>3. device = "idle" /\ ~HasErrors(frames[1])
      BY <1>4, <2>1 DEF Send, IInv
    <2>4. \A i \in 1..Len(frames') : frames'[i].kind \notin {"printing", "completed",
          "waiting"}
      BY <1>4, <2>1, <2>3 DEF Send, IInv
    <2>5. \A i \in 1..Len(wire) : wire[i].name = "status"
      BY <1>4 DEF Send, IInv
    <2>6. ASSUME NEW i \in 1..Len(wire'), wire'[i].name = "stream" PROVE i = Len(wire')
      <3>1. i \in 1..Len(wire) \/ i = Len(wire')
        BY <2>2
      <3> QED BY <2>2, <2>5, <2>6, <3>1
    <2>7. printed'[calls] = 0 /\ seen' = {} /\ device' = "idle" /\ calls' = calls
      BY <1>4, <2>3 DEF Send, IInv
    <2> QED BY <2>2, <2>4, <2>6, <2>7
  <1>5. CASE StatusTimeout
    BY <1>5 DEF StatusTimeout, End, DeadlineMayPass, IInv
  <1>6. CASE CollectFrame
    BY <1>6 DEF CollectFrame, SeenWith, Confirmed, IInv
  <1>7. CASE FinishPrint
    BY <1>7 DEF FinishPrint, End, CollectEnds, DeadlineMayPass, Verdict, Confirmed, IInv
  <1>8. CASE Reply
    <2>1. /\ Len(frames) \in Nat /\ Len(frames') = Len(frames) + 1
          /\ \A i \in 1..Len(frames) : frames'[i] = frames[i]
          /\ frames'[Len(frames')].kind = "reply"
          /\ frames'[Len(frames')].condition = condition
      BY <1>8, Reported DEF Reply, IInv
    <2>2. /\ Len(wire) \in Nat \ {0} /\ Len(wire') = Len(wire) - 1
          /\ \A i \in 1..Len(wire') : wire'[i] = wire[i + 1]
          /\ wire[1].name = "status"
          /\ wire' # <<>> => Len(wire) # 1
      BY <1>8, CommandTaken DEF Reply, IInv
    <2>3. device' = "halted" => condition' = "error"
      BY <1>8 DEF Reply, IInv
    <2>4. ASSUME pc = "collect"
          PROVE  /\ device = "idle" /\ wire # <<>> /\ wire[Len(wire)].name = "stream"
                 /\ \A i \in 1..Len(wire) : wire[i].name = "stream" =>
                      i = Len(wire) /\ wire[i].call = calls
                 /\ \A i \in 1..Len(frames) :
                      frames[i].kind \notin {"printing", "completed", "waiting"}
      BY <1>8, <2>4 DEF Reply, IInv
    <2>5. ASSUME pc = "collect", NEW i \in 1..Len(wire'), wire'[i].name = "stream"
          PROVE  i = Len(wire') /\ wire'[i].call = calls
      <3>1. i + 1 \in 1..Len(wire) /\ wire'[i] = wire[i + 1]
        BY <2>2
      <3> QED BY <2>2, <2>4, <2>5, <3>1
    <2>6. ASSUME pc = "collect", wire' # <<>> PROVE wire'[Len(wire')].name = "stream"
      <3>1. Len(wire') \in 1..Len(wire')
        BY <2>2, <2>6
      <3>2. wire'[Len(wire')] = wire[Len(wire)]
        BY <2>2, <3>1
      <3> QED BY <2>4, <2>6, <3>2
    <2>7. pc = "collect" => ~Holds({"printing", "completed", "waiting"})'
      <3>1. \A i \in 1..Len(frames') : i \in 1..Len(frames) \/ i = Len(frames')
        BY <2>1
      <3> QED BY <2>1, <2>4, <3>1
    <2> QED BY <1>8, <2>3, <2>4, <2>5, <2>6, <2>7 DEF Reply, IInv
  <1>9. CASE TakeStream
    <2>1. pc' = "collect" /\ wire' = <<>> /\ job' = calls' /\ device' = "receiving"
      BY <1>9, StreamTaken DEF TakeStream, IInv
    <2> QED BY <2>1
  <1>10. CASE PageReply
    BY <1>10 DEF PageReply, Report, IInv
  <1>11. CASE PageStarts
    BY <1>11 DEF PageStarts, Report, IInv
  <1>12. CASE PageDone
    BY <1>12 DEF PageDone, Report, IInv
  <1>13. CASE Ready
    BY <1>13 DEF Ready, Report, IInv
  <1>14. CASE Fail
    BY <1>14 DEF Fail, Report, IInv
  <1>15. CASE Change
    BY <1>15 DEF Change, IInv
  <1>16. CASE Clear
    BY <1>16 DEF Clear, Report, IInv
  <1>17. CASE UNCHANGED vars
    BY <1>17 DEF vars, IInv
  <1>18. CASE RenderFails
    BY <1>18 DEF RenderFails, End, IInv
  <1> QED BY <1>1, <1>2, <1>3, <1>4, <1>5, <1>6, <1>7, <1>8, <1>9, <1>10, <1>11, <1>12,
        <1>13, <1>14, <1>15, <1>16, <1>17, <1>18 DEF Next, Host, Device

\* "Waiting" ends a job, with all pages out or an error before it.
LEMMA WaitingInv_Step ==
  ASSUME IInv, Patient, [Next]_vars
  PROVE  WaitingInv'
  <1> USE DEF TypeOK, hostVars, deviceVars, Command, Frame, Conditions, Calls, QuietInv,
        StreamInv, WaitingInv, PagesInv, ErrorBefore, ErrorReported, Busy, Holds,
        HasErrors
  <1>1. ASSUME NEW method \in {"Status", "PrintJobs"}, StartCall(method) PROVE WaitingInv'
    BY <1>1 DEF StartCall, IInv
  <1>2. CASE ReadStatus
    BY <1>2 DEF ReadStatus, End, IInv
  <1>3. CASE Refuse
    BY <1>3 DEF Refuse, End, IInv
  <1>4. CASE Send
    BY <1>4 DEF Send, IInv
  <1>5. CASE StatusTimeout
    BY <1>5 DEF StatusTimeout, End, DeadlineMayPass, IInv
  <1>6. CASE CollectFrame
    <2>1. /\ Head(frames) = frames[1]
          /\ Len(frames) \in Nat \ {0} /\ Len(frames') = Len(frames) - 1
          /\ Len(frames) = 1 => frames' = <<>>
          /\ \A i \in 1..Len(frames') : frames'[i] = frames[i + 1]
      BY <1>6, Taken DEF CollectFrame, IInv
    <2>2. /\ "error" \in seen' <=> "error" \in seen \/ HasErrors(Head(frames))
          /\ "waiting" \in seen' <=> "waiting" \in seen \/ Head(frames).kind = "waiting"
      BY <1>6, SeenAfter DEF IInv
    <2>3. \A i \in 1..Len(frames) : ErrorBefore(i + 1) => ErrorBefore(i)'
      BY <1>6, ErrorKept DEF IInv
    <2>4. ASSUME "waiting" \in seen'
          PROVE  /\ frames' = <<>> /\ wire = <<>> /\ device = "idle"
                 /\ "error" \in seen' \/ printed[calls] = Pages
      <3>1. CASE "waiting" \in seen
        BY <1>6, <3>1 DEF CollectFrame, IInv
      <3>2. CASE frames[1].kind = "waiting"
        <4>1. 1 \in 1..Len(frames) /\ pc = "collect"
          BY <1>6, <2>1 DEF CollectFrame
        <4>2. /\ 1 = Len(frames) /\ wire = <<>> /\ device = "idle"
              /\ ErrorBefore(1) \/ printed[calls] = Pages
          <5> HIDE DEF ErrorBefore
          <5> QED BY <3>2, <4>1 DEF IInv
        <4> QED BY <2>1, <2>2, <4>2
      <3> QED BY <2>1, <2>2, <2>4, <3>1, <3>2
    <2>5. ASSUME NEW i \in 1..Len(frames'), frames'[i].kind = "waiting"
          PROVE  /\ i = Len(frames') /\ wire = <<>> /\ device = "idle"
                 /\ ErrorBefore(i)' \/ printed[calls] = Pages
      <3>1. i + 1 \in 1..Len(frames) /\ i \in 1..Len(frames) /\ frames[i + 1].kind = "waiting"
        BY <2>1, <2>5
      <3>2. /\ i + 1 = Len(frames) /\ wire = <<>> /\ device = "idle"
            /\ ErrorBefore(i + 1) \/ printed[calls] = Pages
        <4> HIDE DEF ErrorBefore
        <4> QED BY <1>6, <3>1 DEF CollectFrame, IInv
      <3> QED BY <2>1, <2>3, <3>1, <3>2
    <2> QED BY <1>6, <2>4, <2>5 DEF CollectFrame, IInv
  <1>7. CASE FinishPrint
    BY <1>7 DEF FinishPrint, End, CollectEnds, DeadlineMayPass, Verdict, Confirmed, IInv
  <1>8. CASE Reply
    <2>1. /\ Len(frames) \in Nat /\ Len(frames') = Len(frames) + 1
          /\ \A i \in 1..Len(frames) : frames'[i] = frames[i]
          /\ frames'[Len(frames')].kind = "reply"
          /\ frames'[Len(frames')].condition = condition
      BY <1>8, Reported DEF Reply, IInv
    <2>2. ASSUME pc = "collect"
          PROVE  "waiting" \notin seen /\ \A i \in 1..Len(frames) : frames[i].kind # "waiting"
      BY <1>8, <2>2 DEF Reply, IInv
    <2>3. pc = "collect" => \A i \in 1..Len(frames') : frames'[i].kind # "waiting"
      <3>1. \A i \in 1..Len(frames') : i \in 1..Len(frames) \/ i = Len(frames')
        BY <2>1
      <3> QED BY <2>1, <2>2, <3>1
    <2> QED BY <1>8, <2>2, <2>3 DEF Reply, IInv
  <1>9. CASE TakeStream
    <2>1. UNCHANGED <<pc, seen, frames>>
      BY <1>9 DEF TakeStream
    <2>2. "waiting" \notin seen /\ \A i \in 1..Len(frames) : frames[i].kind # "waiting"
      BY <1>9, StreamTaken DEF IInv
    <2> QED BY <2>1, <2>2
  <1>10. CASE PageReply
    BY <1>10 DEF PageReply, Report, IInv
  <1>11. CASE PageStarts
    BY <1>11 DEF PageStarts, Report, IInv
  <1>12. CASE PageDone
    BY <1>12 DEF PageDone, Report, IInv
  <1>13. CASE Ready
    BY <1>13 DEF Ready, Report, IInv
  <1>14. CASE Fail
    <2>1. /\ Len(frames) \in Nat /\ Len(frames') = Len(frames) + 1
          /\ \A i \in 1..Len(frames) : frames'[i] = frames[i]
          /\ frames'[Len(frames')].kind = "failed"
          /\ frames'[Len(frames')].condition = "error"
      BY <1>14, Reported DEF Fail, IInv
    <2>2. ASSUME pc = "collect"
          PROVE  "waiting" \notin seen /\ \A i \in 1..Len(frames) : frames[i].kind # "waiting"
      BY <1>14, <2>2 DEF Fail, IInv
    <2>3. pc = "collect" => \A i \in 1..Len(frames') : frames'[i].kind # "waiting"
      <3>1. \A i \in 1..Len(frames') : i \in 1..Len(frames) \/ i = Len(frames')
        BY <2>1
      <3> QED BY <2>1, <2>2, <3>1
    <2> QED BY <1>14, <2>2, <2>3 DEF Fail, IInv
  <1>15. CASE Change
    BY <1>15 DEF Change, IInv
  <1>16. CASE Clear
    BY <1>16 DEF Clear, Report, IInv
  <1>17. CASE UNCHANGED vars
    BY <1>17 DEF vars, IInv
  <1>18. CASE RenderFails
    BY <1>18 DEF RenderFails, End, IInv
  <1> QED BY <1>1, <1>2, <1>3, <1>4, <1>5, <1>6, <1>7, <1>8, <1>9, <1>10, <1>11, <1>12,
        <1>13, <1>14, <1>15, <1>16, <1>17, <1>18 DEF Next, Host, Device

\* Pages out and pages left make up the job.
LEMMA PagesInv_Step ==
  ASSUME IInv, Patient, [Next]_vars
  PROVE  PagesInv'
  <1> USE DEF TypeOK, hostVars, deviceVars, Command, Frame, Conditions, Calls, QuietInv,
        StreamInv, WaitingInv, PagesInv, ErrorBefore, ErrorReported, Busy, Holds,
        HasErrors
  <1>1. ASSUME NEW method \in {"Status", "PrintJobs"}, StartCall(method) PROVE PagesInv'
    BY <1>1 DEF StartCall, IInv
  <1>2. CASE ReadStatus
    BY <1>2 DEF ReadStatus, End, IInv
  <1>3. CASE Refuse
    BY <1>3 DEF Refuse, End, IInv
  <1>4. CASE Send
    <2>1. /\ Head(frames) = frames[1] /\ Len(frames) \in Nat \ {0}
          /\ Len(frames') = Len(frames) - 1
          /\ \A i \in 1..Len(frames') : frames'[i] = frames[i + 1]
      BY <1>4, Taken DEF Send, IInv
    <2>2. /\ Len(wire') = Len(wire) + 1 /\ Len(wire) \in Nat
          /\ \A i \in 1..Len(wire) : wire'[i] = wire[i]
          /\ wire'[Len(wire')] = [name |-> "stream", call |-> calls]
      BY <1>4, Longer DEF Send, IInv
    <2>3. device = "idle" /\ ~HasErrors(frames[1])
      BY <1>4, <2>1 DEF Send, IInv
    <2>4. \A i \in 1..Len(frames') : frames'[i].kind \notin {"printing", "completed",
          "waiting"}
      BY <1>4, <2>1, <2>3 DEF Send, IInv
    <2> QED BY <1>4, <2>1, <2>2, <2>3, <2>4 DEF Send, IInv
  <1>5. CASE StatusTimeout
    BY <1>5 DEF StatusTimeout, End, DeadlineMayPass, IInv
  <1>6. CASE CollectFrame
    <2>1. /\ Head(frames) = frames[1]
          /\ Len(frames) \in Nat \ {0} /\ Len(frames') = Len(frames) - 1
          /\ Len(frames) = 1 => frames' = <<>>
          /\ \A i \in 1..Len(frames') : frames'[i] = frames[i + 1]
      BY <1>6, Taken DEF CollectFrame, IInv
    <2>2. /\ "error" \in seen' <=> "error" \in seen \/ HasErrors(Head(frames))
          /\ "waiting" \in seen' <=> "waiting" \in seen \/ Head(frames).kind = "waiting"
      BY <1>6, SeenAfter DEF IInv
    <2>3. \A i \in 1..Len(frames) : ErrorBefore(i + 1) => ErrorBefore(i)'
      BY <1>6, ErrorKept DEF IInv
    <2>4. ErrorReported => ErrorReported'
      <3>1. ASSUME NEW n \in 1..Len(frames), n = Len(frames') + 1, ErrorBefore(n)'
            PROVE  ErrorReported'
        BY <3>1
      <3>2. ASSUME NEW n \in 1..Len(frames), n = Len(frames), ErrorBefore(n + 1)
            PROVE  ErrorReported'
        <4> HIDE DEF ErrorBefore, ErrorReported
        <4> QED BY <2>1, <2>3, <3>1, <3>2
      <3>3. Len(frames) \in 1..Len(frames)
        BY <2>1
      <3> HIDE DEF ErrorBefore
      <3> QED BY <3>2, <3>3
    <2> QED BY <1>6, <2>4 DEF CollectFrame, IInv
  <1>7. CASE FinishPrint
    BY <1>7 DEF FinishPrint, End, CollectEnds, DeadlineMayPass, Verdict, Confirmed, IInv
  <1>8. CASE Reply
    BY <1>8 DEF Reply, Report, IInv
  <1>9. CASE TakeStream
    <2>1. UNCHANGED <<calls, pc, seen, frames, printed>> /\ device' = "receiving" /\ left' = Pages
      BY <1>9 DEF TakeStream
    <2>2. pc = "collect" /\ job' = calls /\ printed[calls] = 0
      BY <1>9, StreamTaken DEF IInv
    <2>3. \A c \in Calls : c > calls => printed[c] = 0
      BY DEF IInv
    <2> HIDE DEF ErrorReported
    <2> QED BY <2>1, <2>2, <2>3, PagesAssumption
  <1>10. CASE PageReply
    BY <1>10 DEF PageReply, Report, IInv
  <1>11. CASE PageStarts
    BY <1>11 DEF PageStarts, Report, IInv
  <1>12. CASE PageDone
    <2>1. pc = "collect" /\ job = calls /\ job \in Calls
      BY <1>12 DEF PageDone, IInv
    <2>2. printed'[job] = printed[job] + 1 /\ \A c \in Calls \ {job} : printed'[c] = printed[c]
      BY <1>12, <2>1 DEF PageDone, IInv
    <2>3. left' = left - 1 /\ Busy'
      BY <1>12 DEF PageDone, IInv
    <2>4. printed[job] + left = Pages /\ printed[job] \in Nat /\ left \in Nat
      BY <1>12, <2>1 DEF PageDone, IInv
    <2>5. printed'[job] + left' = Pages
      BY <2>2, <2>3, <2>4
    <2>6. \A c \in Calls : c > calls => printed[c] = 0 /\ c # job
      BY <2>1 DEF IInv
    <2>7. \A c \in Calls : c > calls => printed'[c] = 0
      BY <2>2, <2>6
    <2> QED BY <1>12, <2>1, <2>5, <2>7 DEF PageDone, IInv
  <1>13. CASE Ready
    BY <1>13 DEF Ready, Report, IInv
  <1>14. CASE Fail
    <2>1. /\ Len(frames) \in Nat /\ Len(frames') = Len(frames) + 1
          /\ \A i \in 1..Len(frames) : frames'[i] = frames[i]
          /\ frames'[Len(frames')].kind = "failed"
          /\ frames'[Len(frames')].condition = "error"
      BY <1>14, Reported DEF Fail, IInv
    <2>2. ErrorReported'
      BY <2>1
    <2> QED BY <1>14, <2>2 DEF Fail, IInv
  <1>15. CASE Change
    BY <1>15 DEF Change, IInv
  <1>16. CASE Clear
    BY <1>16 DEF Clear, Report, IInv
  <1>17. CASE UNCHANGED vars
    BY <1>17 DEF vars, IInv
  <1>18. CASE RenderFails
    BY <1>18 DEF RenderFails, End, IInv
  <1> QED BY <1>1, <1>2, <1>3, <1>4, <1>5, <1>6, <1>7, <1>8, <1>9, <1>10, <1>11, <1>12,
        <1>13, <1>14, <1>15, <1>16, <1>17, <1>18 DEF Next, Host, Device

\* A call has no result before it ends.
LEMMA ResultInv_Step ==
  ASSUME IInv, Patient, [Next]_vars
  PROVE  ResultInv'
  <1> USE DEF TypeOK, hostVars, deviceVars, Command, Frame, Conditions, Calls, QuietInv,
        StreamInv, WaitingInv, PagesInv, ErrorBefore, ErrorReported, Busy, Holds,
        HasErrors, ResultInv
  <1>1. ASSUME NEW method \in {"Status", "PrintJobs"}, StartCall(method) PROVE ResultInv'
    BY <1>1 DEF StartCall, IInv
  <1>2. CASE ReadStatus
    BY <1>2 DEF ReadStatus, End, IInv
  <1>3. CASE Refuse
    BY <1>3 DEF Refuse, End, IInv
  <1>4. CASE Send
    BY <1>4 DEF Send, IInv
  <1>5. CASE StatusTimeout
    BY <1>5 DEF StatusTimeout, End, DeadlineMayPass, IInv
  <1>6. CASE CollectFrame
    BY <1>6 DEF CollectFrame, SeenWith, Confirmed, IInv
  <1>7. CASE FinishPrint
    BY <1>7 DEF FinishPrint, End, CollectEnds, DeadlineMayPass, Verdict, Confirmed, IInv
  <1>8. CASE Reply
    BY <1>8 DEF Reply, Report, IInv
  <1>9. CASE TakeStream
    BY <1>9 DEF TakeStream, IInv
  <1>10. CASE PageReply
    BY <1>10 DEF PageReply, Report, IInv
  <1>11. CASE PageStarts
    BY <1>11 DEF PageStarts, Report, IInv
  <1>12. CASE PageDone
    BY <1>12 DEF PageDone, Report, IInv
  <1>13. CASE Ready
    BY <1>13 DEF Ready, Report, IInv
  <1>14. CASE Fail
    BY <1>14 DEF Fail, Report, IInv
  <1>15. CASE Change
    BY <1>15 DEF Change, IInv
  <1>16. CASE Clear
    BY <1>16 DEF Clear, Report, IInv
  <1>17. CASE UNCHANGED vars
    BY <1>17 DEF vars, IInv
  <1>18. CASE RenderFails
    BY <1>18 DEF RenderFails, End, IInv
  <1> QED BY <1>1, <1>2, <1>3, <1>4, <1>5, <1>6, <1>7, <1>8, <1>9, <1>10, <1>11, <1>12,
        <1>13, <1>14, <1>15, <1>16, <1>17, <1>18 DEF Next, Host, Device

\* A verdict of "confirmed" is right (printer.go:157-180).
LEMMA ConfirmedIsPrinted_Step ==
  ASSUME IInv, Patient, [Next]_vars
  PROVE  ConfirmedIsPrinted'
  <1> USE DEF TypeOK, hostVars, deviceVars, Command, Frame, Conditions, Calls, QuietInv,
        StreamInv, WaitingInv, PagesInv, ErrorBefore, ErrorReported, Busy, Holds,
        HasErrors, ConfirmedIsPrinted, ResultInv
  <1>1. ASSUME NEW method \in {"Status", "PrintJobs"}, StartCall(method) PROVE
        ConfirmedIsPrinted'
    BY <1>1 DEF StartCall, IInv
  <1>2. CASE ReadStatus
    BY <1>2 DEF ReadStatus, End, IInv
  <1>3. CASE Refuse
    BY <1>3 DEF Refuse, End, IInv
  <1>4. CASE Send
    BY <1>4 DEF Send, IInv
  <1>5. CASE StatusTimeout
    BY <1>5 DEF StatusTimeout, End, DeadlineMayPass, IInv
  <1>6. CASE CollectFrame
    BY <1>6 DEF CollectFrame, SeenWith, Confirmed, IInv
  <1>7. CASE FinishPrint
    BY <1>7 DEF FinishPrint, End, CollectEnds, DeadlineMayPass, Verdict, Confirmed, IInv
  <1>8. CASE Reply
    BY <1>8 DEF Reply, Report, IInv
  <1>9. CASE TakeStream
    BY <1>9 DEF TakeStream, IInv
  <1>10. CASE PageReply
    BY <1>10 DEF PageReply, Report, IInv
  <1>11. CASE PageStarts
    BY <1>11 DEF PageStarts, Report, IInv
  <1>12. CASE PageDone
    BY <1>12 DEF PageDone, Report, IInv
  <1>13. CASE Ready
    BY <1>13 DEF Ready, Report, IInv
  <1>14. CASE Fail
    BY <1>14 DEF Fail, Report, IInv
  <1>15. CASE Change
    BY <1>15 DEF Change, IInv
  <1>16. CASE Clear
    BY <1>16 DEF Clear, Report, IInv
  <1>17. CASE UNCHANGED vars
    BY <1>17 DEF vars, IInv
  <1>18. CASE RenderFails
    BY <1>18 DEF RenderFails, End, IInv
  <1> QED BY <1>1, <1>2, <1>3, <1>4, <1>5, <1>6, <1>7, <1>8, <1>9, <1>10, <1>11, <1>12,
        <1>13, <1>14, <1>15, <1>16, <1>17, <1>18 DEF Next, Host, Device

-----------------------------------------------------------------------------
\* What holds when the Printer is opened.
LEMMA InitEstablishes == Init => IInv
  <1> SUFFICES ASSUME Init PROVE IInv
    OBVIOUS
  <1>1. TypeOK
    BY DEF Init, TypeOK, Calls, Conditions
  <1>2. QuietInv /\ StreamInv /\ WaitingInv
    BY DEF Init, QuietInv, StreamInv, WaitingInv, Busy, Holds
  <1>3. PagesInv /\ ResultInv /\ ConfirmedIsPrinted
    BY DEF Init, PagesInv, ResultInv, ConfirmedIsPrinted
  <1> QED BY <1>1, <1>2, <1>3 DEF IInv

\* The inductive invariant: which frames and commands can be under way in each
\* phase of a call (printer.go:122-180, 307-393).
THEOREM Invariance == ASSUME Patient PROVE Spec => []IInv
  <1>1. ASSUME IInv, [Next]_vars PROVE IInv'
    <2>1. TypeOK'
      BY <1>1, TypeOK_Step DEF IInv
    <2>2. QuietInv' /\ StreamInv' /\ WaitingInv'
      BY <1>1, QuietInv_Step, StreamInv_Step, WaitingInv_Step
    <2>3. PagesInv' /\ ResultInv' /\ ConfirmedIsPrinted'
      BY <1>1, PagesInv_Step, ResultInv_Step, ConfirmedIsPrinted_Step
    <2> QED BY <2>1, <2>2, <2>3 DEF IInv
  <1> QED BY <1>1, InitEstablishes, PTL DEF Spec

\* The state stays well-formed: no page too many is taken from a stream.
THEOREM TypeCorrect == Spec => []TypeOK
  <1>1. Init => TypeOK
    BY InitEstablishes DEF IInv
  <1>2. TypeOK /\ [Next]_vars => TypeOK'
    BY TypeOK_Step
  <1> QED BY <1>1, <1>2, PTL DEF Spec

\* As long as no deadline passes while the device is at work, a print call that
\* returns without an error has had all its pages come out.
THEOREM Confirms == ASSUME Patient PROVE Spec => []ConfirmedIsPrinted
  <1>1. IInv => ConfirmedIsPrinted
    BY DEF IInv
  <1> QED BY <1>1, Invariance, PTL

\* Under the same condition a call leaves no stream, no page under way and no
\* unread "printing completed" behind for the next one.
THEOREM LeavesNothing == ASSUME Patient PROVE Spec => []NothingLeftOver
  <1>1. IInv => NothingLeftOver
    BY DEF IInv, TypeOK, QuietInv, NothingLeftOver, Busy
  <1> QED BY <1>1, Invariance, PTL

=============================================================================
