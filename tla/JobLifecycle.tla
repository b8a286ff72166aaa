---------------------------- MODULE JobLifecycle ----------------------------
(***************************************************************************)
(* What the IPP server promises a client about one job, whatever the       *)
(* goroutines behind it do: RFC 8011's job states as this server uses them *)
(* (pkg/ipp/job.go), and when label data may reach the printer.            *)
(* IPPJobs implements this specification (its property Lifecycle).         *)
(***************************************************************************)

CONSTANT Jobs  \* the job ids a store can hold

VARIABLES
  state,       \* state[j]: "absent" until the job is created, then its job-state
  prints       \* prints[j]: how often label data of job j went to the printer

jobVars == <<state, prints>>

Terminal == {"completed", "aborted", "canceled"}

Init ==
  /\ state = [j \in Jobs |-> "absent"]
  /\ prints = [j \in Jobs |-> 0]

Submit(j) ==
  /\ state[j] = "absent"
  /\ state' = [state EXCEPT ![j] = "pending"]
  /\ UNCHANGED prints

Process(j) ==
  /\ state[j] = "pending"
  /\ state' = [state EXCEPT ![j] = "processing"]
  /\ UNCHANGED prints

\* Label data leaves only while the job is processing, and only once.
PrintLabel(j) ==
  /\ state[j] = "processing"
  /\ prints[j] = 0
  /\ prints' = [prints EXCEPT ![j] = 1]
  /\ UNCHANGED state

\* Only a job whose data went out may be reported completed.
Finish(j) ==
  /\ state[j] = "processing"
  /\ \E t \in Terminal :
       /\ t = "completed" => prints[j] = 1
       /\ state' = [state EXCEPT ![j] = t]
  /\ UNCHANGED prints

\* A job that has not begun is canceled without printing anything.
Cancel(j) ==
  /\ state[j] = "pending"
  /\ state' = [state EXCEPT ![j] = "canceled"]
  /\ UNCHANGED prints

Next ==
  \E j \in Jobs : Submit(j) \/ Process(j) \/ PrintLabel(j) \/ Finish(j) \/ Cancel(j)

Spec == Init /\ [][Next]_jobVars

\* A job that begins processing reaches a final state.
FairSpec == Spec /\ \A j \in Jobs : WF_jobVars(Finish(j))

=============================================================================
