----------------------------- MODULE PrinterPool -----------------------------
(***************************************************************************)
(* The daemon's printer connection: printerPool and its users in           *)
(* cmd/ql570/daemon.go, the mutex of ql.Printer (pkg/ql/printer.go) and    *)
(* the device handle of USBBackend (pkg/ql/backend_linux.go).              *)
(*                                                                         *)
(* A request gets the pool's current connection, uses it under the         *)
(* connection's own mutex, and after some failures tells the pool to       *)
(* invalidate "the" connection.  The printer can be unplugged and plugged  *)
(* in at any moment.  A connection id stands for a *ql.Printer and is used *)
(* again once nothing refers to the Printer any more.                      *)
(***************************************************************************)
EXTENDS Naturals, FiniteSets

CONSTANTS
  Requests,     \* HTTP handlers and IPP goroutines that use the printer
  NoRequest,    \* a mutex is free
  Conns,        \* connections (*ql.Printer) alive at one time
  NoConn,       \* the pool, or a request, has no connection
  Traffic,      \* the operations clients ask for
  Poll          \* the operation some client repeats for ever

\* "print" is /v1/print and the IPP goroutine's PrintJobs, which fail alike.
Ops == {"status", "print", "ippStatus"}

ASSUME RequestsAssumption == NoRequest \notin Requests
ASSUME ConnsAssumption == NoConn \notin Conns
ASSUME TrafficAssumption == Traffic \subseteq Ops /\ Poll \in Traffic

VARIABLES
  plugged,      \* the printer is on the bus
  lingering,    \* a write given up on still holds the device
  current,      \* printerPool.p
  poolMu,       \* printerPool.mu: the request that holds it across a wait
  mu,           \* Printer.mu of a connection
  file,         \* USBBackend.f of a connection: "dead" since an unplug
  pc, op, conn, \* where a request is, what it does, and the Printer it got
  cause         \* why it failed: the device did not answer, or refused

poolVars == <<current, poolMu>>
deviceVars == <<plugged, lingering>>
requestVars == <<pc, op, conn, cause>>
vars == <<deviceVars, poolVars, mu, file, requestVars>>

FileStates == {"open", "dead", "closed", "nil"}
InPrinter == {"query", "preflight", "send", "collect", "reset"}
Pcs == {"idle", "get", "lock", "invalidate", "closing"} \union InPrinter
Causes == {"none", "noAnswer", "refused"}

TypeOK ==
  /\ plugged \in BOOLEAN /\ lingering \in BOOLEAN
  /\ current \in Conns \union {NoConn}
  /\ poolMu \in Requests \union {NoRequest}
  /\ mu \in [Conns -> Requests \union {NoRequest}]
  /\ file \in [Conns -> FileStates]
  /\ pc \in [Requests -> Pcs]
  /\ op \in [Requests -> Ops]
  /\ conn \in [Requests -> Conns \union {NoConn}]
  /\ cause \in [Requests -> Causes]
  /\ \A r \in Requests : conn[r] = NoConn <=> pc[r] \in {"idle", "get"}

Init ==
  /\ plugged \in BOOLEAN
  /\ lingering = FALSE
  /\ current = NoConn
  /\ poolMu = NoRequest
  /\ mu = [c \in Conns |-> NoRequest]
  /\ file = [c \in Conns |-> "nil"]
  /\ pc = [r \in Requests |-> "idle"]
  /\ op = [r \in Requests |-> Poll]
  /\ conn = [r \in Requests |-> NoConn]
  /\ cause = [r \in Requests |-> "none"]

-----------------------------------------------------------------------------
(* The device, as OpenUSB and USBBackend meet it.  The usblp driver admits *)
(* one open handle; a handle that was open at an unplug never works again. *)
(* X_Y is a deliberate mistake in X.                                       *)

HoldsDevice(c) == file[c] = "open"

\* os.OpenFile of the device path would succeed for connection c.
CanOpen(c) == plugged /\ ~lingering /\ \A d \in Conns \ {c} : ~HoldsDevice(d)

Unplug ==
  /\ plugged
  /\ plugged' = FALSE
  /\ lingering' = FALSE
  /\ file' = [c \in Conns |-> IF HoldsDevice(c) THEN "dead" ELSE file[c]]
  /\ UNCHANGED <<poolVars, mu, requestVars>>

Plug ==
  /\ ~plugged
  /\ plugged' = TRUE
  /\ UNCHANGED <<lingering, poolVars, mu, file, requestVars>>

\* The kernel ends the write that was given up on.
LingeringEnds ==
  /\ lingering
  /\ lingering' = FALSE
  /\ UNCHANGED <<plugged, poolVars, mu, file, requestVars>>

-----------------------------------------------------------------------------
(* printerPool                                                             *)

\* A Printer nothing refers to: the next Open may allocate it.
Unreferenced(c) == c # current /\ \A r \in Requests : conn[r] # c

PoolIsFree == poolMu = NoRequest

\* tryOpen, from retryLoop's ticker: nothing to do, no device, or connected.
TryOpen ==
  /\ PoolIsFree
  /\ current = NoConn
  /\ \E c \in Conns :
       /\ Unreferenced(c) /\ CanOpen(c)
       /\ current' = c
       /\ file' = [file EXCEPT ![c] = "open"]
  /\ UNCHANGED <<deviceVars, poolMu, mu, requestVars>>

End(r) ==
  /\ pc' = [pc EXCEPT ![r] = "idle"]
  /\ conn' = [conn EXCEPT ![r] = NoConn]
  /\ cause' = [cause EXCEPT ![r] = "none"]
  /\ UNCHANGED op

Goto(r, to) ==
  /\ pc' = [pc EXCEPT ![r] = to]
  /\ UNCHANGED <<op, conn, cause>>

\* get, then the refusal of a request while nothing is connected.
Get(r) ==
  /\ pc[r] = "get"
  /\ PoolIsFree
  /\ \/ current = NoConn /\ End(r)
     \/ /\ current # NoConn
        /\ pc' = [pc EXCEPT ![r] = "lock"]
        /\ conn' = [conn EXCEPT ![r] = current]
        /\ UNCHANGED <<op, cause>>
  /\ UNCHANGED <<deviceVars, poolVars, mu, file>>

\* invalidate takes pp.mu and keeps it while Close waits for Printer.mu.
InvalidateLock(r) ==
  /\ pc[r] = "invalidate"
  /\ PoolIsFree
  /\ \/ current = NoConn /\ End(r) /\ UNCHANGED poolMu
     \/ current # NoConn /\ Goto(r, "closing") /\ poolMu' = r
  /\ UNCHANGED <<deviceVars, current, mu, file>>

\* Printer.Close under Printer.mu: a nil file stays nil.
CloseFile_Skipped(c) == UNCHANGED file
CloseFile(c) ==
  file' = [file EXCEPT ![c] = IF @ = "nil" THEN "nil" ELSE "closed"]

PrinterIsFree_Ignored(c) == TRUE
PrinterIsFree(c) == mu[c] = NoRequest

InvalidateClose(r) ==
  /\ pc[r] = "closing"
  /\ PrinterIsFree(current)
  /\ CloseFile(current)
  /\ current' = NoConn
  /\ poolMu' = NoRequest
  /\ End(r)
  /\ UNCHANGED <<deviceVars, mu>>

-----------------------------------------------------------------------------
(* ql.Printer: Status and PrintJobs hold Printer.mu from first to last.    *)

Begin(r, o) ==
  /\ pc[r] = "idle"
  /\ pc' = [pc EXCEPT ![r] = "get"]
  /\ op' = [op EXCEPT ![r] = o]
  /\ UNCHANGED <<deviceVars, poolVars, mu, file, conn, cause>>

\* A job that cannot be read or is not valid ends before Printer.mu.
RejectJob(r) ==
  /\ pc[r] = "lock"
  /\ op[r] = "print"
  /\ End(r)
  /\ UNCHANGED <<deviceVars, poolVars, mu, file>>

LockPrinter(r) ==
  /\ pc[r] = "lock"
  /\ PrinterIsFree(conn[r])
  /\ mu' = [mu EXCEPT ![conn[r]] = r]
  /\ Goto(r, IF op[r] \in {"status", "ippStatus"} THEN "query" ELSE "preflight")
  /\ UNCHANGED <<deviceVars, poolVars, file>>

Unlock_Forgotten(r) == UNCHANGED mu
Unlock(r) == mu' = [mu EXCEPT ![conn[r]] = NoRequest]

Answers(r) == HoldsDevice(conn[r])

\* A write or a read fails; a write that times out closes the file and either
\* reopens it or leaves the device held.
NoAnswer(r) ==
  \/ UNCHANGED <<file, lingering>>
  \/ /\ HoldsDevice(conn[r])
     /\ file' = [file EXCEPT ![conn[r]] = "closed"]
     /\ lingering' = TRUE

\* The failed call returned to its caller: does the caller invalidate?
Invalidates_NeverStatus(r) == op[r] = "print"
Invalidates(r) == op[r] # "ippStatus"

Fail(r, why) ==
  /\ Unlock(r)
  /\ \/ /\ Invalidates(r)
        /\ pc' = [pc EXCEPT ![r] = "invalidate"]
        /\ cause' = [cause EXCEPT ![r] = why]
        /\ UNCHANGED <<op, conn>>
     \/ ~Invalidates(r) /\ End(r)

\* statusLocked for Status or Info.
Query(r) ==
  /\ pc[r] = "query"
  /\ \/ Answers(r) /\ Unlock(r) /\ End(r) /\ UNCHANGED <<file, lingering>>
     \/ NoAnswer(r) /\ Fail(r, "noAnswer")
  /\ UNCHANGED <<plugged, poolVars>>

\* PrintJobs before any data: no status, errors, wrong media, or a label that
\* cannot be rendered.
Preflight(r) ==
  /\ pc[r] = "preflight"
  /\ \/ NoAnswer(r) /\ Fail(r, "noAnswer")
     \/ Answers(r) /\ Fail(r, "refused") /\ UNCHANGED <<file, lingering>>
     \/ Answers(r) /\ Unlock(r) /\ End(r) /\ UNCHANGED <<file, lingering>>
     \/ /\ Answers(r)
        /\ \/ Goto(r, "send")
           \/ /\ pc' = [pc EXCEPT ![r] = "reset"]
              /\ cause' = [cause EXCEPT ![r] = "refused"]
              /\ UNCHANGED <<op, conn>>
        /\ UNCHANGED <<mu, file, lingering>>
  /\ UNCHANGED <<plugged, poolVars>>

\* writeAll of the raster stream.
Send(r) ==
  /\ pc[r] = "send"
  /\ \/ Answers(r) /\ Goto(r, "collect") /\ UNCHANGED <<file, lingering>>
     \/ /\ NoAnswer(r)
        /\ pc' = [pc EXCEPT ![r] = "reset"]
        /\ cause' = [cause EXCEPT ![r] = "noAnswer"]
        /\ UNCHANGED <<op, conn>>
  /\ UNCHANGED <<plugged, poolVars, mu>>

\* collectStatuses: confirmed, or unconfirmed which no caller acts on; no
\* status at all; or errors reported by the printer.
Collect(r) ==
  /\ pc[r] = "collect"
  /\ \/ Unlock(r) /\ End(r)
     \/ Fail(r, "noAnswer")
     \/ /\ pc' = [pc EXCEPT ![r] = "reset"]
        /\ cause' = [cause EXCEPT ![r] = "refused"]
        /\ UNCHANGED <<mu, op, conn>>
  /\ UNCHANGED <<deviceVars, poolVars, file>>

\* resetUSB: close and open again; without a device the file stays nil.
Reset(r) ==
  /\ pc[r] = "reset"
  /\ file' = [file EXCEPT ![conn[r]] = IF CanOpen(conn[r]) THEN "open" ELSE "nil"]
  /\ Fail(r, cause[r])
  /\ UNCHANGED <<deviceVars, poolVars>>

-----------------------------------------------------------------------------
Step(r) ==
  \/ Get(r) \/ RejectJob(r) \/ LockPrinter(r) \/ Query(r) \/ Preflight(r) \/ Send(r)
  \/ Collect(r) \/ Reset(r) \/ InvalidateLock(r) \/ InvalidateClose(r)

Environment == Unplug \/ Plug \/ LingeringEnds

Next ==
  \/ Environment \/ TryOpen
  \/ \E r \in Requests : Step(r) \/ \E o \in Traffic : Begin(r, o)

Spec == Init /\ [][Next]_vars

(* Every call ends within its timeouts; a sync.Mutex that is free again    *)
(* and again comes to each of its waiters (it goes to the longest waiter   *)
(* after 1 ms), hence strong fairness; the ticker ticks, the kernel ends   *)
(* the writes of a closed file, and some client polls (the web UI does,    *)
(* every 5 s: index.html:1190).                                            *)
Fairness ==
  /\ WF_vars(TryOpen)
  /\ WF_vars(LingeringEnds)
  /\ SF_vars(\E r \in Requests : Begin(r, Poll))
  /\ \A r \in Requests : SF_vars(Step(r))

FairSpec == Spec /\ Fairness

-----------------------------------------------------------------------------
(* Properties.                                                             *)

\* The device is held by the pool's connection only: no Printer that was
\* closed holds or regains a handle, which would lock out every later open
\* (daemon.go:361-397, printer.go:222-229).
HandleOwned == \A c \in Conns : HoldsDevice(c) => c = current

Printing(r) == pc[r] \in {"send", "collect", "reset"}

\* Two jobs are never on the wire together, across a reconnect included,
\* where the requests hold the mutexes of different Printers (printer.go:122).
JobsDoNotOverlap == \A r, s \in Requests : Printing(r) /\ Printing(s) => r = s

\* Every request is answered: pp.mu is held while waiting for Printer.mu,
\* never the other way round (daemon.go:388-397, 127-129).
RequestsEnd == \A r \in Requests : pc[r] # "idle" ~> pc[r] = "idle"

Connected == current # NoConn /\ HoldsDevice(current)

\* A printer that stays plugged in is connected again and again, however it
\* was unplugged before: "the connection is retried every 10 seconds"
\* (README.md:198-201, daemon.go:346-349).
Recovers == <>[]plugged => []<>Connected

-----------------------------------------------------------------------------
(* The inductive invariant behind HandleOwned and JobsDoNotOverlap.        *)

\* Who holds a mutex is inside the calls that take it, with that Printer.
MutexInv ==
  /\ \A r \in Requests : pc[r] \in InPrinter => mu[conn[r]] = r
  /\ \A r \in Requests, c \in Conns : mu[c] = r => pc[r] \in InPrinter /\ conn[r] = c
  /\ \A r \in Requests : pc[r] = "closing" <=> poolMu = r
  /\ \A r \in Requests : pc[r] = "closing" => current # NoConn

\* A job that passed its preflight check is on the pool's connection, which
\* cannot be closed before the job ends.
PrintingInv == \A r \in Requests : Printing(r) => conn[r] = current

\* Why a closed Printer never reopens the device (daemon.go:388-397,
\* printer.go:122-180).
IInv == TypeOK /\ MutexInv /\ PrintingInv /\ HandleOwned

=============================================================================
