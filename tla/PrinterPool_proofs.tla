------------------------- MODULE PrinterPool_proofs -------------------------
(***************************************************************************)
(* Theorems about PrinterPool, for any sets of requests and connections.   *)
(***************************************************************************)
EXTENDS PrinterPool, TLAPS

USE RequestsAssumption, ConnsAssumption, TrafficAssumption

\* What holds when the daemon starts (daemon.go:63-66).
LEMMA InitEstablishes == Init => IInv
  <1> SUFFICES ASSUME Init PROVE IInv
    OBVIOUS
  <1>1. plugged \in BOOLEAN /\ lingering \in BOOLEAN
    BY DEF Init
  <1> QED BY <1>1 DEF Init, IInv, TypeOK, MutexInv, PrintingInv, HandleOwned, Printing,
            HoldsDevice, FileStates, InPrinter, Pcs, Causes, Ops

\* A request inside the Printer, or past it, has one of the connections.
LEMMA ConnOfRequest ==
  ASSUME IInv, NEW r \in Requests, pc[r] \notin {"idle", "get"}
  PROVE  conn[r] \in Conns
  BY DEF IInv, TypeOK

\* Whatever happens to a file, only the pool's connection holds the device.
LEMMA OwnedStays ==
  ASSUME IInv, NEW c \in Conns, NEW f \in FileStates,
         file' = [file EXCEPT ![c] = f], current' = current, f = "open" => c = current
  PROVE  HandleOwned'
  BY DEF IInv, TypeOK, HandleOwned, HoldsDevice

-----------------------------------------------------------------------------
USE DEF FileStates, InPrinter, Pcs, Causes, Ops, HoldsDevice, Printing, poolVars,
        deviceVars, requestVars

\* The environment and the retry loop (daemon.go:361-378, 404-416).
LEMMA OutsideSteps == ASSUME IInv, Environment \/ TryOpen PROVE IInv'
  <1> USE DEF IInv, TypeOK, MutexInv, PrintingInv, HandleOwned
  <1>1. CASE Unplug
    <2>1. plugged' \in BOOLEAN /\ lingering' \in BOOLEAN
      BY <1>1 DEF Unplug
    <2> QED BY <1>1, <2>1 DEF Unplug
  <1>2. CASE Plug
    BY <1>2 DEF Plug
  <1>3. CASE LingeringEnds
    <2>1. lingering' \in BOOLEAN
      BY <1>3 DEF LingeringEnds
    <2> QED BY <1>3, <2>1 DEF LingeringEnds
  <1>4. CASE TryOpen
    <2>1. PICK c \in Conns : /\ Unreferenced(c) /\ CanOpen(c) /\ current' = c
                             /\ file' = [file EXCEPT ![c] = "open"]
      BY <1>4 DEF TryOpen
    <2>2. /\ current = NoConn
          /\ UNCHANGED <<deviceVars, poolMu, mu, requestVars>>
      BY <1>4 DEF TryOpen
    <2>3. \A r \in Requests : ~Printing(r)
      BY <2>2
    <2> QED BY <2>1, <2>2, <2>3
  <1> QED BY <1>1, <1>2, <1>3, <1>4 DEF Environment

\* Steps of a request outside Printer.mu (daemon.go:117-139, 381-397).
LEMMA PoolSteps ==
  ASSUME IInv, NEW r \in Requests,
         \/ Get(r) \/ RejectJob(r) \/ InvalidateLock(r) \/ InvalidateClose(r)
         \/ \E o \in Traffic : Begin(r, o)
  PROVE  IInv'
  <1> USE DEF IInv, TypeOK, MutexInv, PrintingInv, HandleOwned
  <1>1. CASE Get(r)
    <2>1. CASE current = NoConn
      BY <1>1, <2>1 DEF Get, End
    <2>2. CASE current # NoConn
      BY <1>1, <2>2 DEF Get
    <2> QED BY <2>1, <2>2
  <1>2. CASE InvalidateLock(r)
    <2>1. CASE current = NoConn
      BY <1>2, <2>1 DEF InvalidateLock, End, PoolIsFree
    <2>2. CASE current # NoConn
      BY <1>2, <2>2 DEF InvalidateLock, Goto, PoolIsFree
    <2> QED BY <2>1, <2>2
  <1>3. CASE InvalidateClose(r)
    <2>1. current \in Conns /\ mu[current] = NoRequest
      BY <1>3 DEF InvalidateClose, PrinterIsFree
    <2>2. \A s \in Requests : ~Printing(s)
      BY <2>1
    <2>3. \A c \in Conns : file'[c] # "open"
      BY <1>3, <2>1 DEF InvalidateClose, CloseFile
    <2> QED BY <1>3, <2>1, <2>2, <2>3 DEF InvalidateClose, CloseFile, End
  <1>4. CASE \E o \in Traffic : Begin(r, o)
    BY <1>4 DEF Begin
  <1>5. CASE RejectJob(r)
    BY <1>5 DEF RejectJob, End
  <1> QED BY <1>1, <1>2, <1>3, <1>4, <1>5

\* What a step of a request inside Printer.mu may change: the file of its own
\* connection, which it opens only when that connection is the pool's.
Inside(r) ==
  /\ pc[r] \in InPrinter
  /\ UNCHANGED <<plugged, poolVars, op>>
  /\ lingering' \in BOOLEAN
  /\ \E f \in FileStates :
       /\ file' = [file EXCEPT ![conn[r]] = f]
       /\ f = "open" => conn[r] = current
  /\ cause' \in [Requests -> Causes]
  /\ \/ \* still inside
        /\ pc' \in {[pc EXCEPT ![r] = p] : p \in {"send", "collect", "reset"}}
        /\ conn[r] = current
        /\ UNCHANGED <<conn, mu>>
     \/ \* on the way to invalidate
        /\ pc' = [pc EXCEPT ![r] = "invalidate"]
        /\ UNCHANGED conn
        /\ Unlock(r)
     \/ \* answered
        /\ pc' = [pc EXCEPT ![r] = "idle"]
        /\ conn' = [conn EXCEPT ![r] = NoConn]
        /\ Unlock(r)

\* Such a step keeps the invariant (printer.go:46-50, 122-180).
LEMMA InsideKeeps == ASSUME IInv, NEW r \in Requests, Inside(r) PROVE IInv'
  <1> USE DEF IInv, TypeOK, MutexInv, PrintingInv
  <1>1. conn[r] \in Conns /\ mu[conn[r]] = r /\ poolMu # r
    BY DEF Inside
  <1>2. HandleOwned'
    BY <1>1, OwnedStays DEF Inside
  <1>3. file' \in [Conns -> FileStates]
    BY DEF Inside
  <1>4. CASE /\ pc' \in {[pc EXCEPT ![r] = p] : p \in {"send", "collect", "reset"}}
             /\ conn[r] = current
             /\ UNCHANGED <<conn, mu>>
    BY <1>1, <1>2, <1>3, <1>4 DEF Inside
  <1>5. CASE /\ pc' = [pc EXCEPT ![r] = "invalidate"]
             /\ UNCHANGED conn
             /\ Unlock(r)
    BY <1>1, <1>2, <1>3, <1>5 DEF Inside, Unlock
  <1>6. CASE /\ pc' = [pc EXCEPT ![r] = "idle"]
             /\ conn' = [conn EXCEPT ![r] = NoConn]
             /\ Unlock(r)
    BY <1>1, <1>2, <1>3, <1>6 DEF Inside, Unlock
  <1> QED BY <1>4, <1>5, <1>6 DEF Inside

\* Status and PrintJobs take only such steps (printer.go:46-50, 122-180).
LEMMA PrinterSteps ==
  ASSUME IInv, NEW r \in Requests,
         Query(r) \/ Preflight(r) \/ Send(r) \/ Collect(r) \/ Reset(r)
  PROVE  Inside(r)
  <1> USE DEF Inside
  <1>1. /\ conn[r] \in Conns
        /\ file \in [Conns -> FileStates] /\ lingering \in BOOLEAN
        /\ pc \in [Requests -> Pcs] /\ conn \in [Requests -> Conns \union {NoConn}]
        /\ cause \in [Requests -> Causes]
        /\ file[conn[r]] = "open" => conn[r] = current
        /\ Printing(r) => conn[r] = current
    BY DEF IInv, TypeOK, Query, Preflight, Send, Collect, Reset, HandleOwned, PrintingInv
  <1>2. file = [file EXCEPT ![conn[r]] = file[conn[r]]] /\ file[conn[r]] \in FileStates
    BY <1>1
  <1>3. NoAnswer(r) => /\ lingering' \in BOOLEAN
                       /\ \E f \in FileStates : /\ file' = [file EXCEPT ![conn[r]] = f]
                                                /\ f = "open" => conn[r] = current
    BY <1>1, <1>2 DEF NoAnswer
  <1>4. \A why \in Causes : Fail(r, why) =>
          /\ cause' \in [Requests -> Causes]
          /\ op' = op
          /\ \/ pc' = [pc EXCEPT ![r] = "invalidate"] /\ UNCHANGED conn /\ Unlock(r)
             \/ /\ pc' = [pc EXCEPT ![r] = "idle"]
                /\ conn' = [conn EXCEPT ![r] = NoConn]
                /\ Unlock(r)
    BY <1>1 DEF Fail, End
  <1>5. CASE Query(r)
    BY <1>1, <1>2, <1>3, <1>4, <1>5 DEF Query, End
  <1>6. CASE Preflight(r)
    BY <1>1, <1>2, <1>3, <1>4, <1>6 DEF Preflight, End, Goto, Answers
  <1>7. CASE Send(r)
    BY <1>1, <1>2, <1>3, <1>7 DEF Send, Goto
  <1>8. CASE Collect(r)
    BY <1>1, <1>2, <1>4, <1>8 DEF Collect, End
  <1>9. CASE Reset(r)
    BY <1>1, <1>4, <1>9 DEF Reset
  <1> QED BY <1>5, <1>6, <1>7, <1>8, <1>9

\* A request enters the Printer when the mutex is free (printer.go:47, 122).
LEMMA LockStep == ASSUME IInv, NEW r \in Requests, LockPrinter(r) PROVE IInv'
  <1>1. conn[r] \in Conns /\ mu[conn[r]] = NoRequest /\ pc[r] = "lock"
    BY ConnOfRequest DEF LockPrinter, PrinterIsFree
  <1>2. PICK p \in {"query", "preflight"} : pc' = [pc EXCEPT ![r] = p]
    BY DEF LockPrinter, Goto
  <1> QED BY <1>1, <1>2 DEF LockPrinter, Goto, IInv, TypeOK, MutexInv, PrintingInv, HandleOwned

\* The inductive invariant: who holds which mutex and the device, and who is
\* printing (daemon.go:350-397, printer.go:122-180).
THEOREM Invariance == Spec => []IInv
  <1>1. IInv /\ [Next]_vars => IInv'
    <2> SUFFICES ASSUME IInv, [Next]_vars PROVE IInv'
      OBVIOUS
    <2>1. CASE UNCHANGED vars
      BY <2>1 DEF vars, IInv, TypeOK, MutexInv, PrintingInv, HandleOwned
    <2>2. CASE Next
      BY <2>2, OutsideSteps, PoolSteps, PrinterSteps, InsideKeeps, LockStep DEF Next, Step
    <2> QED BY <2>1, <2>2
  <1> QED BY <1>1, InitEstablishes, PTL DEF Spec

-----------------------------------------------------------------------------
\* Type correctness of the pool and its users (daemon.go:350-397).
THEOREM TypeCorrect == Spec => []TypeOK
  BY Invariance, PTL DEF IInv

\* A Printer the pool has closed never holds the device again, so the retry
\* loop is never locked out by one (daemon.go:361-397, printer.go:222-229).
THEOREM Owned == Spec => []HandleOwned
  BY Invariance, PTL DEF IInv

\* Jobs of different requests are never on the wire together, even if they
\* got different Printers from the pool (printer.go:122).
THEOREM NoOverlap == Spec => []JobsDoNotOverlap
  <1>1. IInv => JobsDoNotOverlap
    BY DEF IInv, TypeOK, MutexInv, PrintingInv, JobsDoNotOverlap
  <1> QED BY <1>1, Invariance, PTL

=============================================================================
