--------------------------- MODULE AndroidUSB_proofs ---------------------------
(***************************************************************************)
(* For every length of descriptors, writes and deadlines: the parser stays *)
(* in its bytes, the printer's interface is found, a write is complete and *)
(* Reopen repairs.                                                         *)
(***************************************************************************)
EXTENDS AndroidUSB, TLAPS, WellFoundedInduction

\* What is claimed next is the printer's interface; what a write has counted
\* has arrived; Reopen has repaired the endpoints it has been through.
ParserInv == Len(ifaces) <= MaxIfaces
WriteInv == pc = "write" => delivered = total
ReopenInv ==
  /\ pc = "resetOut" => "in" \notin halted
  /\ pc = "reclaim" => halted = {}

IInv == PrinterIsFound /\ ParserInv /\ WriteInv /\ ReopenInv

-----------------------------------------------------------------------------
\* A set of interfaces that is not empty has a first.
LEMMA FirstExists ==
  ASSUME NEW S \in SUBSET Nat, S # {}
  PROVE  First(S) \in S
  <1>1. \E i \in S : \A j \in S : ~ (<<j, i>> \in OpToRel(<, Nat))
    BY WFMin, NatLessThanWellFounded
  <1>2. PICK i \in S : \A j \in S : ~ (<<j, i>> \in OpToRel(<, Nat))
    BY <1>1
  <1>3. \A j \in S : i <= j
    <2>1. ASSUME NEW j \in S, j < i PROVE FALSE
      BY <2>1, <1>2 DEF OpToRel
    <2> QED BY <2>1
  <1> QED BY <1>2, <1>3 DEF First

\* The interfaces that can be chosen.
LEMMA UsableInterfaces ==
  ASSUME TypeOK, ParserInv
  PROVE  Usable \subseteq 1 .. MaxIfaces /\ Usable \in SUBSET Nat
  BY USBAssumption DEF TypeOK, ParserInv, Usable

\* Of the usable interfaces a printer's is taken, if there is one.
LEMMA ChoosesPrinter ==
  ASSUME TypeOK, ParserInv, Usable # {}
  PROVE  /\ First(Preferred) \in Usable /\ First(Preferred) \in 0 .. MaxIfaces
         /\ (\E i \in Usable : ifaces[i].class = 7) => ifaces[First(Preferred)].class = 7
  <1>1. Preferred \in SUBSET Usable /\ Preferred # {}
    BY DEF Preferred
  <1>2. First(Preferred) \in Preferred
    BY <1>1, FirstExists, UsableInterfaces
  <1>3. First(Preferred) \in Usable /\ First(Preferred) \in 0 .. MaxIfaces
    BY <1>1, <1>2, UsableInterfaces, USBAssumption
  <1>4. (\E i \in Usable : ifaces[i].class = 7) => ifaces[First(Preferred)].class = 7
    BY <1>2 DEF Preferred
  <1> QED BY <1>3, <1>4

\* An ioctl is told to wait for some whole milliseconds.
LEMMA WaitsSomeTime ==
  ASSUME NEW t \in Int
  PROVE  KernelWait(t) \in Nat \ {0} /\ KernelWait(t) # Forever
  <1>1. t \div 2 \in Int
    OBVIOUS
  <1>2. CASE t \div 2 < 1
    BY <1>2 DEF KernelWait, Forever
  <1>3. CASE ~ (t \div 2 < 1)
    BY <1>1, <1>3 DEF KernelWait, Forever
  <1> QED BY <1>2, <1>3

-----------------------------------------------------------------------------
\* What holds when the program opens the printer.
LEMMA InitEstablishes == Init => IInv
  <1> SUFFICES ASSUME Init PROVE IInv
    OBVIOUS
  <1>1. ifaces \in Seq(Interfaces) /\ Len(ifaces) = 0
    BY DEF Init
  <1>2. TypeOK
    <2>1. /\ claimed \in BOOLEAN /\ other \in BOOLEAN /\ gone \in BOOLEAN /\ reopened \in BOOLEAN
          /\ ~ (claimed /\ other)
      BY Zenon DEF Init
    <2>2. chosen \in 0 .. MaxIfaces /\ ops \in 0 .. MaxOps
      BY USBAssumption DEF Init
    <2>3. /\ pc = "start" /\ halted \subseteq Directions
          /\ room \in Nat /\ toWrite \in Nat /\ total \in Nat /\ left \in Int /\ delivered \in Nat
          /\ wait \in Nat
      BY DEF Init
    <2> QED BY <1>1, <2>1, <2>2, <2>3 DEF TypeOK
  <1>3. ParserInv
    BY <1>1, USBAssumption DEF ParserInv
  <1> QED BY <1>2, <1>3 DEF Init, IInv, PrinterIsFound, NoPanic, PrinterIsChosen, WriteInv, ReopenInv

\* A descriptor is read within the bytes that are left.
LEMMA ParseStep ==
  ASSUME IInv, NextDescriptor
  PROVE  IInv'
  <1> USE DEF IInv, PrinterIsFound
  <1>1. PICK kind \in {"interface", "endpoint", "other"}, length \in {1, 2, 7, 9} :
          \E class \in {7, 255}, ep \in Endpoints :
            /\ kind = "interface" => Last < MaxIfaces
            /\ ParseDescriptor(kind, length, [class |-> class, eps |-> <<>>], ep)
    <2>1. [dir |-> "in", bulk |-> TRUE] \in Endpoints
      BY DEF Endpoints, Directions
    <2>2. PICK kind \in {"interface", "endpoint", "other"}, length \in {1, 2, 7, 9} :
            \E class \in IF kind = "interface" /\ Last < MaxIfaces THEN {7, 255} ELSE {255} :
              \E ep \in IF kind = "endpoint" THEN Endpoints
                       ELSE {[dir |-> "in", bulk |-> TRUE]} :
                /\ kind = "interface" => Last < MaxIfaces
                /\ ParseDescriptor(kind, length, [class |-> class, eps |-> <<>>], ep)
      BY DEF NextDescriptor
    <2>3. PICK class \in {7, 255} :
            \E ep \in IF kind = "endpoint" THEN Endpoints
                     ELSE {[dir |-> "in", bulk |-> TRUE]} :
              /\ kind = "interface" => Last < MaxIfaces
              /\ ParseDescriptor(kind, length, [class |-> class, eps |-> <<>>], ep)
      BY <2>2
    <2>4. PICK ep \in IF kind = "endpoint" THEN Endpoints
                    ELSE {[dir |-> "in", bulk |-> TRUE]} :
            /\ kind = "interface" => Last < MaxIfaces
            /\ ParseDescriptor(kind, length, [class |-> class, eps |-> <<>>], ep)
      BY <2>3
    <2>5. ep \in Endpoints
      BY <2>1
    <2> QED BY <2>4, <2>5
  <1>2. PICK class \in {7, 255}, ep \in Endpoints :
          /\ kind = "interface" => Last < MaxIfaces
          /\ ParseDescriptor(kind, length, [class |-> class, eps |-> <<>>], ep)
    BY <1>1
  <1> DEFINE iface == [class |-> class, eps |-> <<>>]
  <1>3. iface \in Interfaces
    BY DEF Interfaces
  <1>4. CASE Malformed(kind, length)
    BY <1>2, <1>4 DEF ParseDescriptor, TypeOK, NoPanic, PrinterIsChosen, ParserInv, WriteInv,
       ReopenInv, Idle, callVars, kernelVars
  <1>5. CASE ~ Malformed(kind, length)
    <2>1. room \in Nat /\ length <= room /\ length >= 2
      BY <1>5 DEF Malformed, TypeOK
    <2>2. ~ (ReadsTo(kind) > room)
      BY <1>5, <2>1 DEF Malformed, ReadsTo
    <2>3. pc' = "parse" /\ room' \in Nat
      BY <1>2, <1>5, <2>1, <2>2 DEF ParseDescriptor
    <2>4. ifaces' \in Seq(Interfaces) /\ Len(ifaces') <= MaxIfaces
      <3>1. CASE kind = "interface"
        <4>1. ifaces' = Append(ifaces, iface)
          BY <1>2, <1>5, <3>1 DEF ParseDescriptor
        <4>2. ifaces \in Seq(Interfaces) /\ Len(ifaces) < MaxIfaces
          BY <1>2, <3>1 DEF TypeOK, Last
        <4> HIDE DEF iface
        <4> QED BY <1>3, <4>1, <4>2, USBAssumption
      <3>2. CASE kind = "endpoint"
        <4>1. ifaces # <<>> /\ Last \in DOMAIN ifaces
          BY <1>5, <3>2 DEF Malformed, Last, TypeOK
        <4>2. ifaces[Last] \in Interfaces
          BY <4>1 DEF TypeOK
        <4>3. [ifaces[Last] EXCEPT !.eps = Append(@, ep)] \in Interfaces
          BY <4>2 DEF Interfaces
        <4>4. ifaces' = [ifaces EXCEPT ![Last] = [ifaces[Last] EXCEPT !.eps = Append(@, ep)]]
          BY <1>2, <1>5, <3>2, <4>1, <4>2 DEF ParseDescriptor, Interfaces
        <4> QED BY <4>1, <4>3, <4>4 DEF TypeOK, ParserInv, Last
      <3>3. CASE kind = "other"
        BY <1>2, <1>5, <3>3 DEF ParseDescriptor, TypeOK, ParserInv
      <3> QED BY <3>1, <3>2, <3>3
    <2> QED BY <1>2, <2>3, <2>4 DEF ParseDescriptor, TypeOK, NoPanic, PrinterIsChosen, ParserInv,
               WriteInv, ReopenInv, Idle, callVars, kernelVars
  <1> QED BY <1>4, <1>5

\* Opening the backend.
LEMMA OpenStep ==
  ASSUME IInv,
         (\E t \in Totals : ReadDescriptors(t)) \/ Parsed \/ SelectInterface \/ Claim
  PROVE  IInv'
  <1> USE DEF IInv, PrinterIsFound, NoPanic, PrinterIsChosen, ParserInv, WriteInv, ReopenInv,
              Closes, callVars, kernelVars, parserVars
  <1>1. ASSUME NEW t \in Totals, ReadDescriptors(t) PROVE IInv'
    BY <1>1, USBAssumption DEF TypeOK, ReadDescriptors, Idle
  <1>2. CASE Parsed
    BY <1>2 DEF TypeOK, Parsed, Idle
  <1>3. CASE SelectInterface
    <2>1. CASE Usable = {}
      BY <1>3, <2>1 DEF TypeOK, SelectInterface, Idle
    <2>2. CASE Usable # {}
      <3>1. /\ pc' = "claim" /\ chosen' = First(Preferred)
            /\ UNCHANGED <<room, ifaces, callVars, kernelVars>>
        BY <1>3, <2>2 DEF SelectInterface
      <3>2. Usable' = Usable
        BY <3>1 DEF Usable, HasPair
      <3>3. TypeOK'
        BY <3>1, <2>2, ChoosesPrinter DEF TypeOK, Idle
      <3>4. PrinterIsChosen'
        BY <3>1, <3>2, <2>2, ChoosesPrinter
      <3> QED BY <3>1, <3>3, <3>4
    <2> QED BY <2>1, <2>2
  <1>4. CASE Claim
    <2>1. ifaces' \in Seq(Interfaces) /\ Len(ifaces') = 0
      BY <1>4 DEF Claim
    <2>2. TypeOK' /\ NoPanic'
      BY <1>4, <2>1 DEF TypeOK, Claim, CanClaim, Idle
    <2> QED BY <1>4, <2>1, <2>2, USBAssumption DEF Claim, Idle
  <1> QED BY <1>1, <1>2, <1>3, <1>4

\* The calls of Write.
LEMMA WriteStep ==
  ASSUME IInv,
         \/ \E n \in Lengths : StartWrite(n)
         \/ \E n \in 0 .. Chunk : WriteChunk(n) \/ WriteFails(n)
         \/ WriteReturnsError
  PROVE  IInv'
  <1> USE DEF IInv, PrinterIsFound, NoPanic, PrinterIsChosen, ParserInv, WriteInv, ReopenInv,
              Bulk, CanClaim, parserVars, callVars
  <1>1. ASSUME NEW n \in Lengths, StartWrite(n) PROVE IInv'
    BY <1>1, USBAssumption DEF TypeOK, StartWrite, Idle
  <1>2. ASSUME NEW n \in 0 .. Chunk, WriteChunk(n) PROVE IInv'
    <2>1. n \in Nat /\ n <= toWrite /\ toWrite \in Nat /\ total \in Nat /\ delivered \in Nat
      BY <1>2, USBAssumption DEF WriteChunk, TypeOK
    <2> QED BY <1>2, <2>1 DEF TypeOK, WriteChunk, Counted, Idle
  <1>3. ASSUME NEW n \in 0 .. Chunk, WriteFails(n) PROVE IInv'
    <2>1. n \in Nat /\ delivered \in Nat
      BY <1>3, USBAssumption DEF TypeOK
    <2> QED BY <1>3, <2>1 DEF TypeOK, WriteFails, Idle, Directions
  <1>4. CASE WriteReturnsError
    BY <1>4 DEF TypeOK, WriteReturnsError, Idle, kernelVars
  <1> QED BY <1>1, <1>2, <1>3, <1>4

\* The calls of Read.
LEMMA ReadStep ==
  ASSUME IInv,
         (\E d \in Deadlines : StartRead(d)) \/ ReadEnds \/ TimedOut \/ Interrupted
  PROVE  IInv'
  <1> USE DEF IInv, PrinterIsFound, NoPanic, PrinterIsChosen, ParserInv, WriteInv, ReopenInv,
              parserVars, callVars, kernelVars
  <1>1. ASSUME NEW d \in Deadlines, StartRead(d) PROVE IInv'
    <2>1. KernelWait(Least(d, Slice)) \in Nat
      <3>1. Least(d, Slice) \in Int
        BY USBAssumption DEF Least
      <3> QED BY <3>1, WaitsSomeTime
    <2> QED BY <1>1, <2>1, USBAssumption DEF TypeOK, StartRead, Idle
  <1>2. CASE ReadEnds
    BY <1>2 DEF TypeOK, ReadEnds, Bulk, CanClaim, Idle, Directions
  <1>3. ASSUME NEW t \in Int, pc = "read", Again(t) PROVE IInv'
    <2>1. KernelWait(Least(left - t, Slice)) \in Nat
      <3>1. left \in Int /\ Slice \in Int
        BY USBAssumption DEF TypeOK
      <3>2. Least(left - t, Slice) \in Int
        BY <3>1 DEF Least
      <3> QED BY <3>2, WaitsSomeTime
    <2> QED BY <1>3, <2>1 DEF TypeOK, Again, Idle
  <1>4. wait \in Int
    BY DEF TypeOK, Forever
  <1> QED BY <1>1, <1>2, <1>3, <1>4 DEF TimedOut, Interrupted

\* Reopen, Close, and what happens outside.
LEMMA ReopenStep ==
  ASSUME IInv,
         \/ StartReopen \/ Release \/ ResetEP("in", "resetIn", "resetOut")
         \/ ResetEP("out", "resetOut", "reclaim") \/ Reclaim \/ Close
         \/ OtherProcess \/ Unplug
  PROVE  IInv'
  <1> USE DEF IInv, PrinterIsFound, NoPanic, PrinterIsChosen, ParserInv, WriteInv, ReopenInv,
              parserVars, callVars, kernelVars, TypeOK, Idle, CanClaim, ReopenKeeps, Returns,
              Continue, Usable, HasPair
  <1>1. CASE StartReopen BY <1>1, USBAssumption DEF StartReopen
  <1>2. CASE Release BY <1>2 DEF Release, Released
  <1>3. CASE ResetEP("in", "resetIn", "resetOut") BY <1>3 DEF ResetEP, Directions
  <1>4. CASE ResetEP("out", "resetOut", "reclaim") BY <1>4 DEF ResetEP, Directions
  <1>5. CASE Reclaim BY <1>5 DEF Reclaim
  <1>6. CASE Close
    <2>1. /\ pc' = "closed" /\ claimed' = FALSE
          /\ UNCHANGED <<parserVars, callVars, other, gone, halted, delivered>>
      BY <1>6 DEF Close, Closes
    <2> QED BY <2>1
  <1>7. CASE OtherProcess BY <1>7 DEF OtherProcess
  <1>8. CASE Unplug BY <1>8 DEF Unplug
  <1> QED BY <1>1, <1>2, <1>3, <1>4, <1>5, <1>6, <1>7, <1>8

\* The invariant holds in every reachable state.
THEOREM Invariance == Spec => []IInv
  <1>1. IInv /\ [Next]_vars => IInv'
    <2> SUFFICES ASSUME IInv, [Next]_vars PROVE IInv'
      OBVIOUS
    <2>1. CASE UNCHANGED vars
      BY <2>1 DEF IInv, PrinterIsFound, TypeOK, NoPanic, PrinterIsChosen, ParserInv, WriteInv,
         ReopenInv, Usable, HasPair, vars, parserVars, callVars, kernelVars
    <2>2. CASE Next
      BY <2>2, ParseStep, OpenStep, WriteStep, ReadStep, ReopenStep DEF Next
    <2> QED BY <2>1, <2>2
  <1> QED BY <1>1, InitEstablishes, PTL DEF Spec

\* Opening the device ends with the printer's interface, not with a read past
\* the descriptors, whatever lengths they state (usb_descriptors.go).
THEOREM PrinterFound == Spec => []PrinterIsFound
  <1>1. IInv => PrinterIsFound
    BY DEF IInv
  <1> QED BY <1>1, Invariance, PTL

\* A write that returns without error has delivered all of it, whatever its
\* length and however the kernel splits its chunks (Write of
\* backend_android.go).
THEOREM WriteCompletes == Spec => WriteIsComplete
  <1> DEFINE Complete == (pc = "write" /\ pc' = Idle) => (delivered' = total' /\ toWrite' = 0)
  <1>1. IInv /\ [Next]_vars => [Complete]_vars
    <2> SUFFICES ASSUME IInv, Next, pc = "write", pc' = Idle
                 PROVE  delivered' = total' /\ toWrite' = 0
      BY DEF vars
    <2>1. PICK n \in 0 .. Chunk : WriteChunk(n)
      BY DEF Next, Idle, ReadDescriptors, NextDescriptor, ParseDescriptor, Parsed,
         SelectInterface, Claim, StartWrite, WriteFails, WriteReturnsError, StartRead, ReadEnds,
         TimedOut, Interrupted, StartReopen, Release, ResetEP, Reclaim, Close, OtherProcess, Unplug
    <2> QED BY <2>1 DEF IInv, WriteInv, WriteChunk, Counted, Idle
  <1> QED BY <1>1, Invariance, PTL DEF Spec, WriteIsComplete

\* A Reopen that returns without error has released, repaired both endpoints
\* and claimed, also after one that got half-way; it fails only for a device
\* that is gone or somebody else's (Reopen of backend_android.go).
THEOREM ReopenCompletes == Spec => ReopenRepairs
  <1> DEFINE Repaired ==
        (Reopening /\ pc' = Idle) =>
          IF reopened' THEN claimed' /\ halted' = {} ELSE gone \/ other
  <1>1. IInv /\ [Next]_vars => [Repaired]_vars
    <2> SUFFICES ASSUME IInv, Next, Reopening, pc' = Idle
                 PROVE  IF reopened' THEN claimed' /\ halted' = {} ELSE gone \/ other
      BY DEF vars
    <2>1. \/ Release \/ ResetEP("in", "resetIn", "resetOut")
          \/ ResetEP("out", "resetOut", "reclaim") \/ Reclaim
      BY DEF Next, Idle, Reopening, ReadDescriptors, NextDescriptor, ParseDescriptor, Parsed,
         SelectInterface, Claim, StartWrite, WriteChunk, WriteFails, WriteReturnsError, StartRead,
         ReadEnds, TimedOut, Interrupted, StartReopen, Close, OtherProcess, Unplug
    <2> QED BY <2>1 DEF IInv, ReopenInv, Idle, Release, Released, ResetEP, Reclaim, CanClaim,
               Returns, Continue, ReopenKeeps
  <1> QED BY <1>1, Invariance, PTL DEF Spec, ReopenRepairs
=============================================================================
