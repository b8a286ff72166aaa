------------------------------ MODULE AndroidUSB ------------------------------
(***************************************************************************)
(* The USB backend of Termux: pkg/ql/usb_descriptors.go and                *)
(* pkg/ql/backend_android.go.  The descriptor set is chosen descriptor by  *)
(* descriptor as the parser reaches it; the kernel's answers to the ioctls *)
(* are chosen when they are made.                                          *)
(*                                                                         *)
(* Lengths of transfers are in quarters of maxBulkChunk, times in half     *)
(* milliseconds.  As in backend_android.go, usbdevfs answers ENODATA when  *)
(* an interface that is not claimed is released.  X_Y is a deliberate      *)
(* mistake in X.                                                           *)
(***************************************************************************)
EXTENDS Integers, Sequences

CONSTANTS
  Totals,       \* wTotalLength of configurations
  MaxIfaces,    \* bound: interfaces of a configuration
  Lengths,      \* lengths of what is written
  Chunk,        \* maxBulkChunk
  Slice,        \* the longest time one ioctl of Read waits
  Deadlines,    \* how far away a read deadline is
  MaxOps        \* bound: calls of Write, Read and Reopen

ASSUME USBAssumption ==
  /\ Totals \subseteq Nat /\ Lengths \subseteq Nat /\ Deadlines \subseteq Nat
  /\ MaxIfaces \in Nat /\ Chunk \in Nat \ {0} /\ Slice \in Nat \ {0} /\ MaxOps \in Nat

VARIABLES
  pc,             \* what the backend does
  room, ifaces,   \* parser: bytes left of the set, interfaces found
  chosen,         \* the selected interface, 0 before
  toWrite, total, \* Write: what is left of p, and what it counted
  left, wait,     \* Read: time to the deadline; what the kernel is told to wait
  ops,            \* calls made
  reopened,       \* the last Reopen returned without error
  claimed,        \* kernel: the interface is ours
  other,          \* kernel: it is another process's
  gone,           \* kernel: the device is unplugged
  halted,         \* kernel: directions whose endpoint is stalled
  delivered       \* device: what arrived of the current write

parserVars == <<room, ifaces, chosen>>
callVars == <<toWrite, total, left, wait, ops, reopened>>
kernelVars == <<claimed, other, gone, halted, delivered>>
vars == <<pc, parserVars, callVars, kernelVars>>

Directions == {"in", "out"}
Endpoints == [dir : Directions, bulk : BOOLEAN]
Interfaces == [class : {7, 255}, eps : Seq(Endpoints)]
Forever == -1

Idle == "idle"
TypeOK ==
  /\ pc \in {"start", "parse", "select", "claim", Idle, "write", "failed", "read", "release",
             "resetIn", "resetOut", "reclaim", "closed", "panic"}
  /\ room \in Nat /\ ifaces \in Seq(Interfaces) /\ chosen \in 0 .. MaxIfaces
  /\ toWrite \in Nat /\ total \in Nat /\ left \in Int
  /\ wait \in Nat \union {Forever} /\ ops \in 0 .. MaxOps /\ reopened \in BOOLEAN
  /\ claimed \in BOOLEAN /\ other \in BOOLEAN /\ gone \in BOOLEAN
  /\ halted \subseteq Directions /\ delivered \in Nat
  /\ ~ (claimed /\ other)

Init ==
  /\ pc = "start" /\ room = 0 /\ ifaces = <<>> /\ chosen = 0
  /\ toWrite = 0 /\ total = 0 /\ left = 0 /\ wait = 0 /\ ops = 0
  /\ reopened = TRUE
  /\ claimed = FALSE /\ other = FALSE /\ gone = FALSE
  /\ halted = {} /\ delivered = 0

-----------------------------------------------------------------------------
(* newBackend: the device's identity, its configuration, the interface to  *)
(* print on, and the claim.  On every error the file is closed.            *)

Closes == pc' = "closed" /\ claimed' = FALSE

ReadDescriptors(t) ==
  /\ pc = "start"
  /\ \/ pc' = "closed" /\ UNCHANGED room        \* no answer, or not a QL-570
     \/ /\ pc' = IF t < 9 \/ t > 4096 THEN "closed" ELSE "parse"
        /\ room' = IF t < 9 THEN 0 ELSE t - 9
  /\ UNCHANGED <<ifaces, chosen, callVars, kernelVars>>

\* One descriptor: bLength bytes of some type.  The parser reads its type and,
\* of an interface, its class at offset 5, of an endpoint, its packet size at
\* offsets 4 and 5.
ReadsTo(kind) == IF kind = "other" THEN 2 ELSE 6

Malformed(kind, length) ==
  \/ length < 2 \/ length > room
  \/ kind = "interface" /\ length < 9
  \/ kind = "endpoint" /\ (length < 7 \/ ifaces = <<>>)

Last == Len(ifaces)
ParseDescriptor(kind, length, iface, ep) ==
  /\ pc = "parse" /\ room > 0
  /\ IF Malformed(kind, length)
     THEN pc' = "closed" /\ UNCHANGED <<room, ifaces>>
     ELSE /\ pc' = IF ReadsTo(kind) > room THEN "panic" ELSE "parse"
          /\ room' = room - length
          /\ ifaces' = CASE kind = "interface" -> Append(ifaces, iface)
                         [] kind = "endpoint" ->
                              [ifaces EXCEPT ![Last].eps = Append(@, ep)]
                         [] OTHER -> ifaces
  /\ UNCHANGED <<chosen, callVars, kernelVars>>

NextDescriptor ==
  \E kind \in {"interface", "endpoint", "other"}, length \in {1, 2, 7, 9} :
    \E class \in IF kind = "interface" /\ Last < MaxIfaces THEN {7, 255} ELSE {255} :
      \E ep \in IF kind = "endpoint" THEN Endpoints ELSE {[dir |-> "in", bulk |-> TRUE]} :
        /\ kind = "interface" => Last < MaxIfaces
        /\ ParseDescriptor(kind, length, [class |-> class, eps |-> <<>>], ep)

Parsed ==
  /\ pc = "parse" /\ room = 0
  /\ pc' = "select"
  /\ UNCHANGED <<parserVars, callVars, kernelVars>>

\* A bulk endpoint in each direction.
HasPair(i) ==
  \A d \in Directions : \E k \in DOMAIN ifaces[i].eps : ifaces[i].eps[k] = [dir |-> d, bulk |-> TRUE]
Usable == {i \in DOMAIN ifaces : HasPair(i)}
First(S) == CHOOSE i \in S : \A j \in S : i <= j

Preferred_FirstUsable == Usable
Preferred ==
  LET printers == {i \in Usable : ifaces[i].class = 7}
  IN  IF printers # {} THEN printers ELSE Usable

SelectInterface ==
  /\ pc = "select"
  /\ IF Usable = {}
     THEN pc' = "closed" /\ UNCHANGED chosen
     ELSE pc' = "claim" /\ chosen' = First(Preferred)
  /\ UNCHANGED <<room, ifaces, callVars, kernelVars>>

CanClaim == ~ gone /\ ~ other

Claim ==
  /\ pc = "claim"
  /\ IF CanClaim
     THEN pc' = Idle /\ claimed' = TRUE
     ELSE Closes
  /\ ifaces' = <<>>                     \* only the selected one is kept
  /\ UNCHANGED <<room, chosen, callVars, other, gone, halted, delivered>>

-----------------------------------------------------------------------------
(* Write: chunks until all of p is written.  A transfer the interface is   *)
(* not claimed for makes the kernel claim it.                              *)

StartWrite(n) ==
  /\ pc = Idle /\ ops < MaxOps /\ ops' = ops + 1
  /\ pc' = IF n = 0 THEN Idle ELSE "write"
  /\ toWrite' = n /\ total' = 0 /\ delivered' = 0
  /\ UNCHANGED <<parserVars, left, wait, reopened, claimed, other, gone, halted>>

Bulk(dir) == CanClaim /\ dir \notin halted

\* The kernel takes some of the chunk, or nothing, which is an error.
Counted_Chunk(n) == IF toWrite < Chunk THEN toWrite ELSE Chunk
Counted(n) == n

WriteChunk(n) ==
  /\ pc = "write" /\ Bulk("out")
  /\ n <= toWrite /\ n <= Chunk
  /\ claimed' = TRUE /\ delivered' = delivered + n
  /\ total' = total + Counted(n) /\ toWrite' = toWrite - Counted(n)
  /\ pc' = IF n = 0 THEN "failed" ELSE IF toWrite' = 0 THEN Idle ELSE "write"
  /\ UNCHANGED <<parserVars, left, wait, ops, reopened, other, gone, halted>>

\* The transfer fails after n units, which the kernel does not report.  A
\* stalled endpoint stays stalled.
WriteFails(n) ==
  /\ pc = "write"
  /\ n <= toWrite /\ n < Chunk /\ (Bulk("out") \/ n = 0)
  /\ pc' = "failed" /\ delivered' = delivered + n
  /\ claimed' = (claimed \/ Bulk("out"))
  /\ halted' \in {halted, halted \union {"out"}}
  /\ UNCHANGED <<parserVars, callVars, other, gone>>

\* PrintJobs and Configure reopen after a failed write of their stream;
\* statusLocked only returns the error, and leaves the backend as it is.
WriteReturnsError ==
  /\ pc = "failed"
  /\ pc' \in {"release", Idle}
  /\ UNCHANGED <<parserVars, callVars, kernelVars>>

-----------------------------------------------------------------------------
(* Read: transfers of at most Slice until data comes or the deadline does. *)

Least(a, b) == IF a < b THEN a ELSE b

\* The kernel counts whole milliseconds, and 0 means for ever.
KernelWait_Truncated(t) == IF t \div 2 = 0 THEN Forever ELSE 2 * (t \div 2)
KernelWait(t) == 2 * IF t \div 2 < 1 THEN 1 ELSE t \div 2

StartRead(d) ==
  /\ pc = Idle /\ ops < MaxOps /\ ops' = ops + 1
  /\ pc' = IF d = 0 THEN Idle ELSE "read"
  /\ left' = d /\ wait' = IF d = 0 THEN 0 ELSE KernelWait(Least(d, Slice))
  /\ UNCHANGED <<parserVars, toWrite, total, reopened, kernelVars>>

\* Data, or an error that is reported, which may be a stall.
ReadEnds ==
  /\ pc = "read"
  /\ pc' = Idle
  /\ claimed' = (claimed \/ Bulk("in"))
  /\ halted' \in {halted, halted \union {"in"}}
  /\ UNCHANGED <<parserVars, callVars, other, gone, delivered>>

\* ETIMEDOUT after the whole wait, EINTR after some of it: try again unless
\* the deadline has passed.
Again(t) ==
  /\ left' = left - t
  /\ IF left - t <= 0
     THEN pc' = Idle /\ wait' = 0
     ELSE pc' = "read" /\ wait' = KernelWait(Least(left - t, Slice))
  /\ UNCHANGED <<parserVars, toWrite, total, ops, reopened, kernelVars>>

TimedOut == pc = "read" /\ wait # Forever /\ Again(wait)
Interrupted == pc = "read" /\ wait # Forever /\ wait > 1 /\ Again(1)

-----------------------------------------------------------------------------
(* Reopen keeps the descriptor: release, clear both endpoints, claim.      *)

StartReopen ==
  /\ pc = Idle /\ ops < MaxOps /\ ops' = ops + 1
  /\ pc' = "release"
  /\ UNCHANGED <<parserVars, toWrite, total, left, wait, reopened, kernelVars>>

\* An error leaves the interface as it is.  The caller ignores it and goes on
\* with the same backend.
Returns(ok) == pc' = Idle /\ reopened' = ok
Continue(l) == pc' = l /\ UNCHANGED reopened
ReopenKeeps == UNCHANGED <<parserVars, toWrite, total, left, wait, ops, other, gone, delivered>>

\* ENODATA from an interface that is not claimed counts as released.
Released_OnlyClaimed == ~ gone /\ claimed
Released == ~ gone

Release ==
  /\ pc = "release"
  /\ IF Released
     THEN Continue("resetIn") /\ claimed' = FALSE
     ELSE Returns(FALSE) /\ UNCHANGED claimed
  /\ ReopenKeeps /\ UNCHANGED halted

ResetEP(dir, here, next) ==
  /\ pc = here
  /\ IF gone
     THEN Returns(FALSE) /\ UNCHANGED halted
     ELSE Continue(next) /\ halted' = halted \ {dir}
  /\ ReopenKeeps /\ UNCHANGED claimed

Reclaim ==
  /\ pc = "reclaim"
  /\ IF CanClaim
     THEN Returns(TRUE) /\ claimed' = TRUE
     ELSE Returns(FALSE) /\ UNCHANGED claimed
  /\ ReopenKeeps /\ UNCHANGED halted

Close ==
  /\ pc = Idle
  /\ Closes
  /\ UNCHANGED <<parserVars, callVars, other, gone, halted, delivered>>

\* The world: another process takes and gives back an interface nobody
\* claimed, the cable is pulled.  Nothing looks at it before the claim.
OtherProcess ==
  /\ ~ claimed /\ pc \notin {"start", "parse", "select", "closed"}
  /\ other' = ~ other
  /\ UNCHANGED <<pc, parserVars, callVars, claimed, gone, halted, delivered>>
Unplug ==
  /\ ~ gone /\ gone' = TRUE /\ pc \notin {"start", "parse", "select", "closed"}
  /\ UNCHANGED <<pc, parserVars, callVars, claimed, other, halted, delivered>>

Next ==
  \/ \E t \in Totals : ReadDescriptors(t)
  \/ NextDescriptor \/ Parsed \/ SelectInterface \/ Claim
  \/ \E n \in Lengths : StartWrite(n)
  \/ \E n \in 0 .. Chunk : WriteChunk(n) \/ WriteFails(n)
  \/ WriteReturnsError
  \/ \E d \in Deadlines : StartRead(d)
  \/ ReadEnds \/ TimedOut \/ Interrupted
  \/ StartReopen \/ Release \/ ResetEP("in", "resetIn", "resetOut")
  \/ ResetEP("out", "resetOut", "reclaim") \/ Reclaim \/ Close
  \/ OtherProcess \/ Unplug

Spec == Init /\ [][Next]_vars

\* The kernel keeps the time it was told to wait.
FairSpec == Spec /\ WF_vars(TimedOut)

-----------------------------------------------------------------------------
\* The parser never reads past the bytes it was given.
NoPanic == pc # "panic"

\* The interface that is claimed has a bulk endpoint in each direction, and
\* is a printer's when there is such a printer interface, wherever it stands
\* in the configuration.
PrinterIsChosen ==
  pc = "claim" =>
    /\ chosen \in Usable
    /\ (\E i \in Usable : ifaces[i].class = 7) => ifaces[chosen].class = 7

\* Opening ends with the printer's interface or an error, whatever the device
\* sends as its descriptors, and nobody else owns what the backend claimed.
PrinterIsFound == TypeOK /\ NoPanic /\ PrinterIsChosen

\* A write that returns without error has put every unit of p into the device
\* once, however the kernel split the chunks.
WriteIsComplete ==
  [][(pc = "write" /\ pc' = Idle) => (delivered' = total' /\ toWrite' = 0)]_vars

\* Reopen that succeeds has repaired both directions and owns the interface,
\* and it fails only for a device that is gone or another process's: also
\* after a Reopen that got half-way.
Reopening == pc \in {"release", "resetIn", "resetOut", "reclaim"}
ReopenRepairs ==
  [][(Reopening /\ pc' = Idle) =>
       IF reopened' THEN claimed' /\ halted' = {} ELSE gone \/ other]_vars

\* A read always ends, however close its deadline: the kernel is never told
\* to wait for ever.
ReadEndsInTime == pc = "read" ~> pc # "read"
=============================================================================
