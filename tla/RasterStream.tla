----------------------------- MODULE RasterStream -----------------------------
(***************************************************************************)
(* What the printer reads: the command streams of BuildJobsStream          *)
(* (pkg/ql/protocol.go) and BuildSettingsStream (pkg/ql/settings.go),      *)
(* written command by command, next to a printer that keeps every mode     *)
(* until it is set again.                                                  *)
(*                                                                         *)
(* A write may fail inside a command (a timeout, an unplug).  The printer  *)
(* then still waits for the rest of it and takes the first bytes of what   *)
(* follows for that rest.  X_Y is a deliberate mistake in X.               *)
(***************************************************************************)
EXTENDS Labels, Sequences, SequencesExt

CONSTANTS
  Batches,          \* batches of label jobs, each a sequence of LabelJobs
  SettingsAsked,    \* device settings clients ask for
  InvalidateBytes,  \* Model.InvalidateBytes
  RowBytes,         \* Model.RowBytes
  Keep,             \* a setting that is left alone
  MaxStreams        \* bound: streams that are started

\* What fits into one byte of a command, and into two.
Octets == 0 .. 255
Words == {n \in Nat : n < 65536}

\* A validated job as jobOptions sees it, its label, and the lines it renders
\* to.
LabelJobs ==
  [media : MediaTable, autoCut : BOOLEAN, cutEvery : Octets \ {0}, hires : BOOLEAN,
   quality : BOOLEAN, feedDots : Int, rows : Nat, copies : Octets \ {0}]
Minutes == {0, 10, 20, 30, 40, 50, 60}

ASSUME StreamAssumption ==
  /\ \A b \in Batches :
       /\ b # <<>> /\ b \in Seq(LabelJobs)
       /\ \A j \in DOMAIN b : b[j].media = b[1].media   \* PrintJobs refuses others
  /\ SettingsAsked \subseteq [off : Int \union {Keep}, on : BOOLEAN \union {Keep}]
  /\ InvalidateBytes \in Nat /\ RowBytes \in Nat /\ MaxStreams \in Nat
  /\ InvalidateBytes >= RowBytes + 2   \* 200 and 90 on the only Model there is

VARIABLES
  sending, step,  \* the stream: "job" or "settings", and its next command
  pages, pageNo,  \* the job's pages, and the one that is being sent
  rowsLeft,       \* raster lines of the page still to be sent
  asked, memory0, \* the settings asked for, and the printer's before
  streams,        \* streams started
  pending,        \* printer: bytes missing from the command it is reading
  modes, info,    \* printer: modes in force, and the page announced
  got, printed,   \* printer: lines received; pages printed since ESC @
  memory          \* printer: settings that survive power cycles

hostVars == <<sending, step, pages, pageNo, rowsLeft, asked, memory0, streams>>
printerVars == <<pending, modes, info, got, printed, memory>>
streamVars == <<hostVars, printerVars>>

InitialModes == [autoCut |-> FALSE, cutEvery |-> 1, cutAtEnd |-> TRUE, hires |-> FALSE, feed |-> 0]
NoInfo == [rows |-> 0, first |-> FALSE, quality |-> FALSE, dieCut |-> FALSE]

JobSteps == {"preflight", "invalidate", "initialize", "status", "information", "eachMode",
             "cutEvery", "expanded", "margin", "rows", "collect"}
SettingsSteps == {"invalidate", "initialize", "autoOff", "autoOn", "verify"}

StreamTypeOK ==
  /\ sending \in {"nothing", "job", "settings"}
  /\ step \in CASE sending = "job" -> JobSteps [] sending = "settings" -> SettingsSteps
                [] OTHER -> {"idle"}
  /\ pageNo \in 0 .. Len(pages) /\ rowsLeft \in Nat
  /\ streams \in 0 .. MaxStreams
  /\ pending \in 0 .. RowBytes + 2
  /\ modes \in [autoCut : BOOLEAN, cutEvery : Octets, cutAtEnd : BOOLEAN, hires : BOOLEAN,
                feed : Words]
  /\ info \in [rows : Nat, first : BOOLEAN, quality : BOOLEAN, dieCut : BOOLEAN]
  /\ got \in Nat
  /\ memory \in [off : 0 .. 6, on : BOOLEAN]
  /\ pages \in Seq(LabelJobs)

StreamInit ==
  /\ sending = "nothing" /\ step = "idle" /\ pages = <<>> /\ pageNo = 0 /\ rowsLeft = 0
  /\ asked = [off |-> Keep, on |-> Keep] /\ streams = 0
  /\ pending = 0 /\ modes = InitialModes /\ info = NoInfo /\ got = 0 /\ printed = <<>>
  /\ memory = [off |-> 6, on |-> FALSE] /\ memory0 = memory

-----------------------------------------------------------------------------
(* The printer.  A command that begins inside the one it still waits for   *)
(* is lost: what is left of it begins no command and is skipped.           *)

Reads == pending = 0
After(bytes) == IF pending > bytes THEN pending - bytes ELSE 0

\* The command is read and does effect to the printer, or it is lost.
Write(bytes, effect) ==
  /\ pending' = After(bytes)
  /\ IF Reads THEN effect ELSE UNCHANGED <<modes, info, got, printed, memory>>

SetModes(m) == modes' = m /\ UNCHANGED <<info, got, printed, memory>>

\* ESC @ drops the page that was being received and restores the modes.
Initialized ==
  /\ modes' = InitialModes /\ info' = NoInfo /\ got' = 0 /\ printed' = <<>>
  /\ UNCHANGED memory

\* 0C and 1A print what was received, with the modes in force.
PagePrinted(last) ==
  /\ printed' = Append(printed,
       [rows |-> got, announced |-> info.rows, first |-> info.first, last |-> last,
        quality |-> info.quality, dieCut |-> info.dieCut, autoCut |-> modes.autoCut,
        cutEvery |-> IF modes.autoCut THEN modes.cutEvery ELSE 0,
        cutAtEnd |-> modes.cutAtEnd, hires |-> modes.hires, feed |-> modes.feed])
  /\ got' = 0
  /\ UNCHANGED <<modes, info, memory>>

-----------------------------------------------------------------------------
(* The host.  One page per copy of each job, in order.                     *)

PagesOf(b) == FlattenSeq([j \in DOMAIN b |-> [c \in 1 .. b[j].copies |-> b[j]]])

Page == pages[pageNo]

\* jobOptions: the job's feed, or its label's.
FeedOf_NoneOnDieCut(l) ==
  IF l.feedDots > 0 THEN l.feedDots ELSE IF l.media.form = "endless" THEN l.media.feed ELSE 0
FeedOf(l) == IF l.feedDots > 0 THEN l.feedDots ELSE l.media.feed
DieCutType(l) == l.media.form # "endless"

StartJob(b) ==
  /\ sending = "nothing" /\ streams < MaxStreams
  /\ sending' = "job" /\ step' = "preflight"
  /\ pages' = PagesOf(b) /\ pageNo' = 1 /\ rowsLeft' = 0
  /\ streams' = streams + 1
  /\ UNCHANGED <<asked, memory0, printerVars>>

StartSettings(s) ==
  /\ sending = "nothing" /\ streams < MaxStreams
  /\ s.off # Keep \/ s.on # Keep
  /\ s.off \in Minutes \union {Keep}
  /\ sending' = "settings" /\ step' = "invalidate"
  /\ pages' = <<>> /\ pageNo' = 0
  /\ asked' = s /\ memory0' = memory /\ streams' = streams + 1
  /\ UNCHANGED <<rowsLeft, printerVars>>

Stop == sending' = "nothing" /\ step' = "idle"
HostKeeps == UNCHANGED <<sending, pages, pageNo, rowsLeft, asked, memory0, streams>>

\* PrintJobs asks for the status before it sends anything; without an answer
\* the job fails.
Preflight ==
  /\ step = "preflight"
  /\ pending' = After(3)
  /\ IF Reads THEN step' = "invalidate" /\ UNCHANGED sending ELSE Stop
  /\ UNCHANGED <<pages, pageNo, rowsLeft, asked, memory0, streams,
                 modes, info, got, printed, memory>>

Invalidated == InvalidateBytes
Invalidate ==
  /\ step = "invalidate"
  /\ pending' = After(Invalidated) /\ step' = "initialize"
  /\ HostKeeps /\ UNCHANGED <<modes, info, got, printed, memory>>

Initialize ==
  /\ step = "initialize"
  /\ Write(2, Initialized)
  /\ step' = IF sending = "job" THEN "status" ELSE "autoOff"
  /\ HostKeeps

StatusRequest ==
  /\ step = "status"
  /\ Write(3, UNCHANGED <<modes, info, got, printed, memory>>)
  /\ step' = "information"
  /\ HostKeeps

PrintInformation ==
  /\ step = "information"
  /\ Write(13, /\ info' = [rows |-> Page.rows, first |-> pageNo = 1,
                           quality |-> Page.quality, dieCut |-> DieCutType(Page)]
               /\ UNCHANGED <<modes, got, printed, memory>>)
  /\ step' = "eachMode"
  /\ HostKeeps

SetEachMode ==
  /\ step = "eachMode"
  /\ Write(4, SetModes([modes EXCEPT !.autoCut = Page.autoCut]))
  /\ step' = IF Page.autoCut THEN "cutEvery" ELSE "expanded"
  /\ HostKeeps

CutEvery ==
  /\ step = "cutEvery"
  /\ Write(4, SetModes([modes EXCEPT !.cutEvery = Page.cutEvery % 256]))
  /\ step' = "expanded"
  /\ HostKeeps

SetExpandedMode ==
  /\ step = "expanded"
  /\ Write(4, SetModes([modes EXCEPT !.cutAtEnd = Page.autoCut, !.hires = Page.hires]))
  /\ step' = "margin"
  /\ HostKeeps

FeedBytes(dots) == dots % 65536
SetMargin ==
  /\ step = "margin"
  /\ Write(5, SetModes([modes EXCEPT !.feed = FeedBytes(FeedOf(Page))]))
  /\ step' = "rows" /\ rowsLeft' = Page.rows
  /\ UNCHANGED <<sending, pages, pageNo, asked, memory0, streams>>

RasterRow ==
  /\ step = "rows" /\ rowsLeft > 0
  /\ Write(RowBytes + 3, got' = got + 1 /\ UNCHANGED <<modes, info, printed, memory>>)
  /\ rowsLeft' = rowsLeft - 1
  /\ UNCHANGED <<sending, step, pages, pageNo, asked, memory0, streams>>

\* 0C after every page but the last, which is fed out with 1A.
NextPage_KeepsModes == "margin"
NextPage == "status"

PrintCommand ==
  /\ step = "rows" /\ rowsLeft = 0
  /\ Write(1, PagePrinted(pageNo = Len(pages)))
  /\ IF pageNo = Len(pages)
     THEN step' = "collect" /\ UNCHANGED pageNo
     ELSE step' = NextPage /\ pageNo' = pageNo + 1
  /\ UNCHANGED <<sending, pages, rowsLeft, asked, memory0, streams>>

Collected ==
  /\ step = "collect"
  /\ Stop
  /\ UNCHANGED <<pages, pageNo, rowsLeft, asked, memory0, streams, printerVars>>

\* ESC i U: one command for every setting that was asked for.
SetAutoOff ==
  /\ step = "autoOff"
  /\ IF asked.off = Keep
     THEN UNCHANGED printerVars
     ELSE Write(6, /\ memory' = [memory EXCEPT !.off = asked.off \div 10]
                   /\ UNCHANGED <<modes, info, got, printed>>)
  /\ step' = "autoOn"
  /\ HostKeeps

SetAutoOn ==
  /\ step = "autoOn"
  /\ IF asked.on = Keep
     THEN UNCHANGED printerVars
     ELSE Write(6, /\ memory' = [memory EXCEPT !.on = asked.on]
                   /\ UNCHANGED <<modes, info, got, printed>>)
  /\ step' = "verify"
  /\ HostKeeps

\* Configure asks for the status to see that the printer is still there.
Verify ==
  /\ step = "verify"
  /\ pending' = After(3) /\ Stop
  /\ UNCHANGED <<pages, pageNo, rowsLeft, asked, memory0, streams,
                 modes, info, got, printed, memory>>

\* The write fails between two commands or inside a raster line.
Interrupted ==
  /\ sending # "nothing" /\ step \notin {"preflight", "verify", "collect"}
  /\ \/ UNCHANGED pending
     \/ step = "rows" /\ rowsLeft > 0 /\ Reads /\ pending' \in {1, RowBytes + 2}
  /\ Stop
  /\ UNCHANGED <<pages, pageNo, rowsLeft, asked, memory0, streams,
                 modes, info, got, printed, memory>>

StreamNext ==
  \/ \E b \in Batches : StartJob(b)
  \/ \E s \in SettingsAsked : StartSettings(s)
  \/ Preflight \/ Invalidate \/ Initialize \/ StatusRequest \/ PrintInformation
  \/ SetEachMode \/ CutEvery \/ SetExpandedMode \/ SetMargin \/ RasterRow \/ PrintCommand \/ Collected
  \/ SetAutoOff \/ SetAutoOn \/ Verify \/ Interrupted

-----------------------------------------------------------------------------
\* The feed a job is to get: its own, or 35 dots on tape and on the round
\* labels of 12 mm, none on the others (labels.go:57-59).
FeedWanted(l) ==
  IF l.feedDots > 0 THEN l.feedDots
  ELSE IF l.media.form = "endless" \/ (l.media.form = "round" /\ l.media.width = 12) THEN 35
  ELSE 0

\* What page n of the job that is being sent has to come out as.  A feed of
\* more than 16 bits cannot be told to the printer; Validate lets it pass.
PageWanted(n) ==
  LET l == pages[n]
  IN  [rows |-> l.rows, announced |-> l.rows, first |-> n = 1, last |-> n = Len(pages),
       quality |-> l.quality, dieCut |-> l.media.form \in {"diecut", "round"},
       autoCut |-> l.autoCut,
       cutEvery |-> IF l.autoCut THEN l.cutEvery ELSE 0,
       cutAtEnd |-> l.autoCut, hires |-> l.hires, feed |-> FeedWanted(l) % 65536]

\* Every page comes out as its own job asked, whatever the pages before it
\* asked, whatever modes the printer was left in and wherever an earlier
\* stream broke off: the pages printed are the job's first pages, in order.
PagesAsAsked ==
  sending = "job" /\ step \in JobSteps \ {"preflight", "invalidate", "initialize"} =>
    /\ Len(printed) = IF step = "collect" THEN Len(pages) ELSE pageNo - 1
    /\ \A n \in DOMAIN printed : printed[n] = PageWanted(n)

\* Device settings that were asked for are stored, the others keep their
\* value, even when the stream before broke off inside a raster line.
SettingsAreStored ==
  step = "verify" =>
    memory = [off |-> IF asked.off = Keep THEN memory0.off ELSE asked.off \div 10,
              on |-> IF asked.on = Keep THEN memory0.on ELSE asked.on]

\* The printer does what the stream it was sent asks, in every respect, after
\* any sequence of streams that were completed or broke off.
PrinterObeys == StreamTypeOK /\ PagesAsAsked /\ SettingsAreStored
=============================================================================
