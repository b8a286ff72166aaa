-------------------------- MODULE RasterStream_proofs --------------------------
(***************************************************************************)
(* The invariant behind RasterStream!PrinterObeys, for batches, settings   *)
(* and line widths of any size and any number of streams: what the printer *)
(* knows after every command.  MCCodecs_proofs states the theorem.         *)
(***************************************************************************)
EXTENDS RasterStream, TLAPS, SequenceTheorems, WellFoundedInduction

\* A set of numbers that is not empty has a least one: what stands in for
\* induction in the proofs below.
LEMMA LeastNatural ==
  ASSUME NEW S \in SUBSET Nat, S # {}
  PROVE  \E n \in S : \A m \in S : n <= m
  <1>1. \E n \in S : \A m \in S : ~ (<<m, n>> \in OpToRel(<, Nat))
    BY WFMin, NatLessThanWellFounded
  <1>2. PICK n \in S : \A m \in S : ~ (<<m, n>> \in OpToRel(<, Nat))
    BY <1>1
  <1>3. \A m \in S : n <= m
    <2>1. ASSUME NEW m \in S, m < n PROVE FALSE
      BY <2>1, <1>2 DEF OpToRel
    <2> QED BY <2>1
  <1> QED BY <1>3

\* flatten, the function FlattenSeq is defined with, exists.
LEMMA FlattenExists ==
  ASSUME NEW seqs, NEW N \in Nat, N > 0
  PROVE  \E f : f = [i \in 1 .. N |-> IF i = 1 THEN seqs[i] ELSE f[i - 1] \o seqs[i]]
  <1> DEFINE Upto(m) ==
               \E f : f = [i \in 1 .. m |-> IF i = 1 THEN seqs[i] ELSE f[i - 1] \o seqs[i]]
             S == {m \in Nat : m > 0 /\ m <= N /\ ~ Upto(m)}
  <1>1. Upto(1)
    <2> DEFINE f == [i \in 1 .. 1 |-> seqs[i]]
    <2>1. f = [i \in 1 .. 1 |-> IF i = 1 THEN seqs[i] ELSE f[i - 1] \o seqs[i]]
      OBVIOUS
    <2> QED BY <2>1
  <1>2. ASSUME NEW m \in Nat, m > 0, Upto(m) PROVE Upto(m + 1)
    <2>1. PICK g : g = [i \in 1 .. m |-> IF i = 1 THEN seqs[i] ELSE g[i - 1] \o seqs[i]]
      BY <1>2
    <2> DEFINE f == [i \in 1 .. m + 1 |-> IF i <= m THEN g[i] ELSE g[m] \o seqs[m + 1]]
    <2>2. \A i \in 1 .. m + 1 : f[i] = IF i = 1 THEN seqs[i] ELSE f[i - 1] \o seqs[i]
      <3> SUFFICES ASSUME NEW i \in 1 .. m + 1
                   PROVE  f[i] = IF i = 1 THEN seqs[i] ELSE f[i - 1] \o seqs[i]
        OBVIOUS
      <3>1. CASE i <= m
        <4>1. f[i] = g[i] /\ i \in 1 .. m
          BY <3>1
        <4>2. g[i] = IF i = 1 THEN seqs[i] ELSE g[i - 1] \o seqs[i]
          BY <2>1, <4>1
        <4>3. i # 1 => f[i - 1] = g[i - 1]
          BY <3>1
        <4> QED BY <4>1, <4>2, <4>3
      <3>2. CASE i = m + 1
        <4>1. i \in 1 .. m + 1 /\ ~ (i <= m) /\ i # 1 /\ i - 1 = m /\ m \in 1 .. m + 1
          BY <1>2, <3>2
        <4>2. f[i] = g[m] \o seqs[m + 1]
          BY <4>1
        <4>3. f[m] = g[m]
          BY <4>1
        <4> QED BY <3>2, <4>1, <4>2, <4>3
      <3> QED BY <1>2, <3>1, <3>2
    <2>3. f = [i \in 1 .. m + 1 |-> f[i]]
      OBVIOUS
    <2> HIDE DEF f
    <2>4. f = [i \in 1 .. m + 1 |-> IF i = 1 THEN seqs[i] ELSE f[i - 1] \o seqs[i]]
      BY <2>2, <2>3
    <2> QED BY <2>4
  <1> HIDE DEF Upto
  <1>3. S = {}
    <2> SUFFICES ASSUME S # {} PROVE FALSE
      OBVIOUS
    <2>1. PICK m \in S : \A k \in S : m <= k
      BY LeastNatural
    <2>2. m # 1 /\ m \in Nat /\ m > 0 /\ m <= N
      BY <1>1
    <2>3. m - 1 \in Nat /\ m - 1 > 0 /\ m - 1 <= N /\ m - 1 \notin S
      BY <2>1, <2>2
    <2>4. Upto(m - 1)
      BY <2>3
    <2>5. (m - 1) + 1 = m
      BY <2>2
    <2> QED BY <1>2, <2>1, <2>3, <2>4, <2>5
  <1>4. Upto(N)
    BY <1>3
  <1> QED BY <1>4 DEF Upto

\* What FlattenSeq makes of sequences that are not empty.
LEMMA FlattenFacts ==
  ASSUME NEW T, NEW seqs, Len(seqs) \in Nat, Len(seqs) > 0,
         \A i \in 1 .. Len(seqs) : seqs[i] \in Seq(T) /\ Len(seqs[i]) > 0
  PROVE  FlattenSeq(seqs) \in Seq(T) /\ Len(FlattenSeq(seqs)) > 0
  <1> DEFINE N == Len(seqs)
             Is(f) == f = [i \in 1 .. N |-> IF i = 1 THEN seqs[i] ELSE f[i - 1] \o seqs[i]]
             flatten == CHOOSE f : Is(f)
             Good(i) == flatten[i] \in Seq(T) /\ Len(flatten[i]) > 0
             S == {i \in Nat : i \in 1 .. N /\ ~ Good(i)}
  <1>1. FlattenSeq(seqs) = flatten[N]
    BY DEF FlattenSeq
  <1>2. \E f : Is(f)
    <2>1. N \in Nat /\ N > 0
      OBVIOUS
    <2> HIDE DEF N
    <2> QED BY <2>1, FlattenExists
  <1> HIDE DEF Is
  <1>3. Is(flatten)
    BY <1>2
  <1>4. \A i \in 1 .. N : flatten[i] = IF i = 1 THEN seqs[i] ELSE flatten[i - 1] \o seqs[i]
    <2> HIDE DEF flatten
    <2> QED BY <1>3 DEF Is
  <1> HIDE DEF flatten
  <1>5. S = {}
    <2> SUFFICES ASSUME S # {} PROVE FALSE
      OBVIOUS
    <2>1. PICK i \in S : \A k \in S : i <= k
      BY LeastNatural
    <2>2. i \in 1 .. N /\ i \in Nat /\ ~ Good(i)
      BY <2>1
    <2>3. seqs[i] \in Seq(T) /\ Len(seqs[i]) > 0
      BY <2>2
    <2>4. i # 1
      BY <1>4, <2>2, <2>3
    <2>5. i - 1 \in 1 .. N /\ i - 1 \in Nat /\ i - 1 < i
      BY <2>2, <2>4
    <2>6. i - 1 \notin S
      BY <2>1, <2>5
    <2>7. Good(i - 1)
      BY <2>5, <2>6
    <2>8. flatten[i] = flatten[i - 1] \o seqs[i]
      BY <1>4, <2>2, <2>4
    <2>9. Good(i)
      <3>1. \A s, t \in Seq(T) : s \o t \in Seq(T) /\ Len(s \o t) = Len(s) + Len(t)
        BY ConcatProperties
      <3>2. /\ flatten[i] \in Seq(T)
            /\ Len(flatten[i]) = Len(flatten[i - 1]) + Len(seqs[i])
        BY <2>3, <2>7, <2>8, <3>1
      <3>3. Len(flatten[i - 1]) \in Nat /\ Len(seqs[i]) \in Nat
        BY <2>3, <2>7
      <3>4. Len(flatten[i - 1]) > 0 /\ Len(seqs[i]) > 0
        BY <2>3, <2>7
      <3>5. Len(flatten[i - 1]) + Len(seqs[i]) > 0
        <4>1. \A p, q \in Nat : p > 0 /\ q > 0 => p + q > 0
          OBVIOUS
        <4> QED BY <3>3, <3>4, <4>1, Zenon
      <3> QED BY <3>2, <3>5
    <2> QED BY <2>2, <2>9
  <1>6. Good(N)
    BY <1>5
  <1> QED BY <1>1, <1>6

\* A label of a batch, without the lists of its numbers.
LEMMA LabelFacts ==
  ASSUME NEW l \in LabelJobs
  PROVE  /\ l.autoCut \in BOOLEAN /\ l.hires \in BOOLEAN /\ l.quality \in BOOLEAN
         /\ DieCutType(l) \in BOOLEAN /\ l.feedDots \in Int /\ l.rows \in Nat
         /\ l.cutEvery \in Octets /\ l.copies \in Octets \ {0}
         /\ l.media \in MediaTable
  BY DEF LabelJobs, DieCutType

\* The media table says of every label whether it is a die-cut label, and what
\* is fed for it.
LEMMA MediaFacts ==
  ASSUME NEW m \in MediaTable
  PROVE  /\ m.form \in {"endless", "diecut", "round"}
         /\ m.feed = IF m.form = "endless" \/ (m.form = "round" /\ m.width = 12) THEN 35 ELSE 0
  BY DEF MediaTable, Tape, DieCut, Round, Media

\* The feed that is sent is the feed that is wanted.
LEMMA FeedFacts ==
  ASSUME NEW l \in LabelJobs
  PROVE  /\ FeedOf(l) = FeedWanted(l) /\ FeedOf(l) \in Nat
         /\ DieCutType(l) = (l.media.form \in {"diecut", "round"})
  <1>1. l.feedDots \in Int /\ l.media \in MediaTable
    BY LabelFacts
  <1>2. /\ l.media.form \in {"endless", "diecut", "round"}
        /\ l.media.feed = IF l.media.form = "endless" \/ (l.media.form = "round" /\ l.media.width = 12)
                         THEN 35 ELSE 0
    BY <1>1, MediaFacts
  <1>3. FeedOf(l) = FeedWanted(l)
    BY <1>2 DEF FeedOf, FeedWanted
  <1>4. FeedOf(l) \in Nat
    BY <1>1, <1>2 DEF FeedOf
  <1> QED BY <1>2, <1>3, <1>4 DEF DieCutType

\* An octet, without the list of its values.
LEMMA OctetFacts == \A b : b \in Octets <=> b \in Int /\ 0 <= b /\ b <= 255
  <1>1. ASSUME NEW m \in Int, NEW n \in Int
        PROVE  \A b : b \in m .. n <=> b \in Int /\ m <= b /\ b <= n
    OBVIOUS
  <1> QED BY <1>1 DEF Octets

\* A batch makes at least one page, and every page is a label.
LEMMA PagesFacts ==
  ASSUME NEW b \in Batches
  PROVE  PagesOf(b) \in Seq(LabelJobs) /\ Len(PagesOf(b)) > 0
  <1>1. b \in Seq(LabelJobs) /\ b # <<>>
    BY StreamAssumption
  <1>2. Len(b) \in Nat /\ Len(b) > 0 /\ DOMAIN b = 1 .. Len(b)
    BY <1>1
  <1> DEFINE seqs == [j \in DOMAIN b |-> [c \in 1 .. b[j].copies |-> b[j]]]
  <1>3. ASSUME NEW j \in 1 .. Len(b)
        PROVE  seqs[j] \in Seq(LabelJobs) /\ Len(seqs[j]) > 0
    <2>1. b[j] \in LabelJobs
      BY <1>1, ElementOfSeq
    <2>2. b[j].copies \in Nat /\ b[j].copies > 0
      BY <2>1, LabelFacts, OctetFacts
    <2>3. seqs[j] = [c \in 1 .. b[j].copies |-> b[j]]
      BY <1>2
    <2>4. \A n \in Nat, l \in LabelJobs :
            n > 0 => /\ [c \in 1 .. n |-> l] \in Seq(LabelJobs)
                     /\ Len([c \in 1 .. n |-> l]) > 0
      OBVIOUS
    <2> QED BY <2>1, <2>2, <2>3, <2>4
  <1>4. Len(seqs) = Len(b)
    BY <1>2
  <1> HIDE DEF seqs
  <1>5. FlattenSeq(seqs) \in Seq(LabelJobs) /\ Len(FlattenSeq(seqs)) > 0
    BY <1>2, <1>3, <1>4, FlattenFacts
  <1> QED BY <1>5 DEF seqs, PagesOf

-----------------------------------------------------------------------------
OffStored == IF asked.off = Keep THEN memory0.off ELSE asked.off \div 10
OnStored == IF asked.on = Keep THEN memory0.on ELSE asked.on

\* The pages printed so far, and what the printer knows of the page it gets:
\* more with every step.
PrintedInv ==
  step \in JobSteps \ {"preflight", "invalidate", "initialize"} =>
    /\ printed \in Seq({PageWanted(n) : n \in 1 .. Len(pages)})
    /\ Len(printed) = IF step = "collect" THEN Len(pages) ELSE pageNo - 1
    /\ \A n \in 1 .. Len(printed) : printed[n] = PageWanted(n)

PageInv ==
  /\ step \in {"preflight", "invalidate", "initialize"} => pageNo = 1
  /\ step \in {"status", "information", "eachMode", "cutEvery", "expanded", "margin"} => got = 0
  /\ step \in {"eachMode", "cutEvery", "expanded", "margin", "rows"} =>
       info = [rows |-> Page.rows, first |-> pageNo = 1, quality |-> Page.quality,
               dieCut |-> DieCutType(Page)]
  /\ step \in {"cutEvery", "expanded", "margin", "rows"} => modes.autoCut = Page.autoCut
  /\ step = "cutEvery" => Page.autoCut
  /\ step \in {"expanded", "margin", "rows"} /\ Page.autoCut => modes.cutEvery = Page.cutEvery
  /\ step \in {"margin", "rows"} => modes.cutAtEnd = Page.autoCut /\ modes.hires = Page.hires
  /\ step = "rows" => modes.feed = FeedOf(Page) % 65536 /\ got + rowsLeft = Page.rows

SettingsInv ==
  /\ step \in {"invalidate", "initialize", "autoOff"} => memory = memory0
  /\ step = "autoOn" => memory = [off |-> OffStored, on |-> memory0.on]
  /\ step = "verify" => memory = [off |-> OffStored, on |-> OnStored]

StreamInv ==
  /\ StreamTypeOK
  /\ asked \in [off : Minutes \union {Keep}, on : BOOLEAN \union {Keep}]
  /\ memory0 \in [off : 0 .. 6, on : BOOLEAN]
  /\ sending = "job" => pageNo >= 1
  /\ step \notin {"idle", "preflight", "invalidate"} => pending = 0
  /\ sending = "job" => PrintedInv /\ PageInv
  /\ sending = "settings" => SettingsInv

\* The step tells which kind of stream is being sent.
LEMMA StepFacts ==
  ASSUME StreamTypeOK
  PROVE  /\ sending = "nothing" <=> step = "idle"
         /\ step \in {"preflight", "status", "information", "eachMode", "cutEvery", "expanded",
                      "margin", "rows", "collect"} => sending = "job"
         /\ step \in {"autoOff", "autoOn", "verify"} => sending = "settings"
         /\ sending = "job" => step \in JobSteps
         /\ sending = "settings" => step \in SettingsSteps
  BY DEF StreamTypeOK, JobSteps, SettingsSteps

\* The page that is being sent is a label whose numbers fit their commands.
LEMMA PageFacts ==
  ASSUME StreamInv, sending = "job"
  PROVE  /\ Page \in LabelJobs /\ pageNo \in 1 .. Len(pages) /\ Len(pages) \in Nat
         /\ FeedOf(Page) \in Nat /\ FeedOf(Page) % 65536 \in Words
         /\ Page.cutEvery % 256 = Page.cutEvery
  <1>1. pages \in Seq(LabelJobs) /\ Len(pages) \in Nat /\ pageNo \in 1 .. Len(pages)
    BY DEF StreamInv, StreamTypeOK
  <1>2. Page \in LabelJobs
    BY <1>1, ElementOfSeq DEF Page
  <1>3. FeedOf(Page) \in Nat
    BY <1>2, FeedFacts
  <1>4. FeedOf(Page) % 65536 \in Words
    BY <1>3 DEF Words
  <1>5. Page.cutEvery % 256 = Page.cutEvery
    <2>1. Page.cutEvery \in Int /\ 0 <= Page.cutEvery /\ Page.cutEvery <= 255
      BY <1>2, LabelFacts, OctetFacts
    <2> QED BY <2>1
  <1> QED BY <1>1, <1>2, <1>3, <1>4, <1>5

\* The modes after ESC @ are modes.
LEMMA ModesFacts ==
  InitialModes \in [autoCut : BOOLEAN, cutEvery : Octets, cutAtEnd : BOOLEAN, hires : BOOLEAN,
                    feed : Words]
  <1>1. 1 \in Octets /\ 0 \in Words
    BY OctetFacts DEF Words
  <1> QED BY <1>1 DEF InitialModes

\* Nothing is sent at first.
LEMMA StreamInitEstablishes == StreamInit => StreamInv
  <1> SUFFICES ASSUME StreamInit PROVE StreamInv
    OBVIOUS
  <1>1. /\ sending = "nothing" /\ step = "idle" /\ pages = <<>> /\ pageNo = 0 /\ rowsLeft = 0
        /\ asked = [off |-> Keep, on |-> Keep] /\ streams = 0
        /\ pending = 0 /\ modes = InitialModes /\ info = NoInfo /\ got = 0
        /\ memory = [off |-> 6, on |-> FALSE] /\ memory0 = [off |-> 6, on |-> FALSE]
    BY DEF StreamInit
  <1>2. StreamTypeOK
    <2>1. pages \in Seq(LabelJobs) /\ pageNo \in 0 .. Len(pages)
      BY <1>1
    <2>2. streams \in 0 .. MaxStreams /\ pending \in 0 .. RowBytes + 2
      BY <1>1, StreamAssumption
    <2>3. info \in [rows : Nat, first : BOOLEAN, quality : BOOLEAN, dieCut : BOOLEAN]
      BY <1>1 DEF NoInfo
    <2>4. step \in CASE sending = "job" -> JobSteps [] sending = "settings" -> SettingsSteps
                     [] OTHER -> {"idle"}
      BY <1>1
    <2> QED BY <1>1, <2>1, <2>2, <2>3, <2>4, ModesFacts DEF StreamTypeOK
  <1> QED BY <1>1, <1>2 DEF StreamInv

\* A job begins with its first page.
LEMMA StartJobStep ==
  ASSUME StreamInv, NEW b \in Batches, StartJob(b)
  PROVE  StreamInv'
  <1>1. /\ streams < MaxStreams /\ sending' = "job" /\ step' = "preflight"
        /\ pages' = PagesOf(b) /\ pageNo' = 1 /\ rowsLeft' = 0
        /\ streams' = streams + 1
        /\ UNCHANGED <<asked, memory0, pending, modes, info, got, printed, memory>>
    BY DEF StartJob, printerVars
  <1>2. StreamTypeOK'
    <2>1. PagesOf(b) \in Seq(LabelJobs) /\ Len(PagesOf(b)) \in Nat /\ Len(PagesOf(b)) > 0
      BY PagesFacts
    <2>2. pages' \in Seq(LabelJobs) /\ pageNo' \in 0 .. Len(pages')
      BY <1>1, <2>1
    <2>3. streams' \in 0 .. MaxStreams
      BY <1>1, StreamAssumption DEF StreamInv, StreamTypeOK
    <2>4. step' \in JobSteps
      BY <1>1 DEF JobSteps
    <2> QED BY <1>1, <2>2, <2>3, <2>4 DEF StreamInv, StreamTypeOK
  <1>3. PrintedInv' /\ PageInv'
    BY <1>1 DEF PrintedInv, PageInv
  <1> QED BY <1>1, <1>2, <1>3 DEF StreamInv

\* A change of settings remembers what the memory holds.
LEMMA StartSettingsStep ==
  ASSUME StreamInv, NEW s \in SettingsAsked, StartSettings(s)
  PROVE  StreamInv'
  <1>1. /\ streams < MaxStreams /\ sending' = "settings" /\ step' = "invalidate"
        /\ s.off \in Minutes \union {Keep}
        /\ pages' = <<>> /\ pageNo' = 0 /\ asked' = s /\ memory0' = memory
        /\ streams' = streams + 1
        /\ UNCHANGED <<rowsLeft, pending, modes, info, got, printed, memory>>
    BY DEF StartSettings, printerVars
  <1>2. s \in [off : Minutes \union {Keep}, on : BOOLEAN \union {Keep}]
    <2>1. s \in [off : Int \union {Keep}, on : BOOLEAN \union {Keep}]
      BY StreamAssumption
    <2> QED BY <1>1, <2>1
  <1>3. StreamTypeOK'
    <2>1. pages' \in Seq(LabelJobs) /\ pageNo' \in 0 .. Len(pages')
      BY <1>1
    <2>2. streams' \in 0 .. MaxStreams
      BY <1>1, StreamAssumption DEF StreamInv, StreamTypeOK
    <2>3. step' \in SettingsSteps
      BY <1>1 DEF SettingsSteps
    <2> QED BY <1>1, <2>1, <2>2, <2>3 DEF StreamInv, StreamTypeOK
  <1>4. memory0' \in [off : 0 .. 6, on : BOOLEAN]
    BY <1>1 DEF StreamInv, StreamTypeOK
  <1>5. SettingsInv'
    BY <1>1 DEF SettingsInv
  <1> QED BY <1>1, <1>2, <1>3, <1>4, <1>5 DEF StreamInv

\* Steps that end the stream.
LEMMA StopStep ==
  ASSUME StreamInv, Stop, pending' \in 0 .. RowBytes + 2,
         UNCHANGED <<pages, pageNo, rowsLeft, asked, memory0, streams,
                     modes, info, got, printed, memory>>
  PROVE  StreamInv'
  <1>1. sending' = "nothing" /\ step' = "idle"
    BY DEF Stop
  <1>2. StreamTypeOK'
    BY <1>1 DEF StreamInv, StreamTypeOK
  <1> QED BY <1>1, <1>2 DEF StreamInv

\* What is left of a command never grows.
LEMMA AfterFacts ==
  ASSUME pending \in 0 .. RowBytes + 2, NEW n \in Nat
  PROVE  /\ After(n) \in 0 .. RowBytes + 2
         /\ pending = 0 => After(n) = 0
         /\ n >= RowBytes + 2 => After(n) = 0
  BY StreamAssumption DEF After

\* The preflight goes on or fails the job.
LEMMA PreflightStep ==
  ASSUME StreamInv, Preflight
  PROVE  StreamInv'
  <1>1. /\ step = "preflight" /\ pending' = After(3)
        /\ UNCHANGED <<pages, pageNo, rowsLeft, asked, memory0, streams,
                       modes, info, got, printed, memory>>
        /\ Stop \/ (step' = "invalidate" /\ UNCHANGED sending)
    BY DEF Preflight
  <1>2. pending' \in 0 .. RowBytes + 2
    BY <1>1, AfterFacts DEF StreamInv, StreamTypeOK
  <1>3. CASE Stop
    BY <1>1, <1>2, <1>3, StopStep
  <1>4. CASE step' = "invalidate" /\ UNCHANGED sending
    <2>1. sending = "job"
      BY <1>1, StepFacts DEF StreamInv
    <2>2. StreamTypeOK'
      BY <1>1, <1>2, <1>4, <2>1 DEF StreamInv, StreamTypeOK, JobSteps
    <2>3. PrintedInv' /\ PageInv'
      BY <1>1, <1>4, <2>1 DEF StreamInv, PrintedInv, PageInv
    <2> QED BY <1>1, <1>4, <2>1, <2>2, <2>3 DEF StreamInv
  <1> QED BY <1>1, <1>3, <1>4

\* Enough zero bytes complete whatever command was broken off.
LEMMA InvalidateStep ==
  ASSUME StreamInv, Invalidate
  PROVE  StreamInv'
  <1>1. /\ step = "invalidate" /\ pending' = After(InvalidateBytes) /\ step' = "initialize"
        /\ UNCHANGED <<sending, pages, pageNo, rowsLeft, asked, memory0, streams,
                       modes, info, got, printed, memory>>
    BY DEF Invalidate, Invalidated, HostKeeps
  <1>2. pending' = 0
    BY <1>1, AfterFacts, StreamAssumption DEF StreamInv, StreamTypeOK
  <1>3. sending \in {"job", "settings"}
    BY <1>1, StepFacts DEF StreamInv, StreamTypeOK
  <1>4. StreamTypeOK'
    BY <1>1, <1>2, <1>3, StreamAssumption DEF StreamInv, StreamTypeOK, JobSteps, SettingsSteps
  <1>5. sending = "job" => PrintedInv' /\ PageInv'
    BY <1>1 DEF StreamInv, PrintedInv, PageInv
  <1>6. sending = "settings" => SettingsInv'
    BY <1>1 DEF SettingsInv, StreamInv
  <1> QED BY <1>1, <1>2, <1>4, <1>5, <1>6 DEF StreamInv

\* ESC @ forgets all pages and modes of earlier streams.
LEMMA InitializeStep ==
  ASSUME StreamInv, Initialize
  PROVE  StreamInv'
  <1>1. /\ step = "initialize" /\ pending = 0
        /\ UNCHANGED <<sending, pages, pageNo, rowsLeft, asked, memory0, streams>>
        /\ step' = IF sending = "job" THEN "status" ELSE "autoOff"
    BY DEF Initialize, HostKeeps, StreamInv
  <1>2. /\ pending' = 0 /\ modes' = InitialModes /\ info' = NoInfo /\ got' = 0
        /\ printed' = <<>> /\ memory' = memory
    BY <1>1 DEF Initialize, Write, Reads, After, Initialized
  <1>3. sending \in {"job", "settings"}
    BY <1>1, StepFacts DEF StreamInv, StreamTypeOK
  <1>4. StreamTypeOK'
    <2>1. info' \in [rows : Nat, first : BOOLEAN, quality : BOOLEAN, dieCut : BOOLEAN]
      BY <1>2 DEF NoInfo
    <2>2. pending' \in 0 .. RowBytes + 2
      BY <1>2, StreamAssumption
    <2>3. modes' \in [autoCut : BOOLEAN, cutEvery : Octets, cutAtEnd : BOOLEAN, hires : BOOLEAN,
                      feed : Words]
      BY <1>2, ModesFacts
    <2>4. step' \in CASE sending = "job" -> JobSteps [] sending = "settings" -> SettingsSteps
                      [] OTHER -> {"idle"}
      BY <1>1, <1>3 DEF JobSteps, SettingsSteps
    <2> QED BY <1>1, <1>2, <2>1, <2>2, <2>3, <2>4 DEF StreamInv, StreamTypeOK
  <1>5. CASE sending = "job"
    <2>1. step' = "status" /\ pageNo = 1
      BY <1>1, <1>5 DEF StreamInv, PageInv
    <2>2. PrintedInv'
      <3>1. printed' \in Seq({PageWanted(n)' : n \in 1 .. Len(pages')}) /\ Len(printed') = 0
        BY <1>2
      <3> QED BY <1>1, <2>1, <3>1 DEF PrintedInv
    <2>3. PageInv'
      BY <1>2, <2>1 DEF PageInv
    <2> QED BY <1>1, <1>2, <1>4, <1>5, <2>2, <2>3 DEF StreamInv
  <1>6. CASE sending = "settings"
    <2>1. step' = "autoOff"
      BY <1>1, <1>6
    <2>2. SettingsInv'
      BY <1>1, <1>2, <1>6, <2>1 DEF StreamInv, SettingsInv
    <2> QED BY <1>1, <1>2, <1>4, <1>6, <2>2 DEF StreamInv
  <1> QED BY <1>3, <1>5, <1>6

\* Within the commands of a page the pages printed before it stay.
LEMMA PrintedStays ==
  ASSUME StreamInv, sending = "job", UNCHANGED <<pages, pageNo, printed>>,
         step \in {"status", "information", "eachMode", "cutEvery", "expanded", "margin", "rows"},
         step' \in {"status", "information", "eachMode", "cutEvery", "expanded", "margin",
                    "rows"}
  PROVE  PrintedInv'
  <1>1. /\ printed \in Seq({PageWanted(n) : n \in 1 .. Len(pages)})
        /\ Len(printed) = pageNo - 1
        /\ \A n \in 1 .. Len(printed) : printed[n] = PageWanted(n)
    BY DEF StreamInv, PrintedInv, JobSteps
  <1>2. \A n : PageWanted(n)' = PageWanted(n)
    BY DEF PageWanted
  <1>3. {PageWanted(n)' : n \in 1 .. Len(pages')} = {PageWanted(n) : n \in 1 .. Len(pages)}
    BY <1>2
  <1>4. printed' \in Seq({PageWanted(n)' : n \in 1 .. Len(pages')})
    BY <1>1, <1>3
  <1>5. \A n \in 1 .. Len(printed') : printed'[n] = PageWanted(n)'
    BY <1>1, <1>2
  <1>6. Len(printed') = IF step' = "collect" THEN Len(pages') ELSE pageNo' - 1
    BY <1>1
  <1> QED BY <1>4, <1>5, <1>6 DEF PrintedInv

\* A command of a page that only tells the printer something: the host goes on
\* to the next command, and what is not told stays.
LEMMA PageCommand ==
  ASSUME StreamInv, sending = "job", UNCHANGED <<sending, pages, pageNo, asked, memory0, streams,
                                                printed, memory>>,
         step \in {"status", "information", "eachMode", "cutEvery", "expanded", "margin", "rows"},
         step' \in {"status", "information", "eachMode", "cutEvery", "expanded", "margin",
                    "rows"},
         pending' = 0, rowsLeft' \in Nat, got' \in Nat,
         modes' \in [autoCut : BOOLEAN, cutEvery : Octets, cutAtEnd : BOOLEAN, hires : BOOLEAN,
                     feed : Words],
         info' \in [rows : Nat, first : BOOLEAN, quality : BOOLEAN, dieCut : BOOLEAN],
         PageInv'
  PROVE  StreamInv'
  <1>1. PrintedInv'
    BY PrintedStays
  <1>2. StreamTypeOK'
    <2>1. pending' \in 0 .. RowBytes + 2 /\ step' \in JobSteps
      BY StreamAssumption DEF JobSteps
    <2> QED BY <2>1 DEF StreamInv, StreamTypeOK
  <1> QED BY <1>1, <1>2 DEF StreamInv

\* One lemma per command of a page.
LEMMA StatusRequestStep ==
  ASSUME StreamInv, StatusRequest
  PROVE  StreamInv'
  <1>1. step = "status" /\ pending = 0 /\ sending = "job" /\ got = 0
    BY StepFacts DEF StatusRequest, StreamInv, PageInv
  <1>2. /\ step' = "information" /\ pending' = 0
        /\ UNCHANGED <<sending, pages, pageNo, rowsLeft, asked, memory0, streams,
                       modes, info, got, printed, memory>>
    BY <1>1 DEF StatusRequest, HostKeeps, Write, Reads, After
  <1>3. PageInv'
    BY <1>1, <1>2 DEF PageInv
  <1>4. /\ rowsLeft' \in Nat /\ got' \in Nat
        /\ modes' \in [autoCut : BOOLEAN, cutEvery : Octets, cutAtEnd : BOOLEAN, hires : BOOLEAN,
                       feed : Words]
        /\ info' \in [rows : Nat, first : BOOLEAN, quality : BOOLEAN, dieCut : BOOLEAN]
    BY <1>2 DEF StreamInv, StreamTypeOK
  <1> QED BY <1>1, <1>2, <1>3, <1>4, PageCommand

LEMMA PrintInformationStep ==
  ASSUME StreamInv, PrintInformation
  PROVE  StreamInv'
  <1>1. step = "information" /\ pending = 0 /\ sending = "job" /\ got = 0
    BY StepFacts DEF PrintInformation, StreamInv, PageInv
  <1>2. /\ step' = "eachMode" /\ pending' = 0
        /\ info' = [rows |-> Page.rows, first |-> pageNo = 1,
                    quality |-> Page.quality, dieCut |-> DieCutType(Page)]
        /\ UNCHANGED <<sending, pages, pageNo, rowsLeft, asked, memory0, streams,
                       modes, got, printed, memory>>
    BY <1>1 DEF PrintInformation, HostKeeps, Write, Reads, After
  <1>3. Page' = Page
    BY <1>2 DEF Page
  <1>4. PageInv'
    BY <1>1, <1>2, <1>3 DEF PageInv
  <1>5. /\ rowsLeft' \in Nat /\ got' \in Nat
        /\ modes' \in [autoCut : BOOLEAN, cutEvery : Octets, cutAtEnd : BOOLEAN, hires : BOOLEAN,
                       feed : Words]
    BY <1>2 DEF StreamInv, StreamTypeOK
  <1>6. info' \in [rows : Nat, first : BOOLEAN, quality : BOOLEAN, dieCut : BOOLEAN]
    BY <1>1, <1>2, PageFacts, LabelFacts
  <1> QED BY <1>1, <1>2, <1>4, <1>5, <1>6, PageCommand

LEMMA SetEachModeStep ==
  ASSUME StreamInv, SetEachMode
  PROVE  StreamInv'
  <1>1. step = "eachMode" /\ pending = 0 /\ sending = "job" /\ PageInv
    BY StepFacts DEF SetEachMode, StreamInv
  <1>2. /\ step' = (IF Page.autoCut THEN "cutEvery" ELSE "expanded") /\ pending' = 0
        /\ modes' = [modes EXCEPT !.autoCut = Page.autoCut]
        /\ UNCHANGED <<sending, pages, pageNo, rowsLeft, asked, memory0, streams,
                       info, got, printed, memory>>
    BY <1>1 DEF SetEachMode, HostKeeps, Write, Reads, After, SetModes
  <1>3. Page' = Page /\ Page \in LabelJobs /\ Page.autoCut \in BOOLEAN
    BY <1>1, <1>2, PageFacts, LabelFacts DEF Page
  <1>4. /\ rowsLeft' \in Nat /\ got' \in Nat
        /\ modes \in [autoCut : BOOLEAN, cutEvery : Octets, cutAtEnd : BOOLEAN, hires : BOOLEAN,
                      feed : Words]
        /\ info' \in [rows : Nat, first : BOOLEAN, quality : BOOLEAN, dieCut : BOOLEAN]
    BY <1>2 DEF StreamInv, StreamTypeOK
  <1>5. /\ modes' \in [autoCut : BOOLEAN, cutEvery : Octets, cutAtEnd : BOOLEAN, hires : BOOLEAN,
                       feed : Words]
        /\ modes'.autoCut = Page.autoCut
    BY <1>2, <1>3, <1>4
  <1>6. PageInv'
    BY <1>1, <1>2, <1>3, <1>5 DEF PageInv
  <1>7. step' \in {"cutEvery", "expanded"}
    BY <1>2
  <1> QED BY <1>1, <1>2, <1>4, <1>5, <1>6, <1>7, PageCommand

LEMMA CutEveryStep ==
  ASSUME StreamInv, CutEvery
  PROVE  StreamInv'
  <1>1. step = "cutEvery" /\ pending = 0 /\ sending = "job" /\ PageInv
    BY StepFacts DEF CutEvery, StreamInv
  <1>2. /\ step' = "expanded" /\ pending' = 0
        /\ modes' = [modes EXCEPT !.cutEvery = Page.cutEvery % 256]
        /\ UNCHANGED <<sending, pages, pageNo, rowsLeft, asked, memory0, streams,
                       info, got, printed, memory>>
    BY <1>1 DEF CutEvery, HostKeeps, Write, Reads, After, SetModes
  <1>3. Page' = Page /\ Page.cutEvery \in Octets /\ Page.cutEvery % 256 = Page.cutEvery
    BY <1>1, <1>2, PageFacts, LabelFacts DEF Page
  <1>4. /\ rowsLeft' \in Nat /\ got' \in Nat
        /\ modes \in [autoCut : BOOLEAN, cutEvery : Octets, cutAtEnd : BOOLEAN, hires : BOOLEAN,
                      feed : Words]
        /\ info' \in [rows : Nat, first : BOOLEAN, quality : BOOLEAN, dieCut : BOOLEAN]
    BY <1>2 DEF StreamInv, StreamTypeOK
  <1>5. /\ modes' \in [autoCut : BOOLEAN, cutEvery : Octets, cutAtEnd : BOOLEAN, hires : BOOLEAN,
                       feed : Words]
        /\ modes'.autoCut = modes.autoCut /\ modes'.cutEvery = Page.cutEvery
    BY <1>2, <1>3, <1>4
  <1>6. PageInv'
    BY <1>1, <1>2, <1>3, <1>5 DEF PageInv
  <1> QED BY <1>1, <1>2, <1>4, <1>5, <1>6, PageCommand

LEMMA SetExpandedModeStep ==
  ASSUME StreamInv, SetExpandedMode
  PROVE  StreamInv'
  <1>1. step = "expanded" /\ pending = 0 /\ sending = "job" /\ PageInv
    BY StepFacts DEF SetExpandedMode, StreamInv
  <1>2. /\ step' = "margin" /\ pending' = 0
        /\ modes' = [modes EXCEPT !.cutAtEnd = Page.autoCut, !.hires = Page.hires]
        /\ UNCHANGED <<sending, pages, pageNo, rowsLeft, asked, memory0, streams,
                       info, got, printed, memory>>
    BY <1>1 DEF SetExpandedMode, HostKeeps, Write, Reads, After, SetModes
  <1>3. Page' = Page /\ Page.autoCut \in BOOLEAN /\ Page.hires \in BOOLEAN
    BY <1>1, <1>2, PageFacts, LabelFacts DEF Page
  <1>4. /\ rowsLeft' \in Nat /\ got' \in Nat
        /\ modes \in [autoCut : BOOLEAN, cutEvery : Octets, cutAtEnd : BOOLEAN, hires : BOOLEAN,
                      feed : Words]
        /\ info' \in [rows : Nat, first : BOOLEAN, quality : BOOLEAN, dieCut : BOOLEAN]
    BY <1>2 DEF StreamInv, StreamTypeOK
  <1>5. /\ modes' \in [autoCut : BOOLEAN, cutEvery : Octets, cutAtEnd : BOOLEAN, hires : BOOLEAN,
                       feed : Words]
        /\ modes'.autoCut = modes.autoCut /\ modes'.cutEvery = modes.cutEvery
        /\ modes'.cutAtEnd = Page.autoCut /\ modes'.hires = Page.hires
    BY <1>2, <1>3, <1>4
  <1>6. PageInv'
    BY <1>1, <1>2, <1>3, <1>5 DEF PageInv
  <1> QED BY <1>1, <1>2, <1>4, <1>5, <1>6, PageCommand

LEMMA SetMarginStep ==
  ASSUME StreamInv, SetMargin
  PROVE  StreamInv'
  <1>1. step = "margin" /\ pending = 0 /\ sending = "job" /\ PageInv
    BY StepFacts DEF SetMargin, StreamInv
  <1>2. /\ step' = "rows" /\ pending' = 0 /\ rowsLeft' = Page.rows
        /\ modes' = [modes EXCEPT !.feed = FeedOf(Page) % 65536]
        /\ UNCHANGED <<sending, pages, pageNo, asked, memory0, streams,
                       info, got, printed, memory>>
    BY <1>1 DEF SetMargin, Write, Reads, After, SetModes, FeedBytes
  <1>3. /\ Page' = Page /\ Page.rows \in Nat /\ FeedOf(Page)' = FeedOf(Page)
        /\ FeedOf(Page) % 65536 \in Words
    BY <1>1, <1>2, PageFacts, LabelFacts DEF Page, FeedOf
  <1>4. /\ rowsLeft' \in Nat /\ got' \in Nat
        /\ modes \in [autoCut : BOOLEAN, cutEvery : Octets, cutAtEnd : BOOLEAN, hires : BOOLEAN,
                      feed : Words]
        /\ info' \in [rows : Nat, first : BOOLEAN, quality : BOOLEAN, dieCut : BOOLEAN]
    BY <1>2, <1>3 DEF StreamInv, StreamTypeOK
  <1>5. /\ modes' \in [autoCut : BOOLEAN, cutEvery : Octets, cutAtEnd : BOOLEAN, hires : BOOLEAN,
                       feed : Words]
        /\ modes'.autoCut = modes.autoCut /\ modes'.cutEvery = modes.cutEvery
        /\ modes'.cutAtEnd = modes.cutAtEnd /\ modes'.hires = modes.hires
        /\ modes'.feed = FeedOf(Page) % 65536
    BY <1>2, <1>3, <1>4
  <1>6. got' + rowsLeft' = Page.rows
    BY <1>1, <1>2, <1>3 DEF PageInv
  <1>7. PageInv'
    BY <1>1, <1>2, <1>3, <1>5, <1>6 DEF PageInv
  <1> QED BY <1>1, <1>2, <1>4, <1>5, <1>7, PageCommand

LEMMA RasterRowStep ==
  ASSUME StreamInv, RasterRow
  PROVE  StreamInv'
  <1>1. step = "rows" /\ pending = 0 /\ sending = "job" /\ PageInv /\ rowsLeft > 0
    BY StepFacts DEF RasterRow, StreamInv
  <1>2. /\ step' = "rows" /\ pending' = 0 /\ rowsLeft' = rowsLeft - 1 /\ got' = got + 1
        /\ UNCHANGED <<sending, pages, pageNo, asked, memory0, streams,
                       modes, info, printed, memory>>
    BY <1>1, StreamAssumption DEF RasterRow, Write, Reads, After
  <1>3. Page' = Page /\ FeedOf(Page)' = FeedOf(Page)
    BY <1>2 DEF Page, FeedOf
  <1>4. rowsLeft \in Nat /\ got \in Nat
    BY DEF StreamInv, StreamTypeOK
  <1>5. /\ rowsLeft' \in Nat /\ got' \in Nat
        /\ modes' \in [autoCut : BOOLEAN, cutEvery : Octets, cutAtEnd : BOOLEAN, hires : BOOLEAN,
                      feed : Words]
        /\ info' \in [rows : Nat, first : BOOLEAN, quality : BOOLEAN, dieCut : BOOLEAN]
    BY <1>1, <1>2, <1>4 DEF StreamInv, StreamTypeOK
  <1>6. got' + rowsLeft' = Page.rows
    <2>1. got + rowsLeft = Page.rows
      BY <1>1 DEF PageInv
    <2>2. got' + rowsLeft' = got + rowsLeft
      BY <1>2, <1>4
    <2> QED BY <2>1, <2>2
  <1>7. PageInv'
    BY <1>1, <1>2, <1>3, <1>6 DEF PageInv
  <1> QED BY <1>1, <1>2, <1>5, <1>7, PageCommand

\* The page that is printed is the page its label wants.
LEMMA PrintCommandStep ==
  ASSUME StreamInv, PrintCommand
  PROVE  StreamInv'
  <1>1. step = "rows" /\ pending = 0 /\ sending = "job" /\ PageInv /\ rowsLeft = 0
    BY StepFacts DEF PrintCommand, StreamInv
  <1> DEFINE page == [rows |-> got, announced |-> info.rows, first |-> info.first,
                      last |-> pageNo = Len(pages),
                      quality |-> info.quality, dieCut |-> info.dieCut, autoCut |-> modes.autoCut,
                      cutEvery |-> IF modes.autoCut THEN modes.cutEvery ELSE 0,
                      cutAtEnd |-> modes.cutAtEnd, hires |-> modes.hires, feed |-> modes.feed]
  <1>2. /\ pending' = 0 /\ printed' = Append(printed, page) /\ got' = 0
        /\ IF pageNo = Len(pages)
           THEN step' = "collect" /\ UNCHANGED pageNo
           ELSE step' = "status" /\ pageNo' = pageNo + 1
        /\ UNCHANGED <<sending, pages, rowsLeft, asked, memory0, streams, modes, info, memory>>
    <2>1. /\ pending' = 0 /\ PagePrinted(pageNo = Len(pages))
      BY <1>1 DEF PrintCommand, Write, Reads, After
    <2>2. /\ printed' = Append(printed, page) /\ got' = 0
          /\ UNCHANGED <<modes, info, memory>>
      BY <2>1 DEF PagePrinted
    <2>3. /\ IF pageNo = Len(pages)
             THEN step' = "collect" /\ UNCHANGED pageNo
             ELSE step' = "status" /\ pageNo' = pageNo + 1
          /\ UNCHANGED <<sending, pages, rowsLeft, asked, memory0, streams>>
      BY DEF PrintCommand, NextPage
    <2> QED BY <2>1, <2>2, <2>3
  <1>3. /\ Page \in LabelJobs /\ pageNo \in 1 .. Len(pages) /\ Len(pages) \in Nat
        /\ pages \in Seq(LabelJobs)
    BY <1>1, PageFacts DEF StreamInv, StreamTypeOK
  <1>4. page = PageWanted(pageNo)
    <2>1. /\ got = Page.rows
          /\ info = [rows |-> Page.rows, first |-> pageNo = 1, quality |-> Page.quality,
                     dieCut |-> DieCutType(Page)]
          /\ modes.autoCut = Page.autoCut
          /\ Page.autoCut => modes.cutEvery = Page.cutEvery
          /\ modes.cutAtEnd = Page.autoCut /\ modes.hires = Page.hires
          /\ modes.feed = FeedOf(Page) % 65536
      <3>1. got + rowsLeft = Page.rows /\ got \in Nat
        BY <1>1 DEF PageInv, StreamInv, StreamTypeOK
      <3>2. got = Page.rows
        BY <1>1, <3>1
      <3> QED BY <1>1, <3>2 DEF PageInv
    <2>2. page.cutEvery = IF Page.autoCut THEN Page.cutEvery ELSE 0
      BY <2>1
    <2>3. FeedOf(Page) = FeedWanted(Page) /\ DieCutType(Page) = (Page.media.form \in {"diecut", "round"})
      BY <1>3, FeedFacts
    <2> QED BY <2>1, <2>2, <2>3 DEF PageWanted, Page
  <1>5. /\ printed \in Seq({PageWanted(n) : n \in 1 .. Len(pages)})
        /\ Len(printed) = pageNo - 1
        /\ \A n \in 1 .. Len(printed) : printed[n] = PageWanted(n)
    BY <1>1 DEF StreamInv, PrintedInv, JobSteps
  <1> HIDE DEF page
  <1>6. \A n : PageWanted(n)' = PageWanted(n)
    BY <1>2 DEF PageWanted
  <1>7. PrintedInv'
    <2> DEFINE Pages == {PageWanted(n) : n \in 1 .. Len(pages)}
    <2>1. {PageWanted(n)' : n \in 1 .. Len(pages')} = Pages
      BY <1>2, <1>6
    <2>2. page \in Pages
      BY <1>3, <1>4
    <2>3. printed \in Seq(Pages)
      BY <1>5
    <2> HIDE DEF Pages
    <2>4. /\ printed' \in Seq(Pages) /\ Len(printed') = pageNo
          /\ \A n \in 1 .. Len(printed) : printed'[n] = printed[n]
          /\ printed'[pageNo] = page
      BY <1>2, <1>3, <1>5, <2>2, <2>3
    <2>5. \A n \in 1 .. Len(printed') : printed'[n] = PageWanted(n)'
      BY <1>3, <1>4, <1>5, <1>6, <2>4
    <2>6. Len(printed') = IF step' = "collect" THEN Len(pages') ELSE pageNo' - 1
      BY <1>2, <1>3, <2>4
    <2> QED BY <2>1, <2>4, <2>5, <2>6 DEF PrintedInv
  <1>8. PageInv'
    BY <1>2 DEF PageInv
  <1>9. StreamTypeOK' /\ pageNo' >= 1
    <2>1. pageNo' \in 0 .. Len(pages') /\ pageNo' >= 1
      BY <1>2, <1>3
    <2>2. pending' \in 0 .. RowBytes + 2 /\ step' \in JobSteps
      BY <1>2, StreamAssumption DEF JobSteps
    <2>3. pages' \in Seq(LabelJobs) /\ got' \in Nat
      BY <1>2, <1>3
    <2> QED BY <1>1, <1>2, <2>1, <2>2, <2>3 DEF StreamInv, StreamTypeOK
  <1> QED BY <1>1, <1>2, <1>7, <1>8, <1>9 DEF StreamInv

\* The steps that end a stream: a collected job, a verified setting and a
\* write that fails.
LEMMA EndStep ==
  ASSUME StreamInv, Collected \/ Verify \/ Interrupted
  PROVE  StreamInv'
  <1>0. pending \in 0 .. RowBytes + 2
    BY DEF StreamInv, StreamTypeOK
  <1>1. /\ Stop
        /\ UNCHANGED <<pages, pageNo, rowsLeft, asked, memory0, streams,
                       modes, info, got, printed, memory>>
    BY DEF Collected, Verify, Interrupted, printerVars
  <1>2. pending' \in 0 .. RowBytes + 2
    <2>1. CASE Collected
      BY <1>0, <2>1 DEF Collected, printerVars
    <2>2. CASE Verify
      BY <1>0, <2>2, AfterFacts DEF Verify
    <2>3. CASE Interrupted
      <3>1. pending' = pending \/ pending' \in {1, RowBytes + 2}
        BY <2>3 DEF Interrupted
      <3> QED BY <1>0, <3>1, StreamAssumption
    <2> QED BY <2>1, <2>2, <2>3
  <1> QED BY <1>1, <1>2, StopStep

\* A command of device settings stores a setting or leaves the memory alone.
LEMMA SettingsCommand ==
  ASSUME StreamInv, sending = "settings",
         UNCHANGED <<sending, pages, pageNo, rowsLeft, asked, memory0, streams,
                     modes, info, got, printed>>,
         pending' = 0, step' \in {"autoOn", "verify"},
         memory' \in [off : 0 .. 6, on : BOOLEAN], SettingsInv'
  PROVE  StreamInv'
  <1>1. StreamTypeOK'
    <2>1. pending' \in 0 .. RowBytes + 2 /\ step' \in SettingsSteps
      BY StreamAssumption DEF SettingsSteps
    <2> QED BY <2>1 DEF StreamInv, StreamTypeOK
  <1> QED BY <1>1 DEF StreamInv

\* What is asked for, and what it is stored as.
LEMMA StoredFacts ==
  ASSUME StreamInv
  PROVE  /\ memory \in [off : 0 .. 6, on : BOOLEAN] /\ memory0 \in [off : 0 .. 6, on : BOOLEAN]
         /\ asked.off # Keep => asked.off \div 10 \in 0 .. 6
         /\ asked.on # Keep => asked.on \in BOOLEAN
  <1>1. asked \in [off : Minutes \union {Keep}, on : BOOLEAN \union {Keep}]
    BY DEF StreamInv
  <1>2. \A m \in Minutes : m \div 10 \in 0 .. 6
    BY DEF Minutes
  <1> QED BY <1>1, <1>2 DEF StreamInv, StreamTypeOK

\* The auto-off time is stored.
LEMMA SetAutoOffStep ==
  ASSUME StreamInv, SetAutoOff
  PROVE  StreamInv'
  <1>1. step = "autoOff" /\ pending = 0 /\ sending = "settings" /\ SettingsInv
    BY StepFacts DEF SetAutoOff, StreamInv
  <1>2. /\ step' = "autoOn" /\ pending' = 0
        /\ UNCHANGED <<sending, pages, pageNo, rowsLeft, asked, memory0, streams,
                       modes, info, got, printed>>
        /\ memory' = IF asked.off = Keep THEN memory
                     ELSE [memory EXCEPT !.off = asked.off \div 10]
    BY <1>1 DEF SetAutoOff, HostKeeps, printerVars, Write, Reads, After
  <1>3. memory' \in [off : 0 .. 6, on : BOOLEAN]
    BY <1>2, StoredFacts
  <1>4. memory = memory0
    BY <1>1 DEF SettingsInv
  <1>5. memory' = [off |-> OffStored, on |-> memory0.on]
    BY <1>2, <1>4, StoredFacts DEF OffStored
  <1>6. SettingsInv'
    BY <1>2, <1>5 DEF SettingsInv, OffStored
  <1> QED BY <1>1, <1>2, <1>3, <1>6, SettingsCommand

\* The auto-on flag is stored.
LEMMA SetAutoOnStep ==
  ASSUME StreamInv, SetAutoOn
  PROVE  StreamInv'
  <1>1. step = "autoOn" /\ pending = 0 /\ sending = "settings" /\ SettingsInv
    BY StepFacts DEF SetAutoOn, StreamInv
  <1>2. /\ step' = "verify" /\ pending' = 0
        /\ UNCHANGED <<sending, pages, pageNo, rowsLeft, asked, memory0, streams,
                       modes, info, got, printed>>
        /\ memory' = IF asked.on = Keep THEN memory ELSE [memory EXCEPT !.on = asked.on]
    BY <1>1 DEF SetAutoOn, HostKeeps, printerVars, Write, Reads, After
  <1>3. memory' \in [off : 0 .. 6, on : BOOLEAN]
    BY <1>2, StoredFacts
  <1>4. memory = [off |-> OffStored, on |-> memory0.on]
    BY <1>1 DEF SettingsInv
  <1>5. memory' = [off |-> OffStored, on |-> OnStored]
    BY <1>2, <1>4 DEF OnStored
  <1>6. SettingsInv'
    BY <1>2, <1>5 DEF SettingsInv, OffStored, OnStored
  <1> QED BY <1>1, <1>2, <1>3, <1>6, SettingsCommand

\* Every step of a stream keeps the invariant.
LEMMA StreamKeepsInv == StreamInv /\ StreamNext => StreamInv'
  <1> SUFFICES ASSUME StreamInv, StreamNext PROVE StreamInv'
    OBVIOUS
  <1>1. CASE \E b \in Batches : StartJob(b)
    BY <1>1, StartJobStep
  <1>2. CASE \E s \in SettingsAsked : StartSettings(s)
    BY <1>2, StartSettingsStep
  <1>3. CASE Preflight \/ Invalidate \/ Initialize
    BY <1>3, PreflightStep, InvalidateStep, InitializeStep
  <1>4. CASE StatusRequest \/ PrintInformation \/ SetEachMode \/ CutEvery \/ SetExpandedMode
    BY <1>4, StatusRequestStep, PrintInformationStep, SetEachModeStep, CutEveryStep,
       SetExpandedModeStep
  <1>5. CASE SetMargin \/ RasterRow \/ PrintCommand
    BY <1>5, SetMarginStep, RasterRowStep, PrintCommandStep
  <1>6. CASE SetAutoOff \/ SetAutoOn
    BY <1>6, SetAutoOffStep, SetAutoOnStep
  <1>7. CASE Collected \/ Verify \/ Interrupted
    BY <1>7, EndStep
  <1> QED BY <1>1, <1>2, <1>3, <1>4, <1>5, <1>6, <1>7 DEF StreamNext

\* So does a step of another codec.
LEMMA StreamStutters == StreamInv /\ UNCHANGED streamVars => StreamInv'
  <1> SUFFICES ASSUME StreamInv, UNCHANGED streamVars PROVE StreamInv'
    OBVIOUS
  <1>1. UNCHANGED <<sending, step, pages, pageNo, rowsLeft, asked, memory0, streams,
                    pending, modes, info, got, printed, memory>>
    BY DEF streamVars, hostVars, printerVars
  <1>2. StreamTypeOK'
    BY <1>1 DEF StreamInv, StreamTypeOK
  <1>3. (\A n : PageWanted(n)' = PageWanted(n)) /\ Page' = Page /\ FeedOf(Page)' = FeedOf(Page)
    BY <1>1 DEF PageWanted, FeedOf, Page
  <1>4. {PageWanted(n)' : n \in 1 .. Len(pages')} = {PageWanted(n) : n \in 1 .. Len(pages)}
    BY <1>1, <1>3
  <1>5. PrintedInv => PrintedInv'
    BY <1>1, <1>3, <1>4 DEF PrintedInv
  <1>6. PageInv => PageInv'
    BY <1>1, <1>3 DEF PageInv
  <1>7. SettingsInv => SettingsInv'
    BY <1>1 DEF SettingsInv, OffStored, OnStored
  <1> QED BY <1>1, <1>2, <1>5, <1>6, <1>7 DEF StreamInv

\* The invariant gives the property.
LEMMA StreamInvImpliesObeyed == StreamInv => PrinterObeys
  <1> SUFFICES ASSUME StreamInv PROVE PrinterObeys
    OBVIOUS
  <1>1. PagesAsAsked
    <2> SUFFICES ASSUME sending = "job",
                        step \in JobSteps \ {"preflight", "invalidate", "initialize"}
                 PROVE  /\ Len(printed) = IF step = "collect" THEN Len(pages) ELSE pageNo - 1
                        /\ \A n \in DOMAIN printed : printed[n] = PageWanted(n)
      BY DEF PagesAsAsked
    <2> DEFINE Pages == {PageWanted(n) : n \in 1 .. Len(pages)}
    <2>1. /\ printed \in Seq(Pages)
          /\ Len(printed) = IF step = "collect" THEN Len(pages) ELSE pageNo - 1
          /\ \A n \in 1 .. Len(printed) : printed[n] = PageWanted(n)
      BY DEF StreamInv, PrintedInv
    <2> HIDE DEF Pages
    <2>2. DOMAIN printed = 1 .. Len(printed)
      BY <2>1
    <2> QED BY <2>1, <2>2
  <1>2. SettingsAreStored
    <2>1. step = "verify" => sending = "settings"
      BY StepFacts DEF StreamInv
    <2> QED BY <2>1 DEF StreamInv, SettingsInv, SettingsAreStored, OffStored, OnStored
  <1> QED BY <1>1, <1>2 DEF StreamInv, PrinterObeys
=============================================================================
