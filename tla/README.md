# Verification of brother-ql570-go

TLA+ models of the parts of this program that run concurrently, keep state over
time or do arithmetic at limits; TLC runs that check them on small instances,
and TLAPS proofs for every size. Line numbers refer to the files under `pkg/` and `cmd/`.

## 1. Inventory

| Part | State it keeps | Operations | What is hard | What must hold |
|---|---|---|---|---|
| IPP job handling (`pkg/ipp/server.go`, `job.go`) | job store: next id, jobs with state, document, `cancel`, `started`; `printMu` | Get-Printer-Attributes, Create-Job, Print-Job, Send-Document, Cancel-Job; one background goroutine per submitted document | handlers and goroutines interleave between unlocked reads and writes; cancellation races processing; `TryLock` is read as "printing" | one user of the printer at a time; a job printed at most once, from its own document; final states final; cancellation honored; every canceled or started job ends |
| Printer connection pool (`cmd/ql570/daemon.go`) | current `*ql.Printer`, `pp.mu` | `get`, `tryOpen` every 10 s, `invalidate`, callers `/v1/status`, `/v1/info`, `/v1/print`, IPP adapter | a caller keeps the Printer it got across a reconnect; `invalidate` waits for one mutex holding another | one holder of the device; no deadlock; reconnects after an unplug |
| Printer session (`pkg/ql/printer.go`) | `Printer.mu`, backend | `Status`, `PrintJobs`, `Configure`, `Close`, `resetUSB` | every step may fail, with a different cleanup; status frames arrive late | jobs do not overlap on the wire; confirmations belong to the job |
| USB backend (`pkg/ql/backend_linux.go`, `_android.go`) | file handle, read deadline | `Read`, `Write` with timeout, `Reopen`, `Close` | a timed-out write can keep the device busy; unplug kills handles | a closed backend never comes back |
| Raster protocol (`protocol.go`, `model.go`, `settings.go`) | none | build command streams, parse status frames | boundaries of fields | pages framed correctly |
| PackBits, PWG raster, rotation (`compress.go`, `pwgraster.go`, `rotate.go`) | none | pure functions on bytes | run limits, ends of rows | decode inverts encode; no row past its width |
| Media (`media.go`, `labels.go`), label jobs (`pkg/ql/job.go`) | none | resolve a requested size, validate a job | precedence of rules | a job resolves to the loaded roll or is refused |
| Rendering (`render.go`) | a canvas per job | place elements, then turn, halve, paste, mirror, trim, rasterize | each stage rounds and cuts at the canvas | nothing overlaps or falls off; the length is printable; bars scan |
| Fonts (`font.go`) | caches of fonts and faces | load, draw text | shared by concurrent requests | a label gets its own glyphs |
| PDF engine (`pkg/pdf/pdf.go`) | pool of one instance, page files | warm-up, count and render pages | waiting for the instance, failure at any page | the engine comes back; nothing prints from an incomplete set; which files stay |
| USB descriptors (`usb_descriptors.go`) | none | parse, select an interface | lengths that lie | no read past the set; the printer interface is chosen |
| HTTP API, CLI, web UI | none of their own | routing, JSON, flags, auth, mDNS | - | - |

How they interact: an IPP request calls `ipp.Server`, whose goroutines call
the pool adapter, which gets the pool's Printer and calls it under
`Printer.mu`; `/v1/*` handlers do the same beside them. `printMu` therefore
serializes IPP work only, `Printer.mu` the users of one Printer, and `pp.mu`
guards which Printer is current. The web UI polls `/v1/status` every 5 s.

The hazards this leads to, each at its line, with the property that would catch
it, are listed under `hazards` in `PROJECT.json`.

## 2. Modules

| Module | Models | Composes |
|---|---|---|
| `JobLifecycle` | what a job of the server promises | |
| `IPPJobs` | the job server, request by request | implements `JobLifecycle`; `MCIPPJobs` for symmetry |
| `PrinterPool` | connection, Printer mutex, handle | |
| `PrinterProtocol` | print calls and status frames | |
| `PageFiles` | PDF engine, page files and their users | |
| `PackBits`, `PWGRaster`, `RasterStream`, `Orientation` | bytes and pixels | run together in `MCCodecs` |
| `AndroidUSB` | descriptors, and the ioctls of the Android backend | |
| `Labels` | table of labels, dots and roundings | extended by the next two |
| `Media`, `LabelLayout` | which label a job prints on; how it is drawn | composed in `MCLabels`: an IPP job from media-ready to raster lines |
| `FontCache` | cached faces under concurrent requests | |
| `*_proofs` | theorems of the module before the underscore; `RasterStream_proofs` holds the lemmas `MCCodecs_proofs` needs of the command stream | |

The composition of `IPPJobs` with `PrinterPool` is what a next step would be:
the IPP goroutine's calls into the pool are steps with several outcomes in the
first and requests beside those of `/v1/*` in the second.

Names `X_Y` are deliberate mistakes in `X`; each is used to show that some
property would notice it, and is part of no specification.

## 3. IPPJobs: the job server

A *slot* is one HTTP request and the goroutine it may start. It is used again
when both have ended, so `n` slots stand for all executions with at most `n` of
them alive together. `hPc[s]` is where the handler is, `wPc[s]` where the
goroutine is; both name the next step. The fields of `StoredJob` are functions
on job ids; `doc` and `docFormat` hold the slot whose request supplied them,
which is all the properties need to know of a document.

| Code | Model |
|---|---|
| `ServeHTTP` dispatch (server.go:83-164) | `GetPrinterAttributes`, `CreateJob`, `PrintJob`, `SendDocument`, `CancelJob` (via `Begin`) |
| `currentPrinterState`, `printerAvailable` (225-247) | `TryLockBusy`, `TryLockFree`, `Query` |
| `store.Add` in `createJob`, `printJob` | `AddCreated`, `AddPrinted` |
| `sendDocument` (321-360) | `CheckDocSet`, `CheckState`, `SetDoc`, `SetDocSet`, `SetDocFormat`, `NotLastDocument` or `StartProcessing` |
| `cancelJob`, `Cancel` (446-460, job.go:440-447) | `CancelSnapshot`, `SetCancel`, `CancelLoadStarted`, `CancelSetState` |
| `startProcessing`'s goroutine (402-443) | `WorkerLock`, `WorkerCheck` (three times), `WorkerProcess`, `WorkerConvert`, `WorkerPrint`, `WorkerFinish`, `WorkerUnlock` |

Every read or write of a field that no lock covers is a step of its own, in
the order of the code. The status query, the conversion and `PrintJobs` are
steps with all their outcomes. `prints[j]` counts how often data of job `j`
went out. Read-only operations change nothing and have no action.

`SerialSenders` restricts clients, not the server: no request starts to bring
a document for a job while another one does. A Print-Job counts, since its job
is visible to others from `store.Add` on. The code relies on it without
enforcing it (finding `jobs_double_print`), so the properties that need it are
checked and proved under it, and the others without.

`JobLifecycle` is the abstract promise: a job is pending, processing, then
final; its data goes out once, while it is processing, and only a printed job
completes. `IPPJobs` implements it with `state` mapped to "absent" for ids not
handed out yet.

## 4. PrinterPool: the connection

A connection id is a `*ql.Printer`; it is recycled once nothing refers to it,
which makes the model finite without a bound on reconnects. `file[c]` is
`USBBackend.f`: `open`, `dead` (open across an unplug), `closed`, or `nil`.
`lingering` says that a write given up on still holds the device, which usblp
lends to one handle at a time. A request is `get`, `lock`, a step inside
`Printer.mu` (`query`; `preflight`, `send`, `collect`, `reset`), then
perhaps `invalidate` and `closing` (holding `pp.mu`, waiting for `Printer.mu`).
`"print"` stands for `/v1/print` and for the IPP goroutine's `PrintJobs`, which
fail alike; `"ippStatus"` for the adapter's `Status`.

External, modelled from how the code uses it: `Unplug`, `Plug` and the end of
a lingering write. An open of a device that is present and free succeeds.

## 5. PrinterProtocol: commands and status frames

`PrinterPool` treats a call into the printer as a step with several outcomes;
this model opens it up. `wire` holds the commands written and not yet
processed, `frames` the status frames sent and not yet read. A print call
writes a status request, takes one frame for its reply (`preflight`), writes
the stream of all pages and takes frames until it is confirmed or its deadline
passes (`collect`). Nothing in a frame names the request or job it is about, and
the model gives the host nothing more than the code has; `printed` and the
`call` of a command serve the properties.

| Code (`printer.go`) | Model |
|---|---|
| `statusLocked`, `readStatus` (212-217, 307-339), `Configure` | `StartCall`, `ReadStatus`, `StatusTimeout` |
| preflight check, `checkMediaMatch`, `RenderJob` (125-149) | `Refuse`, `RenderFails`, `Send` |
| `collectStatuses` (344-397) | `CollectFrame`, `SeenWith`, `CollectEnds` |
| verdict and `resetUSB` (156-180) | `Verdict`, `FinishPrint` |

Of a status the model keeps its kind and whether it is fine, reports an error,
or reports media that `checkMediaMatch` refuses. `resetUSB` drops the unread
frames, as its comment says ("the next job starts from a clean slate"). Failed
writes and lost devices are in `PrinterPool`.

The device is external. It answers a status request unless it works on a
stream; for each page it answers the request the stream carries
(`protocol.go:252`), reports printing, then completed; after the last page it
reports that it is waiting (`printer.go:64-65`). A failed page is reported, the
rest of the stream is dropped, and when somebody has cleared the error the
device reports that it is waiting again. Any page may fail, and the roll and the
cover may change before any page.

`Patient` says that a deadline passes only when the device has no work left: it
is idle, or halted by an error nobody has cleared. It stands for "3 s for a
reply and 10 s for a job are enough". The code does not ensure it: ten labels
in one batch may well take longer, and then the late frames of one job confirm
the next before any of it is out (printer.go:384). `ConfirmedIsPrinted` and
`NothingLeftOver` therefore hold under `Patient` only.

## 6. PageFiles: the PDF engine and page images

A *call* is the warm-up goroutine, an upload or the print goroutine of an IPP
job. `pc[c]` is where it is, `disk[c]` the page files that carry its random
prefix and how complete each is ("part", "rendered", "turned"), `temp[c]` the
files its cleanup knows of. `engine` is the caller that has the one instance.

| Code | Model |
|---|---|
| `initOnce`, `pool.GetInstance` (pdf.go:52-69) | `StartEngine`, `EngineStarted`, `GetInstance`, `NoInstance` |
| `Init`, `PageCount`, `RenderPNGFiles` (77-173) | `Warmed`, `Unreadable`, `CountPages`, `RenderPage`, `RenderFails`, `Rendered` |
| `IPPJobToQL` (job.go:65-152) and its `Cleanup` | `Begin`, `WritePage`, `TurnPage`, their failures |
| `startProcessing` around `PrintJobs` (server.go:413-442) | `CanceledMeanwhile`, `StartPrint`, `Printed` |
| `POST /v1/upload` (daemon.go:596-617) | `StoreUpload` and the calls above |

Any page may fail, at reading, rendering, storing or turning. `TimesOut` is the
limit of `GetInstance`. The jobs here are not serialized by `printMu`, which
allows more than the program does. `startup` failing stays failed for the life
of the process (`sync.Once`, pdf.go:61), as in the code. Uploads are never
deleted by the program (daemon.go:601), so `OnlyFailuresLeaveFiles` is about
IPP jobs.

## 7. Bytes and pixels

- `PackBits`: one action per iteration of the encoder's and decoder's loops, on
  bytes; counts are read back signed as in the code.
- `PWGRaster`: the decoder asks for its stream byte by byte and the environment
  chooses each, so every stream over the counts given is decoded, malformed
  ones too. A pixel byte is the number of the encoded line it came from, modulo
  256. A decoded page is right if a sequence of line numbers exists that explains
  every stored row.
- `RasterStream`: the host writes one command per action and may stop anywhere,
  inside a raster line too; the printer (external) keeps each mode until it is
  set again and takes what follows for the rest of an unfinished command.
  `StreamAssumption` asks for `InvalidateBytes >= RowBytes + 2`: the zero bytes
  complete any command that was broken off. The program's one model has 200 and 90.
  Jobs carry a label of the real table: `FeedOf` is `jobOptions`, which sends
  the job's own feed or the label's. What `PrinterObeys` compares it with is
  `FeedWanted`, stated from the comment of the field (labels.go:57-59): 35 dots
  on tape and on the round label of 12 mm, none on the other die-cut labels.
- `Orientation`: the pixel loops of the three rotations on images whose pixels
  all differ; the reference is the turn of the offset between any two pixels by
  exactly the quarters the request means (`Turns`). One case is stated apart, as
  `LiesAlready`: reverse landscape for a page that lies down already. The code
  leaves it as it is, its comment says otherwise (section 11).

## 8. AndroidUSB

The descriptor set is chosen descriptor by descriptor as the parser reaches it.
After the claim, `Write`, `Read` and `Reopen` are sequences of ioctls; between
any two the cable may be pulled, another process may take an unclaimed
interface, and any transfer may be short, fail or stall. Transfers are counted in
quarters of `maxBulkChunk`, times in half milliseconds, so that a rest below one
millisecond exists. A write that failed is followed by a `Reopen` in `PrintJobs`
and `Configure`, but not in `statusLocked` (printer.go:213-215), which returns
the error and leaves a stalled endpoint to the next call (`WriteReturnsError`).

The kernel's answers are external. That releasing an interface that is not
claimed answers ENODATA is what `backend_android.go` itself relies on
(247-252), and `ReopenRepairs` rests on it. The kernel is not part of this
repository; if it answers EINVAL there, as usbdevfs appears to, `releaseInterface`
reports an error and a `Reopen` that failed after its release can never be
repaired by the next: the mutant `Released_OnlyClaimed` is that program, and the
property fails for it.

## 9. Labels, Media, LabelLayout

`Labels` holds the real table. In `Media` a client reads what is ready, picks a
size and sends a job; the worker reads the status and resolves the size;
`PrintJobs` checks the roll; the roll may be changed before each of these steps,
and the client and the worker may get no status. In `LabelLayout` an element
is a rectangle: its place (`boxes`) and what is drawn in it (`ink`). Every stage
of `RenderJob` moves, scales and cuts the rectangles as it does the pixels, with the code's
roundings; `lost` records kinds of which something was cut off. Sizes of text,
numbers of modules and pictures are inputs. `MCLabels` makes a page of a
resolved IPP job a job of the renderer, as `pageJob` does, beside the jobs of
the API. Its constants are the sizes of pages (`PageSizes`, any positive width
and height) and the jobs of the API (`ApiJobs`, any subset of `PrintJobs`, which
has everything the `Job` struct can say of the layout, valid or not). `PrintJobs`
has all that `Validate` lets pass: margins at the top and bottom may be negative,
and a line of text in a font of less than one dot has no height. It only asks
that a picture has both sides or is absent, as every decoded image has. Integers
are unbounded here: margins of so many millimeters that their dots overflow a
machine word are left out.

A stage can therefore end in `"refused"` (`Validate`), `"unfit"` (an error that
tells what to change), `"internal"` (the two "internal error" answers of
render.go) or `"panic"` (an image with a negative side). `FailsOnlyUnchecked`
says which jobs reach the last two, and that no others do. A negative margin at
the top also starts the content above the canvas, where it is cut off while it
is drawn, and one at the bottom lets it run over the end; `NothingIsCutOff` has
"no negative margin" as a condition, since the code promises nothing for those
jobs and prints the rest of their content without a word.
`MediaAssumption` says that rolls are what a status can report, that the printer
may be without a roll, and that clients pick options the program supports.

`FontCache` has the two caches of `font.go` and drawing split where the library
splits it: the face draws a glyph into its own mask, the drawer copies the mask.

## 10. Runs

| Run | Bounds | Shows |
|---|---|---|
| `jobs_serial` | 2 slots, 2 jobs, serial senders | `PrintedAtMostOnce`, `ConvertsOwnDocument`, `TerminalIsFinal`, the inductive invariant `IInv`, `CancelEndsJob`, `StartedEndsJob`, refinement `Lifecycle` |
| `jobs_concurrent` | 3 slots, 1 job, any senders | `PrinterExclusive`, `CancelIsHonored`, `CanceledNeverPrints` |
| `jobs_double_print` | 2 slots, 1 job | violation: a job is printed twice |
| `pool` | 2 requests, 3 connections, all traffic | `HandleOwned`, `JobsDoNotOverlap`, `IInv`, `RequestsEnd`, `Recovers` |
| `pool_ipp_only` | 1 request, IPP status only | violation: never reconnects after a replug |
| `protocol_safety` | 3 calls, 2 pages, patient | `ConfirmedIsPrinted`, `NothingLeftOver`, `IInv` |
| `protocol_live` | 2 calls, 2 pages, any deadlines | `CallsEnd` |
| `page_files` | warm-up, an upload, a job, 2 pages (PDFs of up to 3) | `EngineIsReturned`, `PagesAreThere`, `OnlyFailuresLeaveFiles`, `WaitersGoOn`, `TypeOK` |
| `codecs` | see below | `LineComesBack`, `PagesAreDecoded`, `PrinterObeys`, `TurnedAsAsked` |
| `usb` | sets of 8, 25 and 55 bytes, 2 interfaces, 3 calls | `PrinterIsFound`, `WriteIsComplete`, `ReopenRepairs`, `ReadEndsInTime` |
| `labels` | 6 rolls, real label sizes | `OneOptionPerName`, `ReadyIsPrinted`, `AskedIsPrinted`, `ElementsApart`, `NothingIsCutOff`, `LengthIsPrintable`, `QuietZone`, `AcceptedIsRendered` |
| `fonts` | 2 renderings, 2 faces, 2 glyphs | violation: a label gets another's glyph |

Each module's type invariant is checked once, as `TypeOK`, as a part of `IInv`
or as the first conjunct of a property (`LineComesBack`, `PagesAreDecoded`,
`PrinterObeys`, `PrinterIsFound`, `OneOptionPerName`, `ElementsApart`).

**Why the bounds are enough.** Races on one job need at most a sender or two, a
canceler and a goroutine, which `jobs_concurrent` has; with serial senders two
slots suffice, since a goroutine stays in its sender's slot, and a second job
makes goroutines of different jobs compete for `printMu`. `MaxJobs` is the only
cap on a counter there and sits in the guard `RoomForJob`. For the pool, one
request stands against another and the retry loop; `|Requests| + 1` connections
mean that a fresh one is always free. For the protocol, one call may leave
something behind, the next take it for its own, and a third go wrong by it; two
pages let the second fail after the first was completed; `MaxCalls` also bounds
both queues. For the page files, one user of each kind competes for the engine
and a second page fails after the first was stored. For the codecs, runs and
mixtures of 127 to 130 bytes meet in all positions of a line (PackBits), the
counts 0, 1, 2, 127, 128, 254 and 255 are both sides of every comparison for
pages 3 pixels wide and 3 lines high (PWG), each of three streams may follow
another that broke off (`MaxStreams`), and images up to 3 by 3 have all shapes.
For USB, two interfaces put another before the printer's, and three calls allow
a stall, a Reopen that gets half-way and one that has to repair it
(`MaxIfaces`, `MaxOps`). For labels the sizes are real; the jobs are chosen at
the limits `Validate` has and at both sides of them, and among those it does not
check: negative margins that cut, blank or end in each failure, and a line of no
height. The batches of `codecs` are for tape, for the round label of 12 mm, with
and without a feed of its own, and for a die-cut label without feed.

Symmetry is used in `jobs_concurrent` only, which checks no liveness. Deadlock
checking is on but where the system may really stop: `codecs`, `usb`, `labels`
and `fonts` end when their work is done. In the other models clients or the
environment may always act, so "everyone waits" is covered by `StartedEndsJob`,
`RequestsEnd` and `WaitersGoOn`.

**Fairness.** Goroutines run (`WF` of handler and worker steps); calls into the
printer end because they are bounded by timeouts (3 s, 5 s, 20 s per write,
10 s for confirmation). Waiting for a mutex gets strong fairness, since a
`sync.Mutex` in starvation mode goes to its longest waiter after 1 ms. The
retry ticker ticks. Clients need not send anything, but for `Recovers`: some
client repeats `Poll`, as the web UI does (`web/index.html:1190`); the
violation `pool_ipp_only` differs from the passing run in that client only.
In the protocol only the host is fair: its loops test a deadline in every round,
and `CallsEnd` asks nothing of the printer. In `PageFiles` only the engine's
start and the time limit of `GetInstance` are fair: nothing bounds a rendering,
and `WaitersGoOn` holds without it. In `AndroidUSB` only the kernel's timeout
is: it does return after the time it was told, so a read ends if that time is
never "for ever".

## 11. Findings

Each is a violation run whose trace TLC prints; `PROJECT.json` quotes the text
it disagrees with.

- `jobs_double_print`: two overlapping Send-Document requests print a job twice
  (server.go:326).
- `pool_ipp_only`: the IPP status path never invalidates, so IPP-only traffic
  never recovers from a replug (daemon.go:138).
- `fonts`: a cached face is not read-only; two requests that render at once mix
  their glyphs (font.go:156).

Met while modelling, without a run of their own; the models have the code's
behaviour, and the properties are stated so that they are about something else:

- Jobs: `Cancel` can return true for a job that has finished (job.go:441);
  `TryLock` fails for status queries too, so an idle printer is reported as
  printing (server.go:226); the store keeps every job and document
  (job.go:454).
- Pool: `invalidate` closes the current connection, not the failed one
  (daemon.go:394); refusals are taken for transport failures by the word
  "printer" in their text and close the connection (daemon.go:487).
- Protocol: late frames of one job confirm the next (section 5).
- PDF: a start of the engine that failed is never tried again (pdf.go:61);
  pages stored before a later page failed are left on disk (pdf.go:155), as are
  uploads (daemon.go:601).
- Orientation: requests 5 and 6 are swapped against the IPP registry
  (rotate.go:14); a page that is rendered lying down is not turned for a
  reverse-landscape request (rotate.go:36-40), although rotate.go:20-21 says
  "reverse requests flip by 180°" and `rotate_test.go:76` repeats it.
- Media: a PWG page that names a standard size is refused when a die-cut label
  is loaded, although the size was offered as ready (media.go:182).
- Labels: the default feed is 0 "for die-cut labels" in the comment of
  `FeedDots` (job.go:176-179) and in `README.md:492`, but 35 for the round die-cut
  label of 12 mm in the table (labels.go:57-59, 88), which is what is sent;
  a feed above 65535 dots is truncated to 16 bits (protocol.go:121);
  `valign` "bottom" ignores the bottom margin (render.go:477); a QR code with
  more modules than its place has dots is not refused (render.go:247); the text
  under a barcode is cut off silently (render.go:307).
- Jobs that `Validate` does not look at closely enough (job.go:242-318): with a
  negative margin at the bottom content may run over the end, be cut off there,
  or end in "internal error" (render.go:469); with one at the top content is cut
  off above the canvas, up to a blank label, or the program panics when it makes
  an image with a negative side (render.go:56) or scales one by an infinite factor
  (render.go:426); text in a font of less than one dot is "internal error: no
  content rendered" (render.go:379).

## 12. Proofs

For any values of the constants:

| Theorems | From |
|---|---|
| `IPPJobs`: `TypeCorrect`, `Exclusive`, `Honored` | any clients |
| `IPPJobs`: `SerialClients` (`IInv`), `PrintedOnce`, `OwnDocument`, `Final`, `NoPrintAfterCanceled`, `Implements` | `SerialSenders` |
| `PrinterPool`: `Invariance` (`IInv`), `TypeCorrect`, `Owned`, `NoOverlap` | any traffic, any unplugs |
| `PrinterProtocol`: `TypeCorrect` | any deadlines |
| `PrinterProtocol`: `Invariance` (`IInv`), `Confirms`, `LeavesNothing` | `Patient` |
| `PageFiles`: `Invariance`, `TypeCorrect`, `Returned`, `PagesComplete`, `FilesRemoved` | any failures; page numbers from 1 to `MaxPages` |
| `AndroidUSB`: `Invariance`, `PrinterFound`, `WriteCompletes`, `ReopenCompletes` | any lengths; any failures |
| `MCCodecs`: `LineComesBackThm` | lines of any bytes and any length |
| `MCCodecs`: `PagesAreDecodedThm` | any widths and heights, any control bytes |
| `MCCodecs`: `PrinterObeysThm` | any batches for any labels of the table, any settings, streams broken off anywhere; `InvalidateBytes >= RowBytes + 2` |
| `MCCodecs`: `TurnedAsAskedThm` | images with any sides; `LiesAlready` apart |
| `MCLabels`: `OneOption`, `ReadyPrinted`, `AskedPrinted` | any rolls, any sizes asked for |
| `MCLabels`: `QuietEnough` | any width, any number of modules |
| `MCLabels`: `Rendering` (`LabelInv`), `Apartness`, `NothingLost`, `PrintableLength`, `BarsAreFound`, `AcceptedRendered` | any job in `PrintJobs`, negative margins and lines of no height included, any page, any rolls; `NothingLost` counts what is cut off only without negative margins |

`PrintedAtMostOnce` is not inductive: that a goroutine prints a job once
depends on there being one goroutine per job, hence on the job having been
started once, hence on the `DocSet` check having excluded every other sender.
`IInv` of `IPPJobs` states this chain part by part: `SenderInv` (one sender per
job) gives `DocumentInv` (what the sender has established), which gives
`WorkerInv` (one goroutine per job, with its sender's document), `StateInv`
and `PrintInv` (how far the goroutine is shows in state and prints).
`CancelInv` is the argument for the unlocked write in `cancelJob`: whoever saw
`started` unset has set `cancel` before, so a goroutine started since cannot
pass its first check. Each part has one lemma, `<Part>_Step`, with one step
per action. The action properties and the refinement follow from `IInv` by
looking at the six steps that write a state, a print count or a new job.

For the pool, `MutexInv` ties each mutex to the request that is inside it and
`PrintingInv` says that a job past its preflight check is on the current
connection. `Close` needs `Printer.mu`, so no such job exists when a
connection is closed, nor while none is open; two jobs on the wire are then on
the same connection and hold the same mutex.

For the protocol, a "waiting" frame is what could go wrong: one may be left
from a job that halted. `QuietInv` says that everything unread before such a
frame reports that job's error, so a preflight check either takes the frame
itself or refuses the job; none is left when a stream goes out. From then on
`StreamInv` and `WaitingInv` make "waiting" the last frame of the job, and
`PagesInv` counts its pages, so that with no error before it all are out.

For the page files, `CallInv` ties each program counter to the disk: what has
been rendered, turned or written up to the current page is there and nothing
else, and the cleanup knows exactly the files it will have to remove. Two calls
meet only in the engine, so a step of one leaves the part of every other alone
(`OthersKeep`).

For USB, a write is complete because in its loop what it has counted is what
arrived, and `Reopen` repairs because each of its program counters says which
endpoints are repaired by then. That the chosen interface is a printer's needs
that a set of numbers that is not empty has a first, which is the
well-foundedness of the natural numbers.

For the codecs there is no induction over the data: each loop iteration is a
step, so an ordinary invariant does the work. `PackInv` keeps the set `B` of
places where the chunks of the code meet: every chunk stands for its part of the
line (`Chunk`), the parts meet end to end (`Meets`), and the decoder stands on
such a place, so it never takes a data byte for a control byte. A new chunk
leaves those before it alone (`NewChunk`). `GrowthInv` bounds the length of the
code: a literal of less than three bytes ends where a run begins. `PWGInv` says
that every row stored is full and the gray of one line, and that the row being
filled has bytes of the current line up to `rowPos`; `FillStep` covers the
clipping at the end of a row and of a page. `StreamInv` lists, for every position
in the stream, which modes the printer has been told for this page
(`PageInv`); pages that came out stay right (`PrintedInv`), and `InvalidateStep`
is where the assumption on `InvalidateBytes` is used: what an earlier stream left
unfinished is swallowed by the zero bytes. For `Orientation`, `StepsTurn` proves the three
pixel loops by the index arithmetic of rows; two pixels of a sheet never share a
number (`PixelsApart`), so the place of a pixel is where it was put.

For the choice of a label, the check of the roll is against the option the job
was resolved to, and a size that is a label's own is only resolved to itself;
both parts of `AskedInv` are needed for `AskedPrinted`. `MediaInv` adds where
each option came from: what is ready is in the catalogue or a standard size that
a loaded roll serves (`OfferedInv`), and the option of a job was resolved for the
roll the worker saw (`ChosenInv`). That a name means one option needs a walk
through the real table and the two precedence rules of `BuildMediaCatalog`.

For the layout, none of the properties is inductive: an element is apart from
the others because it begins where they end, it is complete because the
canvas was grown before it was drawn, and the content of a turned label fits
because it was measured before it was turned. `LayoutInv` says this in parts, each
from stage to stage: `DrawingInv` (the job was validated, and what is placed and
drawn of it are rectangles), `BoxesInv` (all places are above `y`), `InkInv` (all
ink is on the canvas and, if the job is `Counted`, has no negative margin, nothing
was lost before), `HeightInv` (the
content ends above the bottom margin, and `y` is still at the top only if nothing has
been placed that has a height), `CanvasInv` (the width and the height of the canvas
at each stage, even before columns are halved, and that its height is negative only
for a negative top margin), `BarsInv` and `PinsInv`. `DrawingInv` also has
`FailsOnlyUnchecked`: whoever makes a stage fail shows which margin or line is to
blame (`FailStep`, `PanicStep`). There is one lemma per
stage (`LineStep` to `RasterizeStep`) over shared lemmas about an operator each
(`CutFacts`, `Placement`, `ScaledFacts`, `KeepFacts`, `TurnedInside`, `ShrunkInside`,
`LastRowFacts`, `FittedFacts`). The roundings are all bounded by
`QuotientBound` and `Cancelled`, products that are compared instead of quotients.
`QuietEnough` is about the two roundings of a barcode: with `w` the width of the
bars and `d` the dots of a module, `(m + 20) w <= total m` and `m d <= w` give
`20 d <= total - w`. `PageInv` says that a page of an IPP job is a picture alone
that is fitted to its label; `PageFits` proves that it passes every check of the
renderer, including the shortest label and the narrowest page.

TLC finds `LabelInv` to hold on the instance of the run `labels`, and `PWGInv`,
`StreamInv`, `OrientationInv` and `GrowthInv` on that of `codecs`; the sets `B` of
`PackInv` are too many for it.

Every invariant a passing run checks is also proved. Only model-checked:
liveness (`CancelEndsJob`, `StartedEndsJob`, `RequestsEnd`, `Recovers`, `CallsEnd`,
`WaitersGoOn`, `ReadEndsInTime`) and the fairness half of `Lifecycle`, since TLAPS
has no rules for `ENABLED`; and the three violations, which are about a trace.

## 13. Not modelled

- Gray values, dithering and thresholds; glyph shapes; the trimming and decoding
  of pictures (TIFF, PNG, JPEG): the models start from sizes.
- Parsing of text formatting, JSON, flags, IPP attributes in wire form and their
  texts; HTML and the web UI; mDNS, authentication, configuration files.
- The `select` loop and sysfs discovery of the usblp backend, and the way Termux
  hands over a descriptor: system calls. `PrinterPool` has the transitions of
  the handle they lead to. On other systems `OpenUSB` only returns an error.
- Dry runs, which write a stream to nowhere, and status frames split over reads.
- Data races on `Doc`, `DocSet` and `DocFormat` are modelled as separate atomic
  writes: torn reads of a slice header are not.
