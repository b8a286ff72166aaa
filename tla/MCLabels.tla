------------------------------- MODULE MCLabels -------------------------------
(***************************************************************************)
(* From an IPP job or a job of the API to raster lines: Media chooses the  *)
(* label of an IPP page (pageJob in pkg/ipp/job.go makes the print job),   *)
(* LabelLayout renders it (PrintJobs in pkg/ql/printer.go).                *)
(***************************************************************************)
EXTENDS Media, LabelLayout

CONSTANTS
  PageSizes,  \* of the pages of IPP documents, after trimming
  ApiJobs     \* jobs of the API and the command line

ASSUME LabelsAssumption ==
  /\ PageSizes \subseteq [w : Nat \ {0}, h : Nat \ {0}]
  /\ ApiJobs \subseteq PrintJobs

VARIABLE origin   \* who sent the job that is rendered
vars == <<mediaVars, layoutVars, origin>>

Loads(t, w, l) == [type |-> t, width |-> w, length |-> l]
MCRolls ==
  {Loads("continuous", 62, 0), Loads("continuous", 29, 0), Loads("diecut", 62, 29),
   Loads("diecut", 29, 90), Loads("diecut", 62, 60), Loads("none", 0, 0)}
MCPicks ==
  {o \in Supported : IF o.standard THEN o.x < 9000
                     ELSE o.media.width \in {29, 62} /\ o.name[2] \in {29, 40, 90}}

Picture(w, h) == [w |-> w, h |-> h]
Line(w, h) == [w |-> w, h |-> h]
Content(text, qr, barcode, hri, image) ==
  [text |-> text, qr |-> qr, barcode |-> barcode, hri |-> hri, image |-> image]
NoPicture == Picture(0, 0)

MCPageSizes == {Picture(640, 1018), Picture(2400, 300), Picture(1, 2000)}

\* pageJob: the page is fitted to the label; everything else is the default.
PageJob(o, page, hires) ==
  [media |-> o.media, length |-> o.length, copies |-> asking.copies, cable |-> FALSE,
   factor |-> 25, hires |-> hires, rotate |-> 0, mirror |-> FALSE, align |-> "left",
   valign |-> "top", fit |-> "label", top |-> 0, bottom |-> 0, left |-> 0, right |-> 0,
   text |-> <<>>, qr |-> 0, barcode |-> 0, hri |-> 0, image |-> page]

\* The server's worker: PrintJobs checks the media and renders the pages.  What
\* the media was chosen from is forgotten: rendering does not depend on it.
CheckPage == CheckMedia /\ UNCHANGED <<layoutVars, origin>>
RenderPage ==
  /\ phase = "printing"
  /\ \E page \in PageSizes, hires \in BOOLEAN : Accept(PageJob(option, page, hires))
  /\ origin' = "ipp"
  /\ roll' = CHOOSE r \in Rolls : r.type = "none"
  /\ ready' = {} /\ readyFor' = NoAnswer /\ asking' = NothingAsked /\ resolvedFor' = NoAnswer
  /\ option' = NoOption /\ printedOn' = NoAnswer /\ phase' = "idle"

\* Jobs of the API and the command line.
Contents ==
  {Content(<<Line(90, 50)>>, 0, 0, 0, NoPicture),
   Content(<<Line(90, 50), Line(400, 30)>>, 21, 0, 0, NoPicture),
   Content(<<>>, 0, 79, 700, NoPicture), Content(<<>>, 25, 46, 0, NoPicture),
   Content(<<>>, 0, 0, 0, Picture(300, 200)), Content(<<Line(60, 40)>>, 21, 46, 60, Picture(40, 500)),
   Content(<<>>, 0, 0, 0, NoPicture), Content(<<>>, 0, 0, 0, Picture(900, 40)),
   Content(<<Line(1, 0)>>, 0, 0, 0, NoPicture)}
\* Alignments, and the margins at the top, bottom, left and right, with the
\* negative ones that Validate accepts.
Places ==
  {<<"left", "top", 0, 0, 0, 0>>, <<"center", "center", 30, 20, 21, 10>>,
   <<"right", "bottom", 0, 20, 10, 0>>, <<"right", "top", 0, 0, 40, 45>>,
   <<"left", "bottom", 9000, 900, 0, 0>>, <<"left", "top", -42, -2000, 0, 0>>,
   <<"left", "top", 0, -2000, 0, 0>>, <<"right", "bottom", -9000, 0, 0, 0>>}
MCMedia ==
  {m \in MediaTable : \/ m.form = "endless" /\ m.width \in {12, 62}
                      \/ m.form = "round" /\ m.width = 12
                      \/ m.form = "diecut" /\ <<m.width, m.length>> \in {<<62, 29>>, <<29, 90>>}}
MCLengths == {0, 126, 127, 401, 10000, 10001}
ApiJob(m, length, c, a, rotate, hires, cable) ==
  [media |-> m, length |-> length, copies |-> 1, cable |-> cable, factor |-> 25,
   hires |-> hires, rotate |-> rotate, mirror |-> a[1] = "center", align |-> a[1],
   valign |-> a[2], fit |-> IF a[1] = "center" THEN "label" ELSE "width",
   top |-> a[3], bottom |-> a[4], left |-> a[5], right |-> a[6],
   text |-> c.text, qr |-> c.qr, barcode |-> c.barcode, hri |-> c.hri, image |-> c.image]
MCApiJobs ==
  {j \in {ApiJob(m, l, c, a, rotate, hires, cable) :
            m \in MCMedia, l \in MCLengths, c \in Contents, a \in Places,
            rotate \in {0, 45, 90, 180, 270}, hires \in BOOLEAN, cable \in BOOLEAN} :
     /\ j.cable => j.length = 0
     /\ j.length \in {126, 10001} \/ j.rotate = 45 =>
          j.qr = 25 /\ j.align = "left" /\ ~ j.hires}

\* One roll will do for these.
SubmitJob ==
  /\ stage = "idle" /\ phase = "idle" /\ ready = {} /\ roll.type = "none"
  /\ \E j \in ApiJobs : Accept(j)
  /\ origin' = "api"
  /\ UNCHANGED mediaVars

Init == MediaInit /\ LayoutInit /\ origin = "none"
Next ==
  \/ stage = "idle" /\ MediaNext /\ UNCHANGED <<layoutVars, origin>>
  \/ CheckPage \/ RenderPage
  \/ SubmitJob
  \/ Render /\ UNCHANGED <<mediaVars, origin>>
Spec == Init /\ [][Next]_vars

-----------------------------------------------------------------------------
\* A page of an IPP job whose media was accepted is always rendered, whatever
\* its proportions and whichever label it goes to: the jobs pageJob makes are
\* valid and fit.
PagesAreRendered == origin = "ipp" => stage \notin {"refused", "unfit", "internal", "panic"}

\* A job that was accepted is rendered or turned down with a reason.  Pages of
\* IPP jobs always are rendered; jobs of the API end in an "internal error" or
\* a panic only for the negative margins and lines of no height that Validate
\* (job.go:242-318) does not look at.
AcceptedIsRendered == PagesAreRendered /\ FailsOnlyUnchecked
=============================================================================
