----------------------------- MODULE LabelLayout -----------------------------
(***************************************************************************)
(* How a print job becomes raster lines: Job.Validate of pkg/ql/job.go and *)
(* RenderJob of pkg/ql/render.go, element by element and stage by stage.   *)
(*                                                                         *)
(* Of an element only the rectangle is kept: [kind, x0, x1, y0, y1], the   *)
(* ends excluded.  boxes holds the places the layout gave, ink what was    *)
(* drawn there (text and pictures may be blank), moved and cut off at the  *)
(* edges of the canvas the way the program moves and cuts pixels.  Fonts   *)
(* are their measures, symbols their number of modules, a picture its size *)
(* after trimming.  X_Y is a deliberate mistake in X.                      *)
(***************************************************************************)
EXTENDS Labels, Sequences, FiniteSets

VARIABLES
  stage,    \* what the renderer does next
  job,      \* the job, once accepted
  lines,    \* text lines still to place
  y,        \* where the next element goes
  canvas,   \* size of the canvas drawn on: [w, h]
  boxes,    \* rectangles of the elements placed
  ink,      \* rectangles with something drawn in them
  lost,     \* kinds of elements something was cut off of
  pins      \* after the last stage: pins that print, [from, to]

layoutVars == <<stage, job, lines, y, canvas, boxes, ink, lost, pins>>

Least(a, b) == IF a < b THEN a ELSE b
Most(a, b) == IF a > b THEN a ELSE b

-----------------------------------------------------------------------------
(* The job and its measures, in dots of the canvas: twice as many in both  *)
(* directions for hires.                                                   *)

\* What a job may say before it is validated.  A line of text in a font of less
\* than one dot has no height.
Size == [w : Nat, h : Nat]
PrintJobs ==
  {j \in [media : [form : {"endless", "diecut", "round"}, width : Nat, length : Nat, dots : Nat,
                   rows : Nat, right : Nat, feed : Nat],
          length : Int, copies : Int, cable : BOOLEAN, factor : Int, hires : BOOLEAN,
          rotate : Int, mirror : BOOLEAN, align : {"left", "center", "right"},
          valign : {"top", "center", "bottom"}, fit : {"width", "label"}, top : Int, bottom : Int,
          left : Int, right : Int, text : Seq(Size), qr : Nat,
          barcode : Nat, hri : Nat, image : Size] :
     j.image.w > 0 => j.image.h > 0}

HasContent(j) == j.text # <<>> \/ j.qr > 0 \/ j.barcode > 0 \/ j.image.w > 0

\* Job.Validate.  The top and bottom margins are not looked at: they may be
\* negative.
Validate(j) ==
  /\ j.media \in MediaTable
  /\ j.copies \in 1 .. 255 /\ j.factor \in 10 .. 100
  /\ j.left >= 0 /\ j.right >= 0
  /\ MMToDots(j.left) + MMToDots(j.right) < j.media.dots
  /\ j.rotate \in {0, 90, 180, 270}
  /\ IF j.media.form = "endless"
     THEN j.length > 0 => j.length \in MinLengthMM .. MaxLengthMM
     ELSE j.length <= 0 /\ ~ j.cable
  /\ HasContent(j)

scale == IF job.hires THEN 2 ELSE 1
auto == job.media.form = "endless" /\ job.length <= 0
LengthDots == IF job.media.form = "endless" THEN MMToDots(job.length) ELSE job.media.rows
height == IF auto THEN MaxLengthDots ELSE LengthDots
cw == job.media.dots * scale
ch == height * scale

topMargin == MMToDots(job.top) * scale
bottomMargin == MMToDots(job.bottom) * scale
leftMargin == MMToDots(job.left) * scale
rightMargin == MMToDots(job.right) * scale
sideMargin == 4 * scale
gap == 4 * scale
contentW == cw - leftMargin - rightMargin
Sideways == job.rotate \in {90, 270}

-----------------------------------------------------------------------------
LayoutTypeOK ==
  /\ stage \in {"idle", "text", "qr", "barcode", "image", "rotate", "squeeze", "paste", "mirror",
                "fit", "rasterize", "done", "refused", "unfit", "internal", "panic"}
  /\ y \in Int /\ canvas.w \in Nat /\ canvas.h \in Int
  /\ lost \subseteq {"text", "qr", "bars", "hri", "image"}
  /\ stage \notin {"idle", "refused"} => Validate(job) /\ contentW > 0

NoJob == [hires |-> FALSE]
LayoutInit ==
  /\ stage = "idle" /\ job = NoJob /\ lines = <<>> /\ y = 0
  /\ canvas = [w |-> 0, h |-> 0] /\ boxes = {} /\ ink = {} /\ lost = {} /\ pins = {}

\* A job comes in.  The canvas starts small when the length is not given.
Accept(j) ==
  /\ stage = "idle"
  /\ job' = j /\ lines' = j.text
  /\ IF Validate(j)
     THEN /\ stage' = "text" /\ y' = topMargin'
          /\ canvas' = [w |-> cw', h |-> IF auto' THEN Least(topMargin' + 16 * scale', ch') ELSE ch']
     ELSE stage' = "refused" /\ UNCHANGED <<y, canvas>>
  /\ UNCHANGED <<boxes, ink, lost, pins>>

\* The job cannot be rendered: the user is told what to change, or that the
\* program is at fault, or the program panics.
Fails(how) == stage' = how /\ UNCHANGED <<job, lines, y, canvas, boxes, ink, lost, pins>>

Rect(kind, x, top, w, h) == [kind |-> kind, x0 |-> x, x1 |-> x + w, y0 |-> top, y1 |-> top + h]
Moved(r, x0, x1, y0, y1) == [kind |-> r.kind, x0 |-> x0, x1 |-> x1, y0 |-> y0, y1 |-> y1]
Inside(r, w, h) == 0 <= r.x0 /\ r.x1 <= w /\ 0 <= r.y0 /\ r.y1 <= h
Cut(r, w, h) == Moved(r, Most(0, r.x0), Least(w, r.x1), Most(0, r.y0), Least(h, r.y1))

\* What of the rectangles drawn stays on a canvas of that size, which has no
\* rows if it is negative.
Visible(r) == r.x0 < r.x1 /\ r.y0 < r.y1
Drawn(drawn, w, h) ==
  /\ ink' = {c \in {Cut(r, w, h) : r \in drawn} : Visible(c)}
  /\ lost' = lost \union {r.kind : r \in {d \in drawn : Visible(d) /\ ~ Inside(d, w, h)}}

\* ensureH at least doubles the canvas, and panics if its height is negative;
\* ensureW is exact.
Panics(n) == canvas.h < 0 /\ y + n > canvas.h
Grown(w, h) ==
  [w |-> Most(canvas.w, w), h |-> IF h <= canvas.h THEN canvas.h ELSE Most(2 * canvas.h, h)]

Fits_WithoutMargin(n) == y + n <= ch
Fits(n) == y + n <= ch - bottomMargin

\* Elements are placed in rectangles and something is drawn in some of them.
Place(rects, drawn, w, n) ==
  /\ canvas' = Grown(w, y + n)
  /\ boxes' = boxes \union rects
  /\ Drawn(ink \union drawn, canvas'.w, canvas'.h)
  /\ UNCHANGED <<job, pins>>
Skip == UNCHANGED <<job, lines, y, canvas, boxes, ink, lost, pins>>

-----------------------------------------------------------------------------
(* The elements, from top to bottom.                                       *)

PlaceLine ==
  /\ stage = "text" /\ lines # <<>>
  /\ LET w == Head(lines).w * scale
         h == Head(lines).h * scale
         box == Rect("text", leftMargin + AlignedX(job.align, w, contentW), y, w, h)
     IN  IF w > contentW \/ ~ Fits(h) THEN Fails("unfit")
         ELSE IF Panics(h) THEN Fails("panic")
         ELSE /\ \E drawn \in {{}, {box}} : Place({box}, drawn, cw, h)
              /\ y' = y + h /\ lines' = Tail(lines) /\ UNCHANGED stage

AfterText == IF y > topMargin THEN y + gap ELSE y
EndText ==
  /\ stage = "text" /\ lines = <<>>
  /\ y' = AfterText
  /\ stage' = "qr"
  /\ UNCHANGED <<job, lines, canvas, boxes, ink, lost, pins>>

\* The symbol stands in the middle of its place, with 4 modules around it.
QRInk(box, n) ==
  LET size == box.x1 - box.x0
      At(from, k) == from + (size * k) \div (n + 8)
  IN  [kind |-> "qr", x0 |-> At(box.x0, 4), x1 |-> At(box.x0, n + 4),
       y0 |-> At(box.y0, 4), y1 |-> At(box.y0, n + 4)]

PlaceQR ==
  /\ stage = "qr"
  /\ IF job.qr = 0 THEN stage' = "barcode" /\ Skip
     ELSE LET size == Least(contentW - 2 * sideMargin, MMToDots(300) * scale)
              box == Rect("qr", leftMargin + AlignedX(job.align, size, contentW), y, size, size)
          IN  IF size < 21 \/ ~ Fits(size) THEN Fails("unfit")
              ELSE IF Panics(size) THEN Fails("panic")
              ELSE /\ Place({box}, {QRInk(box, job.qr)}, cw, size)
                   /\ y' = y + size + gap /\ stage' = "barcode" /\ UNCHANGED lines

\* The bars, centred in the width they get, and the text below them, whose
\* half Go rounds towards zero.
Half(n) == IF n < 0 THEN - ((- n) \div 2) ELSE n \div 2
hriH == (MMToDots(30) * scale * 6) \div 5
PlaceBarcode ==
  /\ stage = "barcode"
  /\ IF job.barcode = 0 THEN stage' = "image" /\ Skip
     ELSE LET barH == MMToDots(100) * scale
              need == barH + IF job.hri > 0 THEN hriH + 2 * scale ELSE 0
              total == contentW - 2 * sideMargin
              barW == BarWidth(total, job.barcode)
              left == leftMargin + AlignedX(job.align, total, contentW)
              x == left + Quiet(total, job.barcode)
              box == Rect("bars", left, y, total, need)
              bars == Rect("bars", x + BarsInset(total, job.barcode), y,
                           job.barcode * ModuleDots(total, job.barcode), barH)
              hri == Rect("hri", x + Half(barW - job.hri * scale), y + barH + 2 * scale,
                          job.hri * scale, hriH)
          IN  IF ~ Fits(need) THEN Fails("unfit")
              ELSE IF Panics(need) THEN Fails("panic")
              ELSE IF barW < job.barcode THEN Fails("unfit")
              ELSE /\ Place({box}, {bars} \union IF job.hri > 0 THEN {hri} ELSE {}, cw, need)
                   /\ y' = y + need + gap /\ stage' = "image" /\ UNCHANGED lines

\* The size the picture is drawn with: as wide as the content, or no longer
\* than the label either; a picture that will be turned swaps the two.
BoxW == contentW - 2 * sideMargin
BoxH == ch - topMargin - bottomMargin
Factor(n, d, n2, d2) == IF job.fit = "label" /\ n2 * d < n * d2 THEN <<n2, d2>> ELSE <<n, d>>
Scaled(f, i) == [w |-> Rounded(i.w * f[1], f[2]), h |-> Rounded(i.h * f[1], f[2])]
ImageSize ==
  LET i == job.image
      s == IF Sideways THEN Scaled(Factor(BoxW, i.h, BoxH, i.w), i)
           ELSE IF job.fit = "label" THEN Scaled(Factor(BoxW, i.w, BoxH, i.h), i)
           ELSE [w |-> BoxW, h |-> (BoxW * i.h) \div i.w]
  IN  [w |-> Most(s.w, 1), h |-> Most(s.h, 1)]

PlaceImage ==
  /\ stage = "image"
  /\ IF job.image.w = 0
     THEN stage' = (IF y <= topMargin THEN "internal" ELSE "rotate") /\ Skip
     ELSE LET s == ImageSize
              x == leftMargin + IF Sideways THEN 0 ELSE AlignedX(job.align, s.w, contentW)
              box == Rect("image", x, y, s.w, s.h)
          IN  IF ~ Fits(s.h) THEN Fails("unfit")
              ELSE IF Panics(s.h) THEN Fails("panic")
              ELSE /\ \E drawn \in {{}, {box}} : Place({box}, drawn, Most(cw, x + s.w), s.h)
                   /\ y' = y + s.h + gap /\ stage' = "rotate" /\ UNCHANGED lines

-----------------------------------------------------------------------------
(* The stages.  Each makes a new canvas and copies what it finds inside    *)
(* the old one.                                                            *)

contentH == y - gap
Keep(rects, w, h, next) ==
  /\ canvas' = [w |-> w, h |-> h]
  /\ Drawn(rects, w, h)
  /\ stage' = next
  /\ UNCHANGED <<job, lines, y, boxes, pins>>
Each(F(_)) == {F(r) : r \in ink}

\* A quarter turn, and then the size that makes it as wide as the content.
Turned(r) ==
  IF job.rotate = 90 THEN Moved(r, contentH - r.y1, contentH - r.y0, r.x0, r.x1)
  ELSE Moved(r, r.y0, r.y1, canvas.w - r.x1, canvas.w - r.x0)
targetW == Most(1, cw - leftMargin - rightMargin - 2 * sideMargin)
targetH == Most(1, Rounded(canvas.w * targetW, contentH))
Shrunk(r) ==
  Moved(r, (r.x0 * targetW) \div contentH, Ceiling(r.x1 * targetW, contentH),
        (r.y0 * targetH) \div canvas.w, Ceiling(r.y1 * targetH, canvas.w))
Flipped(r) == Moved(r, cw - r.x1, cw - r.x0, contentH - r.y1, contentH - r.y0)

\* Content that ends above the canvas is scaled by a factor that is negative,
\* which makes one white row, or infinite: what integer that becomes, one row
\* or more than there can be, depends on the processor.
NothingToTurn ==
  Keep({}, targetW, 1, "squeeze") \/ (contentH = 0 /\ Fails("panic"))

Rotate ==
  /\ stage = "rotate"
  /\ CASE job.rotate = 0 -> Keep(ink, cw, contentH, "squeeze")
       [] job.rotate = 180 -> Keep(Each(Flipped), cw, contentH, "squeeze")
       [] OTHER ->
            IF job.media.dots > height THEN Fails("unfit")
            ELSE IF contentH <= 0 THEN NothingToTurn
            ELSE LET F(r) == IF contentH = targetW THEN Turned(r) ELSE Shrunk(Turned(r))
                     h == IF contentH = targetW THEN canvas.w ELSE targetH
                 IN  Keep(Each(F), targetW, h, "squeeze")

\* The printer has 300 dpi across: two columns become one, the darker wins.
Halved(r) == Moved(r, r.x0 \div 2, Ceiling(r.x1, 2), r.y0, r.y1)
Squeeze ==
  /\ stage = "squeeze"
  /\ IF scale = 1 THEN stage' = "paste" /\ Skip
     ELSE Keep(Each(Halved), canvas.w \div 2, canvas.h, "paste")

finalW == job.media.dots
finalH == IF auto THEN canvas.h ELSE height * scale
Paste ==
  /\ stage = "paste"
  /\ IF canvas.w > finalW \/ canvas.h > finalH
     THEN Fails(IF Sideways THEN "unfit" ELSE "internal")
     ELSE LET x0 == (finalW - canvas.w) \div 2
              y0 == CASE job.valign = "center" -> (finalH - canvas.h) \div 2
                      [] job.valign = "bottom" -> finalH - canvas.h
                      [] OTHER -> 0
              F(r) == Moved(r, r.x0 + x0, r.x1 + x0, r.y0 + y0, r.y1 + y0)
          IN  Keep(Each(F), finalW, finalH, "mirror")

Mirrored(r) == Moved(r, finalW - r.x1, finalW - r.x0, r.y0, r.y1)
Mirror ==
  /\ stage = "mirror"
  /\ Keep(IF job.mirror THEN Each(Mirrored) ELSE ink, canvas.w, canvas.h, "fit")

\* The label ends below its last row with ink, plus the margin, and is no
\* shorter than the shortest label; a cable label goes around the cable.
LastRow == IF ink = {} THEN 0 ELSE CHOOSE n \in {r.y1 : r \in ink} : \A r \in ink : r.y1 <= n
Fitted_Margin == LastRow + bottomMargin
Fitted == Most(LastRow + bottomMargin, MMToDots(MinLengthMM) * scale)
CableLength == IF job.cable THEN Rounded(Fitted * job.factor, 10) ELSE Fitted

AutoFit ==
  /\ stage = "fit"
  /\ IF ~ auto THEN stage' = "rasterize" /\ Skip
     ELSE IF CableLength > MaxLengthDots * scale THEN Fails("unfit")
     ELSE Keep(ink, finalW, CableLength, "rasterize")

\* Column x is pin right + width - 1 - x of the head.
Pin_OffByOne(x) == job.media.right + job.media.dots - x
Pin(x) == job.media.right + job.media.dots - 1 - x
Rasterize ==
  /\ stage = "rasterize"
  /\ pins' = {[from |-> Pin(r.x1 - 1), to |-> Pin(r.x0)] : r \in ink}
  /\ stage' = "done"
  /\ UNCHANGED <<job, lines, y, canvas, boxes, ink, lost>>

Render ==
  \/ PlaceLine \/ EndText \/ PlaceQR \/ PlaceBarcode \/ PlaceImage
  \/ Rotate \/ Squeeze \/ Paste \/ Mirror \/ AutoFit \/ Rasterize

-----------------------------------------------------------------------------
\* No element is drawn over another or into a margin: the places are apart,
\* between the left and right margins and above the bottom margin.  A picture
\* that will be turned may be wider than the label is.
Apart(a, b) == a.x1 <= b.x0 \/ b.x1 <= a.x0 \/ a.y1 <= b.y0 \/ b.y1 <= a.y0
ElementsApart ==
  /\ LayoutTypeOK
  /\ \A a, b \in boxes : a = b \/ Apart(a, b)
  /\ \A b \in boxes :
       /\ b.y0 >= topMargin /\ b.y1 <= ch - bottomMargin /\ b.x0 >= leftMargin
       /\ b.x1 <= leftMargin + contentW \/ (Sideways /\ b.kind = "image")

\* Whatever is turned, halved, moved, mirrored and trimmed on the way, nothing
\* that was drawn is missing on the label, and all of it is printed by pins
\* over the label.  The text below a barcode is not checked by the program;
\* a picture squeezed between margins so wide that it is one dot is not
\* counted.  With a negative margin at the top or bottom, which Validate
\* accepts, content is cut off without a word.
NothingIsCutOff ==
  stage = "done" =>
    /\ (job.top >= 0 /\ job.bottom >= 0 /\ contentW > 2 * sideMargin) => lost \subseteq {"hri"}
    /\ \A p \in pins : job.media.right <= p.from /\ p.to < job.media.right + job.media.dots
    /\ \A p \in pins : p.from <= p.to /\ p.to < Pins

\* A label is as long as the printer can print: the length asked for or that
\* of the media, or the content's, from 12.7 mm to 1 m.
LengthIsPrintable ==
  stage = "done" =>
    /\ canvas.w = job.media.dots
    /\ IF job.media.form = "endless"
       THEN /\ canvas.h \in 150 * scale .. MaxLengthDots * scale
            /\ job.length > 0 => canvas.h = MMToDots(job.length) * scale
       ELSE canvas.h = job.media.rows * scale

\* A job that Validate accepted is rendered or turned down with a reason,
\* except for what Validate lets pass unseen: the "internal error" answers of
\* render.go:379 and 469 are given only for a negative bottom margin or a line
\* of no height, and only a negative top margin makes the program panic.
FailsOnlyUnchecked ==
  /\ stage = "internal" => job.bottom < 0 \/ \E k \in DOMAIN job.text : job.text[k].h = 0
  /\ stage = "panic" => job.top < 0

\* Scanners find the bars: 10 modules are white on both sides of them.
QuietZone ==
  stage \in {"image", "rotate"} =>
    \A b \in {r \in ink : r.kind = "bars"}, box \in {r \in boxes : r.kind = "bars"} :
      LET module == (b.x1 - b.x0) \div job.barcode
      IN  /\ module >= 1
          /\ b.x0 - box.x0 >= QuietModules * module
          /\ box.x1 - b.x1 >= QuietModules * module
=============================================================================
