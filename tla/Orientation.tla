------------------------------ MODULE Orientation ------------------------------
(***************************************************************************)
(* orientation-requested and the page images of a PDF: applyOrientation of *)
(* pkg/ipp/rotate.go and its pixel loops.                                  *)
(*                                                                         *)
(* An image is a function of its rows, a row of its columns, both from 0.  *)
(* Every pixel of the page has a number of its own, so a pixel that is     *)
(* moved, lost or doubled shows.  X_Y is a deliberate mistake in X.        *)
(***************************************************************************)
EXTENDS Integers

CONSTANT Sides   \* widths and heights of the pages

ASSUME SidesAssumption == Sides \subseteq Nat \ {0}

VARIABLES
  turning,         \* "idle", "page" (rendered) or "turned"
  sheet, request,  \* the page as it was rendered, and what the job asks for
  result           \* the page as it is printed

orientationVars == <<turning, sheet, request, result>>

orientationPortrait == 3
orientationLandscape == 4
orientationReversePortrait == 5
orientationReverseLandscape == 6
Requests == orientationPortrait .. orientationReverseLandscape

Image(w, h, At(_, _)) == [r \in 0 .. h - 1 |-> [c \in 0 .. w - 1 |-> At(r, c)]]
Pixels(w, h) == LET At(r, c) == w * r + c IN Image(w, h, At)
Height(img) == CHOOSE n \in Sides : DOMAIN img = 0 .. n - 1
Width(img) == CHOOSE n \in Sides : DOMAIN img[0] = 0 .. n - 1

\* The loops write pixel (x, y) of the source to a place of the new image;
\* here the new image reads it from there.
rotateGray90CCW_Mirrored(src) ==
  LET At(r, c) == src[c][r] IN Image(Height(src), Width(src), At)
rotateGray90CCW(src) ==
  LET At(r, c) == src[c][Width(src) - 1 - r] IN Image(Height(src), Width(src), At)
rotateGray90CW(src) ==
  LET At(r, c) == src[Height(src) - 1 - c][r] IN Image(Height(src), Width(src), At)
rotateGray180(src) ==
  LET At(r, c) == src[Height(src) - 1 - r][Width(src) - 1 - c]
  IN  Image(Width(src), Height(src), At)

Landscape(img) == Width(img) > Height(img)
applyOrientation(img, requested) ==
  CASE requested = orientationLandscape /\ ~ Landscape(img) -> rotateGray90CCW(img)
    [] requested = orientationPortrait /\ Landscape(img) -> rotateGray90CCW(img)
    [] requested = orientationReversePortrait -> rotateGray180(img)
    [] requested = orientationReverseLandscape /\ ~ Landscape(img) -> rotateGray90CW(img)
    [] OTHER -> img

OrientationInit == turning = "idle" /\ sheet = Pixels(1, 1) /\ request = 3 /\ result = sheet

RenderedPage(w, h, n) ==
  /\ turning = "idle" /\ turning' = "page"
  /\ sheet' = Pixels(w, h) /\ request' = n /\ result' = sheet'

OrientPage ==
  /\ turning = "page" /\ turning' = "turned"
  /\ result' = applyOrientation(sheet, request)
  /\ UNCHANGED <<sheet, request>>

OrientationNext == (\E w, h \in Sides, n \in Requests : RenderedPage(w, h, n)) \/ OrientPage

-----------------------------------------------------------------------------
\* Where pixel k is: its column and row.
Place(img, k) ==
  CHOOSE p \in (0 .. Width(img) - 1) \X (0 .. Height(img) - 1) : img[p[2]][p[1]] = k
Offset(img, a, b) ==
  <<Place(img, b)[1] - Place(img, a)[1], Place(img, b)[2] - Place(img, a)[2]>>

\* A step across the page becomes the same step after n quarter turns against
\* the clock: to the right becomes up, left and down.
Quarters(n, d) ==
  CASE n = 0 -> d
    [] n = 1 -> <<d[2], - d[1]>>
    [] n = 2 -> <<- d[1], - d[2]>>
    [] n = 3 -> <<- d[2], d[1]>>

\* The quarter turns a request means for a page: portrait and landscape turn
\* it only when it does not stand or lie that way yet, the reverse requests
\* turn it by 180 degrees from there (rotate.go:17-21).
Turns ==
  CASE request = orientationPortrait -> IF Landscape(sheet) THEN 1 ELSE 0
    [] request = orientationLandscape -> IF Landscape(sheet) THEN 0 ELSE 1
    [] request = orientationReversePortrait -> 2
    [] request = orientationReverseLandscape -> 3

\* A page that lies down already, asked for in reverse landscape.
LiesAlready == request = orientationReverseLandscape /\ Landscape(sheet)

\* The page that is printed is the page that was rendered, turned by exactly
\* the quarters the request means and never mirrored, with every pixel; and it
\* stands or lies as the job asked.  The one exception is a page that lies
\* down already and is asked for in reverse landscape: rotate.go:20-21 says
\* that reverse requests turn by 180 degrees, and it comes out unturned.
TurnedAsAsked ==
  turning = "turned" =>
    /\ IF LiesAlready THEN result = sheet
       ELSE \A a, b \in 0 .. Width(sheet) * Height(sheet) - 1 :
              Offset(result, a, b) = Quarters(Turns, Offset(sheet, a, b))
    /\ (request \in {orientationLandscape, orientationReverseLandscape}) =>
         Width(result) >= Height(result)
    /\ request = orientationPortrait => Height(result) >= Width(result)
=============================================================================
