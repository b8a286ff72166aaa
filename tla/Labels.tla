-------------------------------- MODULE Labels --------------------------------
(***************************************************************************)
(* The labels of the QL-570: the media table of pkg/ql/labels.go and the   *)
(* arithmetic that pkg/ql/render.go does with dots.  Millimetres are given *)
(* in tenths.  X_Y is a deliberate mistake in X.                           *)
(***************************************************************************)
EXTENDS Integers

\* feed is FeedMarginDots, what is fed at the ends of a label unless its job
\* says otherwise.
Media(form, width, length, dots, rows, right, feed) ==
  [form |-> form, width |-> width, length |-> length, dots |-> dots, rows |-> rows,
   right |-> right, feed |-> feed]
Tape(width, dots, right) == Media("endless", width, 0, dots, 0, right, 35)
DieCut(width, length, dots, rows, right) == Media("diecut", width, length, dots, rows, right, 0)
Round(width, dots, right, feed) == Media("round", width, width, dots, dots, right, feed)

MediaTable ==
  {Tape(12, 106, 29), Tape(29, 306, 6), Tape(38, 413, 12), Tape(50, 554, 12),
   Tape(54, 590, 0), Tape(62, 696, 12),
   DieCut(17, 54, 165, 566, 0), DieCut(17, 87, 165, 956, 0), DieCut(23, 23, 236, 202, 42),
   DieCut(29, 90, 306, 991, 6), DieCut(38, 90, 413, 991, 12), DieCut(39, 48, 425, 495, 6),
   DieCut(52, 29, 578, 271, 0), DieCut(62, 29, 696, 271, 12), DieCut(62, 100, 696, 1109, 12),
   Round(12, 94, 113, 35), Round(24, 236, 42, 0), Round(58, 618, 51, 0)}

Pins == 720
MaxLengthDots == 11811
MinLengthMM == 127
MaxLengthMM == 10000

\* a / b, rounded to the nearest whole number.
Rounded(a, b) == (2 * a + b) \div (2 * b)
\* a / b, rounded up.
Ceiling(a, b) == (a + b - 1) \div b

MMToDots(tenths) == Rounded(tenths * 300, 254)

AlignedX(align, w, cw) ==
  CASE align = "center" -> (cw - w) \div 2
    [] align = "right" -> cw - w
    [] OTHER -> 0

-----------------------------------------------------------------------------
(* A Code 128 symbol of so many modules in an area of so many dots: room   *)
(* for 10 modules is kept on each side, and the library draws every module *)
(* with the same whole number of dots, in the middle of the width it gets. *)

QuietModules == 10
BarWidth_EdgeToEdge(total, modules) == total
BarWidth(total, modules) == (total * modules) \div (modules + 2 * QuietModules)
Quiet(total, modules) == (total - BarWidth(total, modules)) \div 2
ModuleDots(total, modules) == BarWidth(total, modules) \div modules
BarsInset(total, modules) ==
  (BarWidth(total, modules) - modules * ModuleDots(total, modules)) \div 2
=============================================================================
