------------------------------- MODULE MCCodecs -------------------------------
(***************************************************************************)
(* What bytes and pixels become: a raster line (PackBits), a PWG Raster    *)
(* document (PWGRaster), the printer's command stream (RasterStream) and a *)
(* page image that is turned (Orientation).  A behaviour works on one of   *)
(* them.                                                                   *)
(***************************************************************************)
EXTENDS PackBits, PWGRaster, RasterStream, Orientation

VARIABLE format
vars == <<packVars, pwgVars, streamVars, orientationVars, format>>

\* Runs and mixtures whose lengths are around the limit of 128 bytes, in all
\* positions of a line.
Same(b, n) == [k \in 1 .. n |-> b]
Mixed(n) == [k \in 1 .. n |-> IF k % 2 = 1 THEN 1 ELSE 2]
MCLines ==
  {Same(0, a) \o Mixed(m) \o Same(x, b) :
     a \in {0, 1, 2, 127, 128, 129, 130}, m \in {0, 1, 2, 127, 128, 129},
     x \in {1, 2}, b \in {0, 1, 2, 3}}

Label(m, cut, every, hi, feed, n, c) ==
  [media |-> m, autoCut |-> cut, cutEvery |-> every, hires |-> hi, quality |-> ~ hi,
   feedDots |-> feed, rows |-> n, copies |-> c]

\* Batches that change every mode between two pages, and back; tape, a round
\* label with a feed of its own and a die-cut label with none.
MCBatches ==
  LET tape == Tape(62, 696, 12)
      round == Round(12, 94, 113, 35)
  IN  {<<Label(tape, TRUE, 255, TRUE, 0, 2, 1), Label(tape, FALSE, 1, FALSE, 65571, 1, 2),
         Label(tape, TRUE, 3, FALSE, 35, 0, 1)>>,
       <<Label(round, FALSE, 2, TRUE, 1500, 1, 1), Label(round, TRUE, 1, FALSE, 0, 2, 1)>>,
       <<Label(DieCut(62, 29, 696, 271, 12), TRUE, 1, FALSE, 0, 1, 2)>>}

MCSettings == [off : {0, 10, 60, 15, Keep}, on : BOOLEAN \union {Keep}]

Init ==
  /\ PackBitsInit /\ PWGInit /\ StreamInit /\ OrientationInit
  /\ format \in {"packbits", "pwg", "stream", "image"}
Next ==
  /\ UNCHANGED format
  /\ \/ format = "packbits" /\ PackBitsNext /\ UNCHANGED <<pwgVars, streamVars, orientationVars>>
     \/ format = "pwg" /\ PWGNext /\ UNCHANGED <<packVars, streamVars, orientationVars>>
     \/ format = "stream" /\ StreamNext /\ UNCHANGED <<packVars, pwgVars, orientationVars>>
     \/ format = "image" /\ OrientationNext /\ UNCHANGED <<packVars, pwgVars, streamVars>>
Spec == Init /\ [][Next]_vars
=============================================================================
