------------------------------ MODULE FontCache ------------------------------
(***************************************************************************)
(* loadStyledFace and drawText of pkg/ql/font.go as the renderers of       *)
(* several requests call them at once: previews of the HTTP API run beside *)
(* each other and beside a print.                                          *)
(*                                                                         *)
(* A face is named by its key and the renderer that made it.  Its glyph    *)
(* method draws the glyph into a mask that belongs to the face, and the    *)
(* drawer copies the mask to the label (golang.org/x/image).               *)
(***************************************************************************)
EXTENDS Integers

CONSTANTS
  Renderers,  \* renderings that run at once
  Keys,       \* font, style and size of a face
  Nobody,
  MaxGlyphs   \* bound: glyphs of a text

VARIABLES
  pc,         \* what each renderer does
  key,        \* the face it wants
  parsed,     \* it has the parsed font, from the cache or by itself
  face,       \* the face it uses
  glyphs,     \* glyphs it has drawn
  fontCache,  \* keys whose font is kept
  faceCache,  \* key to the face that is kept, or Nobody's
  mask,       \* whose glyph is in the mask of a face
  label       \* whose glyphs are on each renderer's label

vars == <<pc, key, parsed, face, glyphs, fontCache, faceCache, mask, label>>

Faces == Keys \X (Renderers \union {Nobody})

Init ==
  /\ pc = [r \in Renderers |-> "idle"] /\ key \in [Renderers -> Keys]
  /\ parsed = [r \in Renderers |-> FALSE]
  /\ face = [r \in Renderers |-> <<key[r], Nobody>>]
  /\ glyphs = [r \in Renderers |-> 0]
  /\ fontCache = {} /\ faceCache = [k \in Keys |-> <<k, Nobody>>]
  /\ mask = [f \in Faces |-> Nobody]
  /\ label = [r \in Renderers |-> {}]

Step(r, from, to) == pc[r] = from /\ pc' = [pc EXCEPT ![r] = to]

\* Both caches, under the mutex.
Lookup(r) ==
  /\ LET hit == faceCache[key[r]] # <<key[r], Nobody>>
     IN  /\ Step(r, "idle", IF hit THEN "text" ELSE "parse")
         /\ face' = [face EXCEPT ![r] = faceCache[key[r]]]
         /\ parsed' = [parsed EXCEPT ![r] = ~ hit /\ key[r] \in fontCache]
  /\ UNCHANGED <<key, glyphs, fontCache, faceCache, mask, label>>

\* Without the mutex: two renderers may parse the same font.  A font file may
\* be missing or broken.
Parse(r) ==
  /\ ~ parsed[r]
  /\ \/ Step(r, "parse", "failed") /\ UNCHANGED <<parsed, fontCache>>
     \/ /\ Step(r, "parse", "parse")
        /\ parsed' = [parsed EXCEPT ![r] = TRUE]
        /\ fontCache' = fontCache \union {key[r]}
  /\ UNCHANGED <<key, face, glyphs, faceCache, mask, label>>

\* The face made last is the one that is kept.
NewFace(r) ==
  /\ parsed[r]
  /\ Step(r, "parse", "text")
  /\ face' = [face EXCEPT ![r] = <<key[r], r>>]
  /\ faceCache' = [faceCache EXCEPT ![key[r]] = <<key[r], r>>]
  /\ UNCHANGED <<key, parsed, glyphs, fontCache, mask, label>>

\* The drawer asks the face for a glyph, then copies its mask.
Glyph(r) ==
  /\ glyphs[r] < MaxGlyphs
  /\ Step(r, "text", "glyph")
  /\ mask' = [mask EXCEPT ![face[r]] = r]
  /\ UNCHANGED <<key, parsed, face, glyphs, fontCache, faceCache, label>>

DrawMask(r) ==
  /\ Step(r, "glyph", "text")
  /\ label' = [label EXCEPT ![r] = @ \union {mask[face[r]]}]
  /\ glyphs' = [glyphs EXCEPT ![r] = @ + 1]
  /\ UNCHANGED <<key, parsed, face, fontCache, faceCache, mask>>

Next ==
  \E r \in Renderers : Lookup(r) \/ Parse(r) \/ NewFace(r) \/ Glyph(r) \/ DrawMask(r)
Spec == Init /\ [][Next]_vars

-----------------------------------------------------------------------------
\* font.go: "Faces are read-only once created, so they may be shared across
\* concurrent requests": a label only gets glyphs of its own text.
LabelIsOwnText == \A r \in Renderers : label[r] \subseteq {r}
=============================================================================
