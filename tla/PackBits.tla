------------------------------- MODULE PackBits -------------------------------
(***************************************************************************)
(* PackBitsEncode and PackBitsDecode of pkg/ql/compress.go: one action per *)
(* iteration of each loop, at byte width.  A line is encoded to the end    *)
(* and then decoded.  X_Y is a deliberate mistake in X.                    *)
(***************************************************************************)
EXTENDS Integers, Sequences

Bytes == 0 .. 255

CONSTANTS
  Lines,    \* the raster lines that are encoded
  MaxRun    \* packBitsMaxRun

ASSUME PackBitsAssumption == MaxRun = 128 /\ \A l \in Lines : l \in Seq(Bytes)

VARIABLES
  packing,      \* what is going on
  line, taken,  \* src of the encoder and how much of it is encoded
  code, read,   \* its out, and how much of it is decoded
  plain         \* out of the decoder

packVars == <<packing, line, taken, code, read, plain>>

PackBitsTypeOK ==
  /\ packing \in {"idle", "encode", "decode", "truncated", "done"}
  /\ line \in Seq(Bytes) /\ taken \in 0 .. Len(line)
  /\ code \in Seq(Bytes) /\ read \in 0 .. Len(code)
  /\ plain \in Seq(Bytes)

PackBitsInit ==
  /\ packing = "idle" /\ line = <<>> /\ taken = 0
  /\ code = <<>> /\ read = 0 /\ plain = <<>>

\* Go's byte(n) and int(int8(b)).
Byte(n) == n % 256
Signed(b) == IF b >= 128 THEN b - 256 ELSE b

Smaller(a, b) == IF a < b THEN a ELSE b
Left == Len(line) - taken
At(k) == line[taken + k]

StartLine(l) ==
  /\ packing = "idle"
  /\ line' = l /\ packing' = "encode"
  /\ UNCHANGED <<taken, code, read, plain>>

-----------------------------------------------------------------------------
\* The run of identical bytes at the head of what is left, cut at MaxRun.
Run_OneMore ==
  CHOOSE n \in 1 .. Smaller(Left, MaxRun + 2) :
    /\ \A k \in 1 .. n : At(k) = At(1)
    /\ n \in {Left, MaxRun + 2} \/ At(n + 1) # At(1)
Run ==
  CHOOSE n \in 1 .. Smaller(Left, MaxRun) :
    /\ \A k \in 1 .. n : At(k) = At(1)
    /\ n \in {Left, MaxRun} \/ At(n + 1) # At(1)

\* The literal ends at the line's end, at MaxRun, or before two equal bytes.
LiteralStops(n) == n = Left \/ n = MaxRun \/ (n + 2 <= Left /\ At(n + 1) = At(n + 2))
Literal ==
  CHOOSE n \in 1 .. Smaller(Left, MaxRun) :
    LiteralStops(n) /\ \A k \in 1 .. n - 1 : ~ LiteralStops(k)

Encode(chunk, n) ==
  /\ code' = code \o chunk /\ taken' = taken + n
  /\ UNCHANGED <<packing, line, read, plain>>

EncodeRun ==
  /\ packing = "encode" /\ Left > 0 /\ Run >= 2
  /\ Encode(<<Byte(- (Run - 1)), At(1)>>, Run)

EncodeLiteral ==
  /\ packing = "encode" /\ Left > 0 /\ Run = 1
  /\ Encode(<<Byte(Literal - 1)>> \o SubSeq(line, taken + 1, taken + Literal), Literal)

Encoded ==
  /\ packing = "encode" /\ Left = 0
  /\ packing' = "decode"
  /\ UNCHANGED <<line, taken, code, read, plain>>

-----------------------------------------------------------------------------
Unread == Len(code) - read
Count == Signed(code[read + 1])

Truncated ==
  /\ packing = "decode" /\ Unread > 0
  /\ Unread < IF Count >= 0 THEN Count + 2 ELSE 2
  /\ packing' = "truncated"
  /\ UNCHANGED <<line, taken, code, read, plain>>

DecodeLiteral ==
  /\ packing = "decode" /\ Unread > 0 /\ Count >= 0 /\ Unread >= Count + 2
  /\ plain' = plain \o SubSeq(code, read + 2, read + Count + 2)
  /\ read' = read + Count + 2
  /\ UNCHANGED <<packing, line, taken, code>>

DecodeRun ==
  /\ packing = "decode" /\ Unread > 0 /\ Count < 0 /\ Unread >= 2
  /\ plain' = plain \o [k \in 1 .. 1 - Count |-> code[read + 2]]
  /\ read' = read + 2
  /\ UNCHANGED <<packing, line, taken, code>>

Decoded ==
  /\ packing = "decode" /\ Unread = 0
  /\ packing' = "done"
  /\ UNCHANGED <<line, taken, code, read, plain>>

PackBitsNext ==
  \/ \E l \in Lines : StartLine(l)
  \/ EncodeRun \/ EncodeLiteral \/ Encoded
  \/ DecodeLiteral \/ DecodeRun \/ Decoded \/ Truncated

-----------------------------------------------------------------------------
\* The encoder never splits a line so finely that it grows by more than a
\* third: a lone byte costs one more, and a pair next to it nothing.
GrowsByAThird == 3 * Len(code) <= 4 * taken + 2

\* Decoding gives the line back, whatever its runs and their lengths are:
\* at every step the decoder has a prefix of it, and in the end all of it.
\* The code is made of bytes and does not outgrow the line.
LineComesBack ==
  /\ PackBitsTypeOK /\ GrowsByAThird
  /\ packing # "truncated"
  /\ Len(plain) <= Len(line) /\ plain = SubSeq(line, 1, Len(plain))
  /\ packing = "done" => plain = line
=============================================================================
