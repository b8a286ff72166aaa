------------------------------ MODULE PWGRaster ------------------------------
(***************************************************************************)
(* DecodePWGRaster of pkg/ipp/pwgraster.go.  The stream is chosen byte by  *)
(* byte as the decoder asks for it, so every stream over the counts in     *)
(* Counts is decoded, the malformed ones too.                              *)
(*                                                                         *)
(* A pixel byte is the number of the encoded line it was read from, modulo *)
(* 256, which is all the properties tell apart.  broken records that the   *)
(* client broke the format, apart from what the decoder makes of it.       *)
(* X_Y is a deliberate mistake in X.                                       *)
(***************************************************************************)
EXTENDS Integers

Shades == 0 .. 255   \* what a byte of a pixel, and a gray pixel, may be

CONSTANTS
  Widths, Heights,  \* of the pages; 0 is a page the decoder refuses
  Counts,           \* control bytes a stream may hold
  MaxPWGPages       \* bound: pages of a stream

ASSUME PWGAssumption ==
  /\ Widths \subseteq Nat /\ Heights \subseteq Nat
  /\ Counts \subseteq Shades /\ MaxPWGPages \in Nat

VARIABLES
  decoding,        \* where the decoder is
  header,          \* the page header it accepted
  row, rowPos,     \* the row buffer and how far it is filled
  rowIdx, repeat,  \* the next line of the page; lines the row stands for
  lineNo,          \* number of the encoded line that is being read
  image,           \* the page in gray
  pwgPages,        \* pages decoded
  broken           \* the client broke the format

pwgVars == <<decoding, header, row, rowPos, rowIdx, repeat, lineNo, image,
             pwgPages, broken>>

Headers == [dpi : {300, 600}, space : {"gray", "rgb", "other"}, bpp : {8, 24},
            colors : {1, 3}, width : Widths, height : Heights, padding : {0, 1}]
NoHeader == [dpi |-> 300, space |-> "gray", bpp |-> 8, colors |-> 1,
             width |-> 0, height |-> 0, padding |-> 0]

\* What the decoder takes: 300 dpi, 8 bit gray or 24 bit RGB, real
\* dimensions, and lines without padding (BytesPerLine).
Takes(h) ==
  /\ h.dpi = 300
  /\ \/ h.space = "gray" /\ h.bpp = 8 /\ h.colors = 1
     \/ h.space = "rgb" /\ h.bpp = 24 /\ h.colors = 3
  /\ h.width > 0 /\ h.height > 0
  /\ h.padding = 0

Channels == IF header.space = "rgb" THEN 3 ELSE 1
RowLength == header.width * Channels

PWGTypeOK ==
  /\ decoding \in {"idle", "header", "line", "chunk", "done", "unsupported", "malformed"}
  /\ (header \in Headers /\ Takes(header)) \/ header = NoHeader
  /\ rowPos \in 0 .. RowLength /\ row \in [0 .. RowLength - 1 -> Shades]
  /\ rowIdx \in 0 .. header.height /\ repeat \in 0 .. header.height - rowIdx
  /\ lineNo \in 0 .. header.height
  /\ image \in [0 .. header.height - 1 -> [0 .. header.width - 1 -> Shades]]
  /\ pwgPages \in 0 .. MaxPWGPages /\ broken \in BOOLEAN

PWGInit ==
  /\ decoding = "idle" /\ header = NoHeader
  /\ row = [b \in {} |-> 0] /\ image = [r \in {} |-> row]
  /\ rowPos = 0 /\ rowIdx = 0 /\ repeat = 0 /\ lineNo = 0
  /\ pwgPages = 0 /\ broken = FALSE

-----------------------------------------------------------------------------
Refuse(why) ==
  /\ decoding' = why
  /\ UNCHANGED <<header, row, rowPos, rowIdx, repeat, lineNo, image, pwgPages>>

\* Only a stream that starts with the sync word is looked at.
Sync ==
  /\ decoding = "idle"
  /\ \/ decoding' = "header" /\ UNCHANGED broken
     \/ decoding' = "malformed" /\ broken' = TRUE
  /\ UNCHANGED <<header, row, rowPos, rowIdx, repeat, lineNo, image, pwgPages>>

PageHeader(h) ==
  /\ decoding = "header" /\ pwgPages < MaxPWGPages
  /\ Takes(h)
  /\ decoding' = "line" /\ header' = h
  /\ rowPos' = 0 /\ rowIdx' = 0 /\ repeat' = 0 /\ lineNo' = 0
  /\ LET bytes == 0 .. (h.width * IF h.space = "rgb" THEN 3 ELSE 1) - 1
     IN  /\ row' = [b \in bytes |-> 0]
         /\ image' = [r \in 0 .. h.height - 1 |-> [x \in 0 .. h.width - 1 |-> 0]]
  /\ UNCHANGED <<pwgPages, broken>>

BadHeader(h) ==
  /\ decoding = "header" /\ pwgPages < MaxPWGPages
  /\ ~ Takes(h)
  /\ Refuse("unsupported") /\ UNCHANGED broken

\* No header follows: the stream ends, or ends inside a header.  A stream
\* without a page is an error too.
StreamEnds ==
  /\ decoding = "header"
  /\ \/ pwgPages > 0 /\ Refuse("done") /\ UNCHANGED broken
     \/ Refuse("malformed") /\ broken' = TRUE

\* The stream ends inside a page: before a line or one of its chunks, or
\* inside a chunk.
PageTruncated ==
  /\ decoding \in {"line", "chunk"}
  /\ Refuse("malformed") /\ broken' = TRUE

-----------------------------------------------------------------------------
(* One encoded line: its repeat count, then chunks until the row is full.  *)

LineRepeat(count) ==
  /\ decoding = "line"
  /\ IF rowIdx + count + 1 > header.height
     THEN Refuse("malformed") /\ broken' = TRUE
     ELSE /\ decoding' = "chunk"
          /\ repeat' = count + 1 /\ rowPos' = 0 /\ lineNo' = lineNo + 1
          /\ UNCHANGED <<header, row, rowIdx, image, pwgPages, broken>>

\* The gray of a color, in 16 bit arithmetic: (77 r + 150 g + 29 b + 128) >> 8.
Gray(r, g, b) == (((77 * r + 150 * g + 29 * b + 128) % 65536) \div 256) % 256
Pixel(bytes, x) ==
  IF Channels = 1 THEN bytes[x] ELSE Gray(bytes[3 * x], bytes[3 * x + 1], bytes[3 * x + 2])

\* n bytes of the line are put into the row; a full row is stored in all the
\* lines it stands for.
StoreRow_Once(bytes) ==
  image' = [image EXCEPT ![rowIdx] = [x \in DOMAIN @ |-> Pixel(bytes, x)]]
StoreRow(bytes) ==
  image' = [r \in DOMAIN image |->
              IF r \in rowIdx .. rowIdx + repeat - 1
              THEN [x \in DOMAIN image[r] |-> Pixel(bytes, x)] ELSE image[r]]

Fill(n) ==
  LET filled == [b \in DOMAIN row |->
                   IF b \in rowPos .. rowPos + n - 1 THEN lineNo % 256 ELSE row[b]]
      full == rowPos + n >= RowLength
      complete == full /\ rowIdx + repeat = header.height
  IN  /\ row' = filled /\ rowPos' = rowPos + n
      /\ decoding' = IF complete THEN "header" ELSE IF full THEN "line" ELSE "chunk"
      /\ pwgPages' = IF complete THEN pwgPages + 1 ELSE pwgPages
      /\ IF full
         THEN StoreRow(filled) /\ rowIdx' = rowIdx + repeat /\ repeat' = 0
         ELSE UNCHANGED <<image, rowIdx, repeat>>
      /\ UNCHANGED <<header, lineNo>>

\* A repeated pixel: what goes past the end of the line is dropped.
Clip(n) == IF rowPos + n > RowLength THEN RowLength - rowPos ELSE n

RepeatChunk(ctrl) ==
  /\ decoding = "chunk" /\ ctrl < 128
  /\ LET n == (ctrl + 1) * Channels
     IN  /\ Fill(Clip(n))
         /\ broken' = (broken \/ rowPos + n > RowLength)

\* Literal pixels: past the end of the line they are an error.
TooLong(n) == rowPos + n > RowLength

LiteralChunk(ctrl) ==
  /\ decoding = "chunk" /\ ctrl >= 128
  /\ LET n == (257 - ctrl) * Channels
     IN  /\ IF TooLong(n) THEN Refuse("malformed") ELSE Fill(n)
         /\ broken' = (broken \/ rowPos + n > RowLength)

PWGNext ==
  \/ Sync \/ StreamEnds \/ PageTruncated
  \/ \E h \in Headers : PageHeader(h) \/ BadHeader(h)
  \/ \E c \in Counts : LineRepeat(c) \/ RepeatChunk(c) \/ LiteralChunk(c)

-----------------------------------------------------------------------------
\* A stream that keeps to the format is never refused as malformed.
ValidIsDecoded == decoding = "malformed" => broken

\* of gives the encoded line each row decoded so far stands for: the first
\* row for the first line, the next row for the same line or the next one, the
\* last row for the line before the one that is being read.
RowsOf(of) ==
  /\ \A r \in 0 .. rowIdx - 1 :
       of[r] - (IF r = 0 THEN 0 ELSE of[r - 1]) \in IF r = 0 THEN {1} ELSE {0, 1}
  /\ lineNo - (IF rowIdx = 0 THEN 0 ELSE of[rowIdx - 1]) = IF repeat > 0 THEN 1 ELSE 0
  /\ \A r \in 0 .. rowIdx - 1 : \A x \in DOMAIN image[r] : image[r][x] = of[r] % 256

\* The rows decoded so far are the encoded lines in their order, each row
\* one line's pixels from end to end and none of an earlier line's; every
\* encoded line is in the page.
RowsAreLines ==
  /\ \E of \in [0 .. rowIdx - 1 -> 1 .. lineNo] : RowsOf(of)
  /\ decoding = "done" => rowIdx = header.height

\* Every stream is decoded inside the row and the page, to the lines it
\* encodes, or refused for a reason.
PagesAreDecoded == PWGTypeOK /\ ValidIsDecoded /\ RowsAreLines
=============================================================================
