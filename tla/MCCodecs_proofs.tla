---------------------------- MODULE MCCodecs_proofs ----------------------------
(***************************************************************************)
(* That the codecs do what they promise on lines, documents, streams and   *)
(* sheets of any size: one inductive invariant per codec, and the theorems *)
(* of MCCodecs!Spec at the end.                                            *)
(***************************************************************************)
EXTENDS MCCodecs, RasterStream_proofs

-----------------------------------------------------------------------------
(* PackBits: the code is a chain of chunks, each standing for bytes of the line.*)

\* A byte, without the list of its values.
LEMMA ByteFacts ==
  \A b : b \in Bytes <=> b \in Int /\ 0 <= b /\ b <= 255
  <1>1. ASSUME NEW m \in Int, NEW n \in Int
        PROVE  \A b : b \in m .. n <=> b \in Int /\ m <= b /\ b <= n
    OBVIOUS
  <1> QED BY <1>1 DEF Bytes

\* The control byte of a run, and of literal bytes.
LEMMA RunByte == ASSUME NEW n \in Nat, n >= 2, n <= 128 PROVE Byte(- (n - 1)) = 257 - n
  BY DEF Byte

LEMMA LiteralByte == ASSUME NEW n \in Nat, n >= 1, n <= 128 PROVE Byte(n - 1) = n - 1
  BY DEF Byte

\* What is left of the line, as bytes.
LEMMA LeftFacts ==
  ASSUME PackBitsTypeOK
  PROVE  /\ Left \in Nat /\ Len(line) \in Nat /\ taken \in Nat /\ Left = Len(line) - taken
         /\ \A k \in 1 .. Left : At(k) \in Bytes /\ At(k) = line[taken + k]
  <1>1. line \in Seq(Bytes) /\ Len(line) \in Nat /\ taken \in 0 .. Len(line)
    BY DEF PackBitsTypeOK
  <1>2. Left \in Nat /\ taken \in Nat /\ Left = Len(line) - taken
    BY <1>1 DEF Left
  <1>3. ASSUME NEW k \in 1 .. Left PROVE At(k) \in Bytes /\ At(k) = line[taken + k]
    <2>1. taken + k \in 1 .. Len(line)
      BY <1>1, <1>2
    <2> QED BY <1>1, <2>1, ElementOfSeq DEF At
  <1> QED BY <1>1, <1>2, <1>3

\* What Run finds: equal bytes, and no more of them than fit.
LEMMA RunFacts ==
  ASSUME PackBitsTypeOK, Left > 0
  PROVE  /\ Run \in Nat /\ Run >= 1 /\ Run <= 128 /\ Run <= Left
         /\ \A k \in 1 .. Run : At(k) = At(1)
         /\ Run = Left \/ Run = 128 \/ At(Run + 1) # At(1)
  <1> DEFINE R == 1 .. Smaller(Left, MaxRun)
             Ends(n) == n \in {Left, MaxRun} \/ At(n + 1) # At(1)
             P(n) == (\A k \in 1 .. n : At(k) = At(1)) /\ Ends(n)
             S == {n \in R : Ends(n)}
  <1>1. MaxRun = 128 /\ Left \in Nat
    BY LeftFacts, PackBitsAssumption
  <1>2. /\ R \in SUBSET Nat /\ Smaller(Left, MaxRun) \in R
        /\ Smaller(Left, MaxRun) \in {Left, MaxRun}
    BY <1>1 DEF Smaller
  <1>3. S \in SUBSET Nat /\ S # {}
    BY <1>2
  <1>4. PICK n \in S : \A m \in S : n <= m
    BY <1>3, LeastNatural
  <1>5. n \in R /\ n \in Nat /\ n >= 1
    BY <1>1 DEF Smaller
  <1>6. \A k \in 1 .. n : At(k) = At(1)
    <2>1. ASSUME NEW k \in 1 .. n, k # 1 PROVE At(k) = At(1)
      <3>1. k - 1 \in R /\ k - 1 < n
        BY <1>1, <1>5, <2>1 DEF Smaller
      <3>2. k - 1 \notin S
        BY <1>4, <1>5, <3>1
      <3>3. ~ Ends(k - 1)
        BY <3>1, <3>2
      <3>4. (k - 1) + 1 = k
        BY <1>5
      <3> QED BY <3>3, <3>4
    <2> QED BY <2>1
  <1>7. n \in R /\ P(n)
    BY <1>5, <1>6
  <1>8. Run = CHOOSE m \in R : P(m)
    BY DEF Run
  <1>9. Run \in R /\ P(Run)
    BY <1>7, <1>8
  <1> QED BY <1>9, <1>1 DEF Smaller

\* What Literal finds: it stops at the end, at the limit or before a run.
LEMMA LiteralFacts ==
  ASSUME PackBitsTypeOK, Left > 0
  PROVE  /\ Literal \in Nat /\ Literal >= 1 /\ Literal <= 128 /\ Literal <= Left
         /\ \/ Literal = Left \/ Literal = 128
            \/ Literal + 2 <= Left /\ At(Literal + 1) = At(Literal + 2)
  <1> DEFINE R == 1 .. Smaller(Left, MaxRun)
             P(n) == LiteralStops(n) /\ \A k \in 1 .. n - 1 : ~ LiteralStops(k)
             S == {n \in R : LiteralStops(n)}
  <1>1. MaxRun = 128 /\ Left \in Nat
    BY LeftFacts, PackBitsAssumption
  <1>2. R \in SUBSET Nat /\ Smaller(Left, MaxRun) \in R
    BY <1>1 DEF Smaller
  <1>3. S \in SUBSET Nat /\ S # {}
    BY <1>1, <1>2 DEF Smaller, LiteralStops
  <1>4. PICK n \in S : \A m \in S : n <= m
    BY <1>3, LeastNatural
  <1>5. n \in R /\ n \in Nat
    BY <1>2
  <1>6. \A k \in 1 .. n - 1 : ~ LiteralStops(k)
    <2>1. ASSUME NEW k \in 1 .. n - 1 PROVE ~ LiteralStops(k)
      <3>1. k \in R /\ ~ (n <= k)
        BY <1>1, <1>5 DEF Smaller
      <3> QED BY <1>4, <3>1
    <2> QED BY <2>1
  <1>7. n \in R /\ P(n)
    BY <1>4, <1>6
  <1>8. Literal = CHOOSE m \in R : P(m)
    BY DEF Literal
  <1>9. Literal \in R /\ LiteralStops(Literal)
    BY <1>7, <1>8
  <1> QED BY <1>9, <1>1 DEF Smaller, LiteralStops

-----------------------------------------------------------------------------
\* A chunk of the code from c to d stands for the line from l to m.
Chunk(cs, ln, c, l, d, m) ==
  LET b == cs[c + 1]
  IN  \/ /\ b \in Nat /\ b <= 127 /\ d = c + b + 2 /\ m = l + b + 1
         /\ \A k \in 1 .. b + 1 : cs[c + 1 + k] = ln[l + k]
      \/ /\ b \in Nat /\ b >= 129 /\ b <= 255 /\ d = c + 2 /\ m = l + 257 - b
         /\ \A k \in 1 .. 257 - b : ln[l + k] = cs[c + 2]

\* The code so far is chunks that meet end to end, each of which stands for
\* its part of the line.  B holds where they meet.
Meets(B, cs, ln, n) ==
  /\ <<0, 0>> \in B /\ <<Len(cs), n>> \in B
  /\ \A p \in B :
       \/ p = <<Len(cs), n>>
       \/ \E q \in B : q[1] <= Len(cs) /\ q[2] <= n /\ Chunk(cs, ln, p[1], p[2], q[1], q[2])

\* Where the next run begins after a literal; what the code may be longer than
\* the line.
RunFollows == Left = 0 \/ (Left >= 2 /\ At(1) = At(2))
GrowthInv ==
  \/ 3 * Len(code) <= 4 * taken
  \/ 3 * Len(code) <= 4 * taken + 2 /\ RunFollows

PackInv ==
  /\ PackBitsTypeOK /\ packing # "truncated"
  /\ packing = "idle" => taken = 0 /\ Len(code) = 0
  /\ packing \in {"idle", "encode"} => read = 0 /\ Len(plain) = 0
  /\ packing \in {"decode", "done"} => taken = Len(line)
  /\ packing = "done" => read = Len(code)
  /\ GrowthInv
  /\ Len(plain) <= Len(line) /\ \A k \in 1 .. Len(plain) : plain[k] = line[k]
  /\ \E B \in SUBSET (Nat \X Nat) : Meets(B, code, line, taken) /\ <<read, Len(plain)>> \in B

\* Nothing is packed at first.
LEMMA PackInitEstablishes == PackBitsInit => PackInv
  <1> SUFFICES ASSUME PackBitsInit PROVE PackInv
    OBVIOUS
  <1>1. line = <<>> /\ code = <<>> /\ plain = <<>> /\ taken = 0 /\ read = 0 /\ packing = "idle"
    BY DEF PackBitsInit
  <1>2. <<>> \in Seq(Bytes) /\ Len(<<>>) = 0
    OBVIOUS
  <1>3. PackBitsTypeOK
    BY <1>1, <1>2 DEF PackBitsTypeOK
  <1>4. GrowthInv
    BY <1>1, <1>2 DEF GrowthInv
  <1>5. {<<0, 0>>} \in SUBSET (Nat \X Nat) /\ Meets({<<0, 0>>}, code, line, taken)
    BY <1>1, <1>2 DEF Meets
  <1> QED BY <1>1, <1>2, <1>3, <1>4, <1>5 DEF PackInv

\* A new line is taken up: no code yet.
LEMMA StartLineStep ==
  ASSUME PackInv, NEW l \in Lines, StartLine(l)
  PROVE  PackInv'
  <1>1. /\ packing = "idle" /\ packing' = "encode" /\ line' = l
        /\ taken' = taken /\ code' = code /\ read' = read /\ plain' = plain
    BY DEF StartLine
  <1>2. l \in Seq(Bytes) /\ Len(l) \in Nat
    BY PackBitsAssumption
  <1>3. taken = 0 /\ Len(code) = 0 /\ read = 0 /\ Len(plain) = 0
    BY <1>1 DEF PackInv
  <1>4. PackBitsTypeOK'
    BY <1>1, <1>2, <1>3 DEF PackInv, PackBitsTypeOK
  <1>5. GrowthInv'
    BY <1>1, <1>3 DEF GrowthInv
  <1>6. {<<0, 0>>} \in SUBSET (Nat \X Nat) /\ Meets({<<0, 0>>}, code', line', taken')
    BY <1>1, <1>3 DEF Meets
  <1> QED BY <1>1, <1>2, <1>3, <1>4, <1>5, <1>6 DEF PackInv

\* A chunk stays when bytes are put behind the code.
LEMMA KeptChunk ==
  ASSUME NEW c \in Nat, NEW l, NEW d \in Nat, NEW m,
         Chunk(code, line, c, l, d, m), d <= Len(code),
         Len(code) \in Nat, line' = line, \A k \in 1 .. Len(code) : code'[k] = code[k]
  PROVE  Chunk(code', line', c, l, d, m)
  <1> DEFINE b == code[c + 1]
  <1>1. c + 1 \in 1 .. Len(code) /\ c + 2 \in 1 .. Len(code)
    BY DEF Chunk
  <1>2. code'[c + 1] = b /\ code'[c + 2] = code[c + 2]
    BY <1>1
  <1>3. b \in Nat /\ b <= 127 /\ d = c + b + 2
          => \A k \in 1 .. b + 1 : code'[c + 1 + k] = code[c + 1 + k]
    OBVIOUS
  <1> QED BY <1>2, <1>3 DEF Chunk

\* A new chunk at the end of the code keeps the chunks before it.
LEMMA NewChunk ==
  ASSUME PackInv, packing = "encode", NEW chunk \in Seq(Bytes), NEW n \in 1 .. Left,
         Encode(chunk, n), Len(chunk) > 0,
         NEW c, NEW l, NEW d, NEW m, Chunk(code', line', c, l, d, m),
         c = Len(code), l = taken, d = Len(code'), m = taken'
  PROVE  \E B \in SUBSET (Nat \X Nat) :
           Meets(B, code', line', taken') /\ <<read', Len(plain')>> \in B
  <1>1. /\ code' = code \o chunk /\ taken' = taken + n
        /\ line' = line /\ read' = read /\ plain' = plain
    BY DEF Encode
  <1>2. /\ code \in Seq(Bytes) /\ Len(code) \in Nat /\ taken \in Nat
        /\ read = 0 /\ Len(plain) = 0
    BY DEF PackInv, PackBitsTypeOK
  <1>3. /\ Len(code') = Len(code) + Len(chunk)
        /\ \A k \in 1 .. Len(code) : code'[k] = code[k]
    BY <1>1, <1>2, ConcatProperties
  <1>4. PICK B \in SUBSET (Nat \X Nat) : Meets(B, code, line, taken)
    BY DEF PackInv
  <1> DEFINE end == <<Len(code'), taken'>>
             C == B \union {end}
  <1>5. Len(code') \in Nat /\ taken' \in Nat
    BY <1>1, <1>2, <1>3
  <1>6. C \in SUBSET (Nat \X Nat)
    BY <1>5
  <1>7. \A p \in C :
          \/ p = end
          \/ \E q \in C : /\ q[1] <= Len(code') /\ q[2] <= taken'
                          /\ Chunk(code', line', p[1], p[2], q[1], q[2])
    <2> SUFFICES ASSUME NEW p \in C, p # end
                 PROVE  \E q \in C : /\ q[1] <= Len(code') /\ q[2] <= taken'
                                     /\ Chunk(code', line', p[1], p[2], q[1], q[2])
      OBVIOUS
    <2>1. p \in B
      OBVIOUS
    <2>2. CASE p = <<Len(code), taken>>
      <3>1. p[1] = c /\ p[2] = l /\ end[1] = d /\ end[2] = m
        BY <2>2
      <3>2. end \in C /\ end[1] <= Len(code') /\ end[2] <= taken'
        BY <1>5
      <3>3. Chunk(code', line', p[1], p[2], end[1], end[2])
        BY <3>1
      <3> QED BY <3>2, <3>3
    <2>3. CASE p # <<Len(code), taken>>
      <3>1. PICK q \in B : /\ q[1] <= Len(code) /\ q[2] <= taken
                           /\ Chunk(code, line, p[1], p[2], q[1], q[2])
        BY <1>4, <2>1, <2>3 DEF Meets
      <3>2. /\ p[1] \in Nat /\ p[2] \in Nat /\ q[1] \in Nat /\ q[2] \in Nat
            /\ q[1] <= Len(code') /\ q[2] <= taken'
        BY <1>1, <1>2, <1>3, <2>1, <3>1
      <3>3. Chunk(code', line', p[1], p[2], q[1], q[2])
        BY <1>1, <1>2, <1>3, <3>1, <3>2, KeptChunk
      <3> QED BY <3>1, <3>2, <3>3
    <2> QED BY <2>2, <2>3
  <1>8. <<0, 0>> \in C /\ end \in C /\ <<read', Len(plain')>> \in C
    BY <1>1, <1>2, <1>4 DEF Meets
  <1>9. Meets(C, code', line', taken')
    BY <1>7, <1>8 DEF Meets
  <1> QED BY <1>6, <1>8, <1>9

\* EncodeRun appends one chunk for the bytes it takes.
LEMMA EncodeRunStep ==
  ASSUME PackInv, EncodeRun
  PROVE  PackInv'
  <1> DEFINE n == Run
             b == Byte(- (n - 1))
             chunk == <<b, At(1)>>
             c == Len(code)
             l == taken
             d == Len(code')
             m == taken'
  <1>1. packing = "encode" /\ Left > 0 /\ n >= 2 /\ Encode(chunk, n)
    BY DEF EncodeRun
  <1>2. PackBitsTypeOK
    BY DEF PackInv
  <1>3. /\ n \in Nat /\ n >= 1 /\ n <= 128 /\ n <= Left /\ \A k \in 1 .. n : At(k) = At(1)
        /\ n = Left \/ n = 128 \/ At(n + 1) # At(1)
    BY <1>1, <1>2, RunFacts
  <1>4. b \in Nat /\ b >= 129 /\ b <= 255 /\ b = 257 - n
    BY <1>1, <1>3, RunByte
  <1>5. At(1) \in Bytes /\ Left = Len(line) - taken /\ Len(line) \in Nat /\ taken \in Nat
    BY <1>1, <1>2, <1>3, LeftFacts
  <1>6. chunk \in Seq(Bytes) /\ Len(chunk) = 2 /\ chunk[1] = b /\ chunk[2] = At(1)
    <2>1. b \in Bytes
      BY <1>4, ByteFacts
    <2> QED BY <1>5, <2>1
  <1> HIDE DEF n, b, chunk
  <1>7. /\ code' = code \o chunk /\ taken' = taken + n
        /\ line' = line /\ read' = read /\ plain' = plain /\ packing' = packing
    BY <1>1 DEF Encode
  <1>8. code \in Seq(Bytes) /\ c \in Nat
    BY <1>2 DEF PackBitsTypeOK
  <1>9. /\ code' \in Seq(Bytes) /\ d = c + 2
        /\ code'[c + 1] = b /\ code'[c + 2] = At(1)
    <2>1. /\ code' \in Seq(Bytes) /\ d = c + 2
          /\ \A i \in 1 .. c + 2 : code'[i] = IF i <= c THEN code[i] ELSE chunk[i - c]
      <3>1. /\ code' \in Seq(Bytes) /\ d = c + Len(chunk)
            /\ \A i \in 1 .. c + Len(chunk) : code'[i] = IF i <= c THEN code[i] ELSE chunk[i - c]
        BY <1>6, <1>7, <1>8, ConcatProperties
      <3> QED BY <1>6, <3>1
    <2> QED BY <2>1, <1>6, <1>8
  <1>10. PackBitsTypeOK'
    BY <1>2, <1>3, <1>5, <1>7, <1>9 DEF PackBitsTypeOK
  <1>11. Chunk(code', line', c, l, d, m)
    <2>1. n = 257 - b /\ b \in Nat /\ b >= 129 /\ b <= 255 /\ m = l + 257 - b
      BY <1>3, <1>4, <1>5, <1>7
    <2>2. \A k \in 1 .. n : line'[l + k] = code'[c + 2]
      BY <1>3, <1>7, <1>9 DEF At
    <2>3. \A k \in 1 .. 257 - b : line'[l + k] = code'[c + 2]
      BY <2>1, <2>2
    <2> QED BY <1>9, <2>1, <2>3 DEF Chunk
  <1>12. \E B \in SUBSET (Nat \X Nat) :
           Meets(B, code', line', taken') /\ <<read', Len(plain')>> \in B
    BY <1>1, <1>3, <1>6, <1>11, NewChunk
  <1>13. GrowthInv'
    <2>1. 3 * c <= 4 * taken + 2
      BY <1>5, <1>8 DEF PackInv, GrowthInv
    <2>2. 3 * d <= 4 * (taken + n)
      BY <1>1, <1>3, <1>5, <1>8, <1>9, <2>1
    <2> QED BY <1>7, <2>2 DEF GrowthInv
  <1> QED BY <1>1, <1>7, <1>10, <1>12, <1>13 DEF PackInv

\* EncodeLiteral appends one chunk for the bytes it takes.
LEMMA EncodeLiteralStep ==
  ASSUME PackInv, EncodeLiteral
  PROVE  PackInv'
  <1> DEFINE n == Literal
             b == Byte(n - 1)
             part == SubSeq(line, taken + 1, taken + n)
             chunk == <<b>> \o part
             c == Len(code)
             l == taken
             d == Len(code')
             m == taken'
  <1>1. packing = "encode" /\ Left > 0 /\ Run = 1 /\ Encode(chunk, n)
    BY DEF EncodeLiteral
  <1>2. PackBitsTypeOK
    BY DEF PackInv
  <1>3. /\ n \in Nat /\ n >= 1 /\ n <= 128 /\ n <= Left
        /\ n = Left \/ n = 128 \/ (n + 2 <= Left /\ At(n + 1) = At(n + 2))
    BY <1>1, <1>2, LiteralFacts
  <1>4. b \in Nat /\ b <= 127 /\ b = n - 1
    BY <1>3, LiteralByte
  <1>5. /\ Left = Len(line) - taken /\ Len(line) \in Nat /\ taken \in Nat
        /\ \A k \in 1 .. n : line[taken + k] \in Bytes
    BY <1>2, <1>3, LeftFacts
  <1> HIDE DEF n, b
  <1>6. /\ part \in Seq(Bytes) /\ Len(part) = n
        /\ \A k \in 1 .. n : part[k] = line[taken + k]
    <2>1. \A i \in taken + 1 .. taken + n : line[i] \in Bytes
      <3> SUFFICES ASSUME NEW i \in taken + 1 .. taken + n PROVE line[i] \in Bytes
        OBVIOUS
      <3>1. i - taken \in 1 .. n /\ taken + (i - taken) = i
        BY <1>3, <1>5
      <3> QED BY <1>5, <3>1
    <2>2. taken + 1 \in Int /\ taken + n \in Int
      BY <1>3, <1>5
    <2>3. /\ part \in Seq(Bytes)
          /\ Len(part) = IF taken + 1 <= taken + n THEN (taken + n) - (taken + 1) + 1 ELSE 0
          /\ \A i \in 1 .. (taken + n) - (taken + 1) + 1 : part[i] = line[(taken + 1) + i - 1]
      BY <2>1, <2>2, SubSeqProperties
    <2>4. taken + 1 <= taken + n /\ (taken + n) - (taken + 1) + 1 = n
      BY <1>3, <1>5
    <2>5. \A k \in 1 .. n : (taken + 1) + k - 1 = taken + k
      BY <1>5
    <2> QED BY <2>3, <2>4, <2>5
  <1>7. /\ chunk \in Seq(Bytes) /\ Len(chunk) = n + 1 /\ chunk[1] = b
        /\ \A k \in 1 .. n : chunk[1 + k] = line[taken + k]
    <2>1. <<b>> \in Seq(Bytes) /\ Len(<<b>>) = 1 /\ <<b>>[1] = b
      <3>1. b \in Bytes
        BY <1>4, ByteFacts
      <3> QED BY <3>1
    <2>2. /\ chunk \in Seq(Bytes) /\ Len(chunk) = 1 + n
          /\ \A i \in 1 .. 1 + n : chunk[i] = IF i <= 1 THEN <<b>>[i] ELSE part[i - 1]
      BY <2>1, <1>6, ConcatProperties
    <2> QED BY <2>1, <2>2, <1>3, <1>6
  <1> HIDE DEF chunk
  <1>8. /\ code' = code \o chunk /\ taken' = taken + n
        /\ line' = line /\ read' = read /\ plain' = plain /\ packing' = packing
    BY <1>1 DEF Encode
  <1>9. code \in Seq(Bytes) /\ c \in Nat
    BY <1>2 DEF PackBitsTypeOK
  <1>10. /\ code' \in Seq(Bytes) /\ d = c + n + 1 /\ code'[c + 1] = b
         /\ \A k \in 1 .. n : code'[c + 1 + k] = line[taken + k]
    <2>1. /\ code' \in Seq(Bytes) /\ d = c + (n + 1)
          /\ \A i \in 1 .. c + (n + 1) : code'[i] = IF i <= c THEN code[i] ELSE chunk[i - c]
      <3>1. /\ code' \in Seq(Bytes) /\ d = c + Len(chunk)
            /\ \A i \in 1 .. c + Len(chunk) : code'[i] = IF i <= c THEN code[i] ELSE chunk[i - c]
        BY <1>7, <1>8, <1>9, ConcatProperties
      <3> QED BY <1>7, <3>1
    <2>2. code'[c + 1] = chunk[1]
      BY <2>1, <1>3, <1>9
    <2>3. \A k \in 1 .. n : code'[c + 1 + k] = chunk[1 + k]
      <3> SUFFICES ASSUME NEW k \in 1 .. n PROVE code'[c + 1 + k] = chunk[1 + k]
        OBVIOUS
      <3>1. c + 1 + k \in 1 .. c + (n + 1) /\ ~ (c + 1 + k <= c) /\ (c + 1 + k) - c = 1 + k
        BY <1>3, <1>9
      <3> QED BY <2>1, <3>1
    <2>4. \A k \in 1 .. n : code'[c + 1 + k] = line[taken + k]
      BY <2>3, <1>7
    <2>5. d = c + n + 1
      BY <2>1, <1>3, <1>9
    <2> QED BY <2>1, <2>2, <2>4, <2>5, <1>7
  <1>11. PackBitsTypeOK'
    BY <1>2, <1>3, <1>5, <1>8, <1>10 DEF PackBitsTypeOK
  <1>12. Chunk(code', line', c, l, d, m)
    BY <1>3, <1>4, <1>5, <1>8, <1>9, <1>10 DEF Chunk
  <1>13. \E B \in SUBSET (Nat \X Nat) :
           Meets(B, code', line', taken') /\ <<read', Len(plain')>> \in B
    BY <1>1, <1>3, <1>7, <1>12, NewChunk
  <1>14. GrowthInv'
    <2>1. ~ RunFollows
      <3>1. ASSUME Left >= 2, At(1) = At(2) PROVE FALSE
        BY <1>1, <1>2, <3>1, RunFacts
      <3> QED BY <1>1, <3>1 DEF RunFollows
    <2>2. 3 * Len(code) <= 4 * taken
      BY <2>1 DEF PackInv, GrowthInv
    <2>3. n = Left \/ n = 128 \/ RunFollows'
      BY <1>3, <1>5, <1>8 DEF RunFollows, Left, At
    <2>4. Left' = Left - n
      BY <1>3, <1>5, <1>8 DEF Left
    <2> QED BY <1>3, <1>5, <1>8, <1>9, <1>10, <2>2, <2>3, <2>4 DEF GrowthInv, RunFollows
  <1> QED BY <1>1, <1>8, <1>11, <1>13, <1>14 DEF PackInv

\* The encoder is done: the code stays.
LEMMA EncodedStep ==
  ASSUME PackInv, Encoded
  PROVE  PackInv'
  <1>1. /\ packing = "encode" /\ Left = 0 /\ packing' = "decode"
        /\ UNCHANGED <<line, taken, code, read, plain>>
    BY DEF Encoded
  <1>2. taken = Len(line)
    BY <1>1 DEF PackInv, PackBitsTypeOK, Left
  <1>3. PackBitsTypeOK' /\ GrowthInv'
    BY <1>1 DEF PackInv, PackBitsTypeOK, GrowthInv, RunFollows, Left, At
  <1>4. \A B : Meets(B, code, line, taken) => Meets(B, code', line', taken')
    BY <1>1 DEF Meets, Chunk
  <1> QED BY <1>1, <1>2, <1>3, <1>4 DEF PackInv

\* What the decoder finds next is a chunk.
LEMMA NextChunk ==
  ASSUME PackInv, packing = "decode", Unread > 0
  PROVE  \E B \in SUBSET (Nat \X Nat) : \E q \in B :
           /\ Meets(B, code, line, taken) /\ q \in Nat \X Nat
           /\ q[1] <= Len(code) /\ q[2] <= Len(line)
           /\ Chunk(code, line, read, Len(plain), q[1], q[2])
  <1>1. PICK B \in SUBSET (Nat \X Nat) : Meets(B, code, line, taken) /\ <<read, Len(plain)>> \in B
    BY DEF PackInv
  <1>2. read # Len(code) /\ taken = Len(line)
    BY DEF PackInv, PackBitsTypeOK, Unread
  <1>3. PICK q \in B : /\ q[1] <= Len(code) /\ q[2] <= taken
                       /\ Chunk(code, line, read, Len(plain), q[1], q[2])
    BY <1>1, <1>2 DEF Meets
  <1> QED BY <1>1, <1>2, <1>3

\* What the decoder reads next is a chunk that stands for bytes of the line.
LEMMA DecodedChunk ==
  ASSUME PackInv, packing = "decode", packing' = "decode", UNCHANGED <<line, taken, code>>,
         NEW B \in SUBSET (Nat \X Nat), Meets(B, code, line, taken), NEW q \in B,
         q[1] <= Len(code), q[2] <= Len(line),
         NEW part \in Seq(Bytes), plain' = plain \o part,
         read' = q[1], Len(plain) + Len(part) = q[2],
         \A k \in 1 .. Len(part) : part[k] = line[Len(plain) + k]
  PROVE  PackInv'
  <1>1. q[1] \in Nat /\ q[2] \in Nat /\ q = <<q[1], q[2]>>
    OBVIOUS
  <1>2. plain \in Seq(Bytes) /\ Len(plain) \in Nat /\ Len(part) \in Nat
    BY DEF PackInv, PackBitsTypeOK
  <1>3. /\ plain' \in Seq(Bytes) /\ Len(plain') = q[2]
        /\ \A k \in 1 .. q[2] : plain'[k] = IF k <= Len(plain) THEN plain[k]
                                                       ELSE part[k - Len(plain)]
    BY <1>2, ConcatProperties
  <1>4. \A k \in 1 .. Len(plain') : plain'[k] = line'[k]
    <2> SUFFICES ASSUME NEW k \in 1 .. q[2] PROVE plain'[k] = line[k]
      BY <1>3
    <2>1. CASE k <= Len(plain)
      BY <1>1, <1>2, <1>3, <2>1 DEF PackInv
    <2>2. CASE ~ (k <= Len(plain))
      <3>1. k - Len(plain) \in 1 .. Len(part) /\ Len(plain) + (k - Len(plain)) = k
        BY <1>1, <1>2, <2>2
      <3> QED BY <1>3, <2>2, <3>1
    <2> QED BY <2>1, <2>2
  <1>5. PackBitsTypeOK'
    BY <1>1, <1>3 DEF PackInv, PackBitsTypeOK
  <1>6. GrowthInv'
    BY DEF PackInv, GrowthInv, RunFollows, Left, At
  <1>7. Meets(B, code', line', taken') /\ <<read', Len(plain')>> \in B
    <2>1. code' = code /\ line' = line /\ taken' = taken
      OBVIOUS
    <2>2. <<read', Len(plain')>> = q
      BY <1>1, <1>3
    <2> QED BY <2>1, <2>2
  <1> QED BY <1>3, <1>4, <1>5, <1>6, <1>7 DEF PackInv

\* Literal bytes come back as they were.
LEMMA DecodeLiteralStep ==
  ASSUME PackInv, DecodeLiteral
  PROVE  PackInv'
  <1> DEFINE part == SubSeq(code, read + 2, read + Count + 2)
             b == code[read + 1]
  <1>1. /\ packing = "decode" /\ Unread > 0 /\ Count >= 0 /\ Unread >= Count + 2
        /\ plain' = plain \o part /\ read' = read + Count + 2
        /\ UNCHANGED <<packing, line, taken, code>>
    BY DEF DecodeLiteral
  <1>2. PICK B \in SUBSET (Nat \X Nat), q \in Nat \X Nat :
          /\ Meets(B, code, line, taken) /\ q \in B
          /\ q[1] <= Len(code) /\ q[2] <= Len(line)
          /\ Chunk(code, line, read, Len(plain), q[1], q[2])
    BY <1>1, NextChunk
  <1>3. /\ code \in Seq(Bytes) /\ Len(code) \in Nat /\ read \in Nat
        /\ Len(plain) \in Nat
    BY DEF PackInv, PackBitsTypeOK
  <1>4. /\ b \in Nat /\ b <= 127 /\ q[1] = read + b + 2 /\ q[2] = Len(plain) + b + 1
        /\ \A k \in 1 .. b + 1 : code[read + 1 + k] = line[Len(plain) + k]
    <2>1. /\ b \in Nat /\ b <= 127 /\ q[1] = read + b + 2 /\ q[2] = Len(plain) + b + 1
      BY <1>1, <1>2 DEF Chunk, Count, Signed
    <2>2. \A k \in 1 .. b + 1 : code[read + 1 + k] = line[Len(plain) + k]
      BY <1>2, <2>1 DEF Chunk
    <2> QED BY <2>1, <2>2
  <1>5. Count = b
    BY <1>4 DEF Count, Signed
  <1>6. /\ part \in Seq(Bytes) /\ Len(part) = b + 1
        /\ \A k \in 1 .. b + 1 : part[k] = code[read + 1 + k]
    <2>1. \A i \in read + 2 .. read + b + 2 : code[i] \in Bytes
      <3> SUFFICES ASSUME NEW i \in read + 2 .. read + b + 2 PROVE code[i] \in Bytes
        OBVIOUS
      <3>1. i \in 1 .. Len(code)
        BY <1>2, <1>3, <1>4
      <3> QED BY <1>3, <3>1, ElementOfSeq
    <2>2. read + 2 \in Int /\ read + b + 2 \in Int
      BY <1>3, <1>4
    <2>3. /\ part \in Seq(Bytes)
          /\ Len(part) = IF read + 2 <= read + b + 2 THEN (read + b + 2) - (read + 2) + 1 ELSE 0
          /\ \A i \in 1 .. (read + b + 2) - (read + 2) + 1 : part[i] = code[(read + 2) + i - 1]
      BY <1>5, <2>1, <2>2, SubSeqProperties
    <2>4. read + 2 <= read + b + 2 /\ (read + b + 2) - (read + 2) + 1 = b + 1
      BY <1>3, <1>4
    <2>5. \A k \in 1 .. b + 1 : (read + 2) + k - 1 = read + 1 + k
      BY <1>3
    <2> QED BY <2>3, <2>4, <2>5
  <1> HIDE DEF part, b
  <1>7. read' = q[1] /\ Len(plain) + Len(part) = q[2]
    BY <1>1, <1>3, <1>4, <1>5, <1>6
  <1>8. \A k \in 1 .. Len(part) : part[k] = line[Len(plain) + k]
    BY <1>4, <1>6
  <1> QED BY <1>1, <1>2, <1>6, <1>7, <1>8, DecodedChunk

\* A run comes back as it was.
LEMMA DecodeRunStep ==
  ASSUME PackInv, DecodeRun
  PROVE  PackInv'
  <1> DEFINE b == code[read + 1]
             part == [k \in 1 .. 1 - Count |-> code[read + 2]]
  <1>1. /\ packing = "decode" /\ Unread > 0 /\ Count < 0
        /\ plain' = plain \o part /\ read' = read + 2
        /\ UNCHANGED <<packing, line, taken, code>>
    BY DEF DecodeRun
  <1>2. PICK B \in SUBSET (Nat \X Nat), q \in Nat \X Nat :
          /\ Meets(B, code, line, taken) /\ q \in B
          /\ q[1] <= Len(code) /\ q[2] <= Len(line)
          /\ Chunk(code, line, read, Len(plain), q[1], q[2])
    BY <1>1, NextChunk
  <1>3. /\ code \in Seq(Bytes) /\ Len(code) \in Nat /\ read \in Nat
        /\ Len(plain) \in Nat
    BY DEF PackInv, PackBitsTypeOK
  <1>4. /\ b \in Nat /\ b >= 129 /\ b <= 255 /\ q[1] = read + 2 /\ q[2] = Len(plain) + 257 - b
        /\ \A k \in 1 .. 257 - b : line[Len(plain) + k] = code[read + 2]
    BY <1>1, <1>2 DEF Chunk, Count, Signed
  <1>5. 1 - Count = 257 - b
    BY <1>4 DEF Count, Signed
  <1>6. code[read + 2] \in Bytes
    <2>1. read + 2 \in 1 .. Len(code)
      BY <1>2, <1>3, <1>4
    <2> QED BY <1>3, <2>1, ElementOfSeq
  <1>7. /\ part \in Seq(Bytes) /\ Len(part) = 257 - b
        /\ \A k \in 1 .. 257 - b : part[k] = code[read + 2]
    <2> DEFINE x == code[read + 2]
    <2>1. 257 - b \in Nat /\ x \in Bytes /\ part = [k \in 1 .. 257 - b |-> x]
      BY <1>4, <1>5, <1>6
    <2> HIDE DEF x, b, part
    <2> DEFINE size == 257 - b
    <2>2. size \in Nat /\ part = [k \in 1 .. size |-> x]
      BY <2>1
    <2> HIDE DEF size
    <2>3. part \in Seq(Bytes) /\ Len(part) = size /\ \A k \in 1 .. size : part[k] = x
      BY <2>1, <2>2
    <2> QED BY <2>3 DEF size, x
  <1> HIDE DEF part, b
  <1>8. read' = q[1] /\ Len(plain) + Len(part) = q[2]
    BY <1>1, <1>3, <1>4, <1>7
  <1>9. \A k \in 1 .. Len(part) : part[k] = line[Len(plain) + k]
    <2> SUFFICES ASSUME NEW k \in 1 .. 257 - b PROVE part[k] = line[Len(plain) + k]
      BY <1>7
    <2> QED BY <1>4, <1>7
  <1> QED BY <1>1, <1>2, <1>7, <1>8, <1>9, DecodedChunk

\* The decoder is done: the line stays.
LEMMA DecodedStep ==
  ASSUME PackInv, Decoded
  PROVE  PackInv'
  <1>1. /\ packing = "decode" /\ Unread = 0 /\ packing' = "done"
        /\ UNCHANGED <<line, taken, code, read, plain>>
    BY DEF Decoded
  <1>2. read = Len(code)
    BY <1>1 DEF PackInv, PackBitsTypeOK, Unread
  <1>3. PackBitsTypeOK' /\ GrowthInv'
    BY <1>1 DEF PackInv, PackBitsTypeOK, GrowthInv, RunFollows, Left, At
  <1>4. \A B : Meets(B, code, line, taken) => Meets(B, code', line', taken')
    BY <1>1 DEF Meets, Chunk
  <1> QED BY <1>1, <1>2, <1>3, <1>4 DEF PackInv

\* The decoder never misses the bytes of a chunk.
LEMMA NeverTruncated ==
  ASSUME PackInv
  PROVE  ~ Truncated
  <1> SUFFICES ASSUME Truncated PROVE FALSE
    OBVIOUS
  <1>1. packing = "decode" /\ Unread > 0 /\ Unread < IF Count >= 0 THEN Count + 2 ELSE 2
    BY DEF Truncated
  <1>2. PICK q \in Nat \X Nat :
          q[1] <= Len(code) /\ Chunk(code, line, read, Len(plain), q[1], q[2])
    BY <1>1, NextChunk
  <1>3. Len(code) \in Nat /\ read \in Nat /\ Unread = Len(code) - read
    BY DEF PackInv, PackBitsTypeOK, Unread
  <1> DEFINE b == code[read + 1]
  <1>4. b \in Nat /\ (b <= 127 => q[1] = read + b + 2) /\ (b > 127 => b >= 129 /\ q[1] = read + 2)
    BY <1>2 DEF Chunk
  <1>5. Count = IF b >= 128 THEN b - 256 ELSE b
    BY DEF Count, Signed
  <1>6. b <= 255
    BY <1>2 DEF Chunk
  <1> HIDE DEF b
  <1>7. CASE b <= 127
    BY <1>1, <1>2, <1>3, <1>4, <1>5, <1>7
  <1>8. CASE b > 127
    BY <1>1, <1>2, <1>3, <1>4, <1>5, <1>6, <1>8
  <1> QED BY <1>4, <1>7, <1>8

\* The invariant gives the property.
LEMMA PackInvImpliesLineComesBack == PackInv => LineComesBack
  <1> SUFFICES ASSUME PackInv PROVE LineComesBack
    OBVIOUS
  <1>1. /\ PackBitsTypeOK /\ packing # "truncated" /\ Len(plain) <= Len(line)
        /\ \A k \in 1 .. Len(plain) : plain[k] = line[k]
    BY DEF PackInv
  <1>2. /\ line \in Seq(Bytes) /\ plain \in Seq(Bytes)
        /\ Len(line) \in Nat /\ Len(plain) \in Nat /\ Len(code) \in Nat /\ taken \in Nat
    BY <1>1 DEF PackBitsTypeOK
  <1>3. GrowsByAThird
    BY <1>2 DEF PackInv, GrowthInv, GrowsByAThird
  <1>4. plain = SubSeq(line, 1, Len(plain))
    <2> DEFINE part == SubSeq(line, 1, Len(plain))
    <2>1. \A i \in 1 .. Len(plain) : line[i] \in Bytes
      BY <1>1, <1>2, ElementOfSeq
    <2>2. 1 \in Int /\ Len(plain) \in Int
      BY <1>2
    <2>3. /\ part \in Seq(Bytes)
          /\ Len(part) = IF 1 <= Len(plain) THEN Len(plain) - 1 + 1 ELSE 0
          /\ \A i \in 1 .. Len(plain) - 1 + 1 : part[i] = line[1 + i - 1]
      BY <2>1, <2>2, SubSeqProperties
    <2>4. Len(part) = Len(plain)
      BY <1>2, <2>3
    <2>5. \A i \in 1 .. Len(plain) : plain[i] = part[i]
      BY <1>1, <1>2, <2>3
    <2> QED BY <1>2, <2>3, <2>4, <2>5, SeqEqual
  <1>5. ASSUME packing = "done" PROVE plain = line
    <2>1. PICK B \in SUBSET (Nat \X Nat) :
            Meets(B, code, line, taken) /\ <<read, Len(plain)>> \in B
      BY DEF PackInv
    <2>2. read = Len(code) /\ taken = Len(line) /\ read \in Nat
      BY <1>2, <1>5 DEF PackInv
    <2>3. <<read, Len(plain)>> = <<Len(code), taken>>
      <3> SUFFICES ASSUME <<read, Len(plain)>> # <<Len(code), taken>> PROVE FALSE
        OBVIOUS
      <3>1. PICK q \in B : q[1] <= Len(code) /\ Chunk(code, line, read, Len(plain), q[1], q[2])
        BY <2>1 DEF Meets
      <3>2. q[1] > read
        BY <2>2, <3>1 DEF Chunk
      <3> QED BY <1>2, <2>2, <3>1, <3>2
    <2>4. Len(plain) = Len(line)
      BY <2>2, <2>3
    <2> QED BY <1>1, <1>2, <2>4, SeqEqual
  <1> QED BY <1>1, <1>3, <1>4, <1>5 DEF LineComesBack

\* Every step of the codec keeps the invariant.
LEMMA PackBitsKeepsInv ==
  ASSUME PackInv, PackBitsNext
  PROVE  PackInv'
  <1>1. ASSUME NEW l \in Lines, StartLine(l) PROVE PackInv'
    BY <1>1, StartLineStep
  <1>2. CASE EncodeRun
    BY <1>2, EncodeRunStep
  <1>3. CASE EncodeLiteral
    BY <1>3, EncodeLiteralStep
  <1>4. CASE Encoded
    BY <1>4, EncodedStep
  <1>5. CASE DecodeLiteral
    BY <1>5, DecodeLiteralStep
  <1>6. CASE DecodeRun
    BY <1>6, DecodeRunStep
  <1>7. CASE Decoded
    BY <1>7, DecodedStep
  <1>8. CASE Truncated
    BY <1>8, NeverTruncated
  <1> QED BY <1>1, <1>2, <1>3, <1>4, <1>5, <1>6, <1>7, <1>8 DEF PackBitsNext

\* So does a step of another codec.
LEMMA PackBitsStutters ==
  ASSUME PackInv, UNCHANGED packVars
  PROVE  PackInv'
  <1>1. UNCHANGED <<packing, line, taken, code, read, plain>>
    BY DEF packVars
  <1>2. PackBitsTypeOK' /\ GrowthInv'
    BY <1>1 DEF PackInv, PackBitsTypeOK, GrowthInv, RunFollows, Left, At
  <1>3. \A B : Meets(B, code, line, taken) => Meets(B, code', line', taken')
    BY <1>1 DEF Meets, Chunk
  <1> QED BY <1>1, <1>2, <1>3 DEF PackInv

-----------------------------------------------------------------------------
(* PWG Raster: the rows stored so far, and the one that is being filled.   *)

\* A shade, without the list of its values.
LEMMA ShadeFacts ==
  \A b : b \in Shades <=> b \in Int /\ 0 <= b /\ b <= 255
  <1>1. ASSUME NEW m \in Int, NEW n \in Int
        PROVE  \A b : b \in m .. n <=> b \in Int /\ m <= b /\ b <= n
    OBVIOUS
  <1> QED BY <1>1 DEF Shades

\* The pixel byte of an encoded line is a shade.
LEMMA LineShade ==
  ASSUME NEW l \in Nat
  PROVE  l % 256 \in Shades /\ l % 256 \in Nat
  BY ShadeFacts

\* A pixel of three equal bytes has their shade as its gray.
LEMMA GrayOfGray ==
  ASSUME NEW s \in Shades
  PROVE  Gray(s, s, s) = s
  <1>1. s \in Int /\ 0 <= s /\ s <= 255
    BY ShadeFacts
  <1>2. 77 * s + 150 * s + 29 * s + 128 = 256 * s + 128
    BY <1>1
  <1>3. (256 * s + 128) % 65536 = 256 * s + 128
    BY <1>1
  <1>4. (256 * s + 128) \div 256 = s
    BY <1>1
  <1>5. s % 256 = s
    BY <1>1
  <1> QED BY <1>2, <1>3, <1>4, <1>5 DEF Gray

\* The sizes of a page are numbers.
LEMMA SizeFacts ==
  ASSUME NEW h \in Headers
  PROVE  h.width \in Nat /\ h.height \in Nat
  <1>1. h.width \in Widths /\ h.height \in Heights
    BY DEF Headers
  <1>2. Widths \subseteq Nat /\ Heights \subseteq Nat
    BY PWGAssumption
  <1> QED BY <1>1, <1>2

\* A row holds the bytes of its pixels.
LEMMA RowFacts ==
  ASSUME PWGTypeOK
  PROVE  /\ header.width \in Nat /\ header.height \in Nat
         /\ Channels \in {1, 3} /\ RowLength \in Nat
         /\ Channels = 1 => RowLength = header.width
         /\ Channels = 3 => RowLength = 3 * header.width
         /\ Takes(header) => RowLength > 0 /\ header.height > 0
  <1>1. header.width \in Nat /\ header.height \in Nat
    <2>1. CASE header = NoHeader
      BY <2>1 DEF NoHeader
    <2>2. CASE header \in Headers
      BY <2>2, SizeFacts
    <2> QED BY <2>1, <2>2 DEF PWGTypeOK
  <1>2. Channels \in {1, 3}
    BY DEF Channels
  <1>3. RowLength = header.width * Channels
    BY DEF RowLength
  <1>4. CASE Channels = 1
    BY <1>1, <1>3, <1>4 DEF Takes
  <1>5. CASE Channels = 3
    BY <1>1, <1>3, <1>5 DEF Takes
  <1> QED BY <1>1, <1>2, <1>4, <1>5

\* Every pixel of a row that is full is the gray of its line.
LEMMA PixelOfLine ==
  ASSUME PWGTypeOK, NEW bytes, NEW s \in Shades,
         \A b \in 0 .. RowLength - 1 : bytes[b] = s,
         NEW x \in 0 .. header.width - 1
  PROVE  Pixel(bytes, x) = s
  <1>1. CASE Channels = 1
    <2>1. x \in 0 .. RowLength - 1
      BY <1>1, RowFacts
    <2> QED BY <1>1, <2>1 DEF Pixel
  <1>2. CASE Channels = 3
    <2>1. /\ 3 * x \in 0 .. RowLength - 1 /\ 3 * x + 1 \in 0 .. RowLength - 1
          /\ 3 * x + 2 \in 0 .. RowLength - 1
      BY <1>2, RowFacts
    <2>2. Pixel(bytes, x) = Gray(s, s, s)
      BY <1>2, <2>1 DEF Pixel
    <2> QED BY <2>2, GrayOfGray
  <1> QED BY <1>1, <1>2, RowFacts

PWGInv ==
  /\ PWGTypeOK
  /\ lineNo <= rowIdx + repeat
  /\ decoding \in {"line", "chunk"} => Takes(header) /\ pwgPages < MaxPWGPages
  /\ decoding = "line" => repeat = 0
  /\ decoding = "chunk" =>
       /\ rowPos < RowLength /\ repeat > 0
       /\ \A b \in 0 .. rowPos - 1 : row[b] = lineNo % 256
  /\ decoding \in {"idle", "header", "done"} => repeat = 0 /\ rowIdx = header.height
  /\ decoding = "malformed" => broken
  /\ \E of \in [0 .. rowIdx - 1 -> 1 .. lineNo] : RowsOf(of)

\* No page has begun.
LEMMA PWGInitEstablishes == PWGInit => PWGInv
  <1> SUFFICES ASSUME PWGInit PROVE PWGInv
    OBVIOUS
  <1>1. /\ decoding = "idle" /\ header = NoHeader /\ row = [b \in {} |-> 0]
        /\ image = [r \in {} |-> row] /\ rowPos = 0 /\ rowIdx = 0 /\ repeat = 0 /\ lineNo = 0
        /\ pwgPages = 0 /\ broken = FALSE
    BY DEF PWGInit
  <1>2. header.width = 0 /\ header.height = 0 /\ RowLength = 0
    BY <1>1 DEF NoHeader, RowLength, Channels
  <1>3. 0 .. 0 - 1 = {}
    OBVIOUS
  <1>4. PWGTypeOK
    <2>1. row \in [0 .. RowLength - 1 -> Shades]
      BY <1>1, <1>2, <1>3
    <2>2. image \in [0 .. header.height - 1 -> [0 .. header.width - 1 -> Shades]]
      BY <1>1, <1>2, <1>3
    <2>3. /\ rowPos \in 0 .. RowLength /\ rowIdx \in 0 .. header.height
          /\ repeat \in 0 .. header.height - rowIdx /\ lineNo \in 0 .. header.height
      BY <1>1, <1>2
    <2>4. pwgPages \in 0 .. MaxPWGPages
      BY <1>1, PWGAssumption
    <2> QED BY <1>1, <2>1, <2>2, <2>3, <2>4 DEF PWGTypeOK
  <1>5. \E of \in [0 .. rowIdx - 1 -> 1 .. lineNo] : RowsOf(of)
    <2>1. [r \in {} |-> 1] \in [0 .. rowIdx - 1 -> 1 .. lineNo]
      BY <1>1, <1>3
    <2>2. RowsOf([r \in {} |-> 1])
      BY <1>1, <1>3 DEF RowsOf
    <2> QED BY <2>1, <2>2
  <1>6. lineNo <= rowIdx + repeat /\ repeat = 0 /\ rowIdx = header.height
    BY <1>1, <1>2
  <1> QED BY <1>1, <1>4, <1>5, <1>6 DEF PWGInv

\* Steps that only change where the decoder is.
LEMMA PageStays ==
  ASSUME PWGInv, UNCHANGED <<header, row, rowPos, rowIdx, repeat, lineNo, image, pwgPages>>,
         decoding' \in {"idle", "header", "line", "chunk", "done", "unsupported", "malformed"},
         broken' \in BOOLEAN,
         decoding' = "malformed" => broken',
         decoding' \in {"idle", "header", "done"} => decoding \in {"idle", "header", "done"},
         decoding' = "line" => decoding = "line",
         decoding' = "chunk" => decoding = "chunk"
  PROVE  PWGInv'
  <1>1. PWGTypeOK'
    BY DEF PWGInv, PWGTypeOK, RowLength, Channels
  <1>2. RowLength' = RowLength
    BY DEF RowLength, Channels
  <1>3. \A of : RowsOf(of) => RowsOf(of)'
    BY DEF RowsOf
  <1>4. rowIdx' = rowIdx /\ lineNo' = lineNo
    OBVIOUS
  <1>5. \E of \in [0 .. rowIdx' - 1 -> 1 .. lineNo'] : RowsOf(of)'
    BY <1>3, <1>4 DEF PWGInv
  <1>6. Takes(header)' <=> Takes(header)
    BY DEF Takes
  <1> QED BY <1>1, <1>2, <1>5, <1>6 DEF PWGInv

\* A page header begins an image without rows.
LEMMA PageHeaderStep ==
  ASSUME PWGInv, NEW h \in Headers, PageHeader(h)
  PROVE  PWGInv'
  <1>1. /\ Takes(h) /\ decoding' = "line" /\ header' = h
        /\ rowPos' = 0 /\ rowIdx' = 0 /\ repeat' = 0 /\ lineNo' = 0
        /\ row' = [b \in 0 .. (h.width * IF h.space = "rgb" THEN 3 ELSE 1) - 1 |-> 0]
        /\ image' = [r \in 0 .. h.height - 1 |-> [x \in 0 .. h.width - 1 |-> 0]]
        /\ pwgPages' = pwgPages /\ broken' = broken
    BY DEF PageHeader
  <1>0. pwgPages < MaxPWGPages
    BY DEF PageHeader
  <1>2. h.width \in Nat /\ h.height \in Nat
    BY SizeFacts
  <1>3. RowLength' = h.width * IF h.space = "rgb" THEN 3 ELSE 1
    BY <1>1 DEF RowLength, Channels
  <1>4. RowLength' \in Nat
    <2>1. CASE h.space = "rgb"
      BY <1>2, <1>3, <2>1
    <2>2. CASE h.space # "rgb"
      BY <1>2, <1>3, <2>2
    <2> QED BY <2>1, <2>2
  <1>5. 0 \in Shades
    BY ShadeFacts
  <1>6. row' \in [0 .. RowLength' - 1 -> Shades]
    BY <1>1, <1>3, <1>5
  <1>7. image' \in [0 .. h.height - 1 -> [0 .. h.width - 1 -> Shades]]
    BY <1>1, <1>5
  <1>8. pwgPages \in 0 .. MaxPWGPages /\ broken \in BOOLEAN
    BY DEF PWGInv, PWGTypeOK
  <1>9. PWGTypeOK'
    <2>1. /\ rowPos' \in 0 .. RowLength' /\ rowIdx' \in 0 .. h.height
          /\ repeat' \in 0 .. h.height - rowIdx' /\ lineNo' \in 0 .. h.height
      BY <1>1, <1>2, <1>4
    <2>2. header' \in Headers /\ Takes(header') /\ header' = h
      BY <1>1
    <2>3. decoding' \in {"idle", "header", "line", "chunk", "done", "unsupported", "malformed"}
      BY <1>1
    <2> QED BY <1>1, <1>6, <1>7, <1>8, <2>1, <2>2, <2>3 DEF PWGTypeOK
  <1>10. \E of \in [0 .. rowIdx' - 1 -> 1 .. lineNo'] : RowsOf(of)'
    <2>1. 0 .. rowIdx' - 1 = {}
      BY <1>1
    <2>2. [r \in {} |-> 1] \in [0 .. rowIdx' - 1 -> 1 .. lineNo']
      BY <2>1
    <2>3. RowsOf([r \in {} |-> 1])'
      BY <1>1, <2>1 DEF RowsOf
    <2> QED BY <2>2, <2>3
  <1>11. lineNo' <= rowIdx' + repeat'
    BY <1>1
  <1>12. decoding' = "line" /\ Takes(header') /\ pwgPages' < MaxPWGPages /\ repeat' = 0
    BY <1>0, <1>1
  <1> QED BY <1>9, <1>10, <1>11, <1>12 DEF PWGInv

\* A line begins: its bytes are still to come.
LEMMA LineRepeatStep ==
  ASSUME PWGInv, NEW c \in Counts, LineRepeat(c)
  PROVE  PWGInv'
  <1>1. decoding = "line"
    BY DEF LineRepeat
  <1>2. CASE Refuse("malformed") /\ broken' = TRUE
    BY <1>2, PageStays DEF Refuse
  <1>3. CASE /\ ~ (rowIdx + c + 1 > header.height)
             /\ decoding' = "chunk"
             /\ repeat' = c + 1 /\ rowPos' = 0 /\ lineNo' = lineNo + 1
             /\ UNCHANGED <<header, row, rowIdx, image, pwgPages, broken>>
    <2>1. /\ PWGTypeOK /\ Takes(header) /\ repeat = 0 /\ lineNo <= rowIdx + repeat
          /\ pwgPages < MaxPWGPages
      BY <1>1 DEF PWGInv
    <2>2. /\ rowIdx \in Nat /\ lineNo \in Nat /\ header.height \in Nat /\ RowLength \in Nat
          /\ RowLength > 0
      BY <2>1, RowFacts DEF PWGTypeOK
    <2>3. c \in Nat
      BY PWGAssumption, ShadeFacts
    <2>4. RowLength' = RowLength /\ (Takes(header)' <=> Takes(header))
      BY <1>3 DEF RowLength, Channels, Takes
    <2>5. PWGTypeOK'
      <3>1. /\ rowPos' \in 0 .. RowLength' /\ rowIdx' \in 0 .. header'.height
            /\ repeat' \in 0 .. header'.height - rowIdx' /\ lineNo' \in 0 .. header'.height
        BY <1>3, <2>1, <2>2, <2>3, <2>4 DEF PWGTypeOK
      <3> QED BY <1>3, <2>1, <2>4, <3>1 DEF PWGTypeOK
    <2>6. PICK of \in [0 .. rowIdx - 1 -> 1 .. lineNo] : RowsOf(of)
      BY DEF PWGInv
    <2>7. of \in [0 .. rowIdx' - 1 -> 1 .. lineNo']
      BY <1>3, <2>2
    <2>8. RowsOf(of)'
      <3>1. lineNo - (IF rowIdx = 0 THEN 0 ELSE of[rowIdx - 1]) = 0
        BY <2>1, <2>6 DEF RowsOf
      <3>2. (IF rowIdx = 0 THEN 0 ELSE of[rowIdx - 1]) \in Int
        BY <2>2
      <3>3. lineNo' - (IF rowIdx = 0 THEN 0 ELSE of[rowIdx - 1]) = 1 /\ repeat' > 0
        BY <1>3, <2>2, <2>3, <3>1, <3>2
      <3> QED BY <1>3, <2>6, <3>3 DEF RowsOf
    <2>9. lineNo' <= rowIdx' + repeat'
      BY <1>3, <2>1, <2>2, <2>3
    <2>10. rowPos' < RowLength' /\ repeat' > 0 /\ \A b \in 0 .. rowPos' - 1 : FALSE
      BY <1>3, <2>2, <2>3, <2>4
    <2>11. \E f \in [0 .. rowIdx' - 1 -> 1 .. lineNo'] : RowsOf(f)'
      BY <2>7, <2>8
    <2>12. decoding' = "chunk" /\ Takes(header') /\ pwgPages' < MaxPWGPages
      BY <1>3, <2>1
    <2> QED BY <2>5, <2>9, <2>10, <2>11, <2>12 DEF PWGInv
  <1> QED BY <1>2, <1>3 DEF LineRepeat

\* Bytes are filled in, and the row that becomes full is stored as often as
\* its line repeats.
LEMMA FillStep ==
  ASSUME PWGInv, decoding = "chunk", NEW n \in Nat, rowPos + n <= RowLength,
         Fill(n), broken' \in BOOLEAN
  PROVE  PWGInv'
  <1> DEFINE filled == [b \in DOMAIN row |->
                          IF b \in rowPos .. rowPos + n - 1 THEN lineNo % 256 ELSE row[b]]
             full == rowPos + n >= RowLength
             complete == full /\ rowIdx + repeat = header.height
  <1>1. /\ row' = filled /\ rowPos' = rowPos + n
        /\ decoding' = IF complete THEN "header" ELSE IF full THEN "line" ELSE "chunk"
        /\ pwgPages' = IF complete THEN pwgPages + 1 ELSE pwgPages
        /\ full => StoreRow(filled) /\ rowIdx' = rowIdx + repeat /\ repeat' = 0
        /\ ~ full => UNCHANGED <<image, rowIdx, repeat>>
        /\ header' = header /\ lineNo' = lineNo
    BY DEF Fill
  <1>2. /\ PWGTypeOK /\ Takes(header) /\ rowPos < RowLength /\ repeat > 0
        /\ \A b \in 0 .. rowPos - 1 : row[b] = lineNo % 256
        /\ lineNo <= rowIdx + repeat /\ pwgPages < MaxPWGPages
    BY DEF PWGInv
  <1>3. /\ rowPos \in Nat /\ rowIdx \in Nat /\ repeat \in Nat /\ lineNo \in Nat
        /\ header.height \in Nat /\ header.width \in Nat /\ RowLength \in Nat
        /\ rowIdx + repeat <= header.height
        /\ row \in [0 .. RowLength - 1 -> Shades]
        /\ image \in [0 .. header.height - 1 -> [0 .. header.width - 1 -> Shades]]
        /\ pwgPages \in Nat /\ MaxPWGPages \in Nat
        /\ header \in Headers \/ header = NoHeader
        /\ lineNo \in 0 .. header.height
    <2>1. header.height \in Nat /\ header.width \in Nat /\ RowLength \in Nat
      BY <1>2, RowFacts
    <2> QED BY <1>2, <2>1, PWGAssumption DEF PWGTypeOK
  <1> DEFINE s == lineNo % 256
  <1>4. s \in Shades
    BY <1>3, LineShade
  <1> HIDE DEF s
  <1>5. /\ filled \in [0 .. RowLength - 1 -> Shades]
        /\ \A b \in 0 .. rowPos + n - 1 : filled[b] = s
    <2>1. filled = [b \in 0 .. RowLength - 1 |->
                      IF b \in rowPos .. rowPos + n - 1 THEN s ELSE row[b]]
      BY <1>3 DEF s
    <2>2. \A b \in 0 .. rowPos - 1 : row[b] = s
      BY <1>2 DEF s
    <2> HIDE DEF filled
    <2>3. filled \in [0 .. RowLength - 1 -> Shades]
      BY <1>3, <1>4, <2>1
    <2>4. ASSUME NEW b \in 0 .. rowPos + n - 1 PROVE filled[b] = s
      <3>1. b \in 0 .. RowLength - 1
        BY <1>3
      <3>2. CASE b \in rowPos .. rowPos + n - 1
        BY <2>1, <3>1, <3>2
      <3>3. CASE b \notin rowPos .. rowPos + n - 1
        <4>1. b \in 0 .. rowPos - 1
          BY <1>3, <3>3
        <4> QED BY <2>1, <2>2, <3>1, <3>3, <4>1
      <3> QED BY <3>2, <3>3
    <2> QED BY <2>3, <2>4
  <1> HIDE DEF filled
  <1>6. RowLength' = RowLength /\ (Takes(header)' <=> Takes(header))
    BY <1>1 DEF RowLength, Channels, Takes
  <1>7. PICK of \in [0 .. rowIdx - 1 -> 1 .. lineNo] : RowsOf(of)
    BY DEF PWGInv
  <1>8. CASE ~ full
    <2>1. PWGTypeOK'
      <3>1. rowPos' \in 0 .. RowLength'
        BY <1>1, <1>3, <1>6, <1>8
      <3>2. decoding' = "chunk" /\ pwgPages' = pwgPages /\ UNCHANGED <<image, rowIdx, repeat>>
        BY <1>1, <1>8
      <3> QED BY <1>1, <1>2, <1>5, <1>6, <3>1, <3>2 DEF PWGTypeOK
    <2>2. RowsOf(of)' /\ of \in [0 .. rowIdx' - 1 -> 1 .. lineNo']
      BY <1>1, <1>7, <1>8 DEF RowsOf
    <2>3. decoding' = "chunk" /\ rowPos' < RowLength' /\ repeat' > 0
      BY <1>1, <1>2, <1>3, <1>6, <1>8
    <2>4. \A b \in 0 .. rowPos' - 1 : row'[b] = lineNo' % 256
      <3>1. row' = filled /\ rowPos' = rowPos + n /\ lineNo' = lineNo
        BY <1>1
      <3>2. \A b \in 0 .. rowPos' - 1 : row'[b] = s
        <4> SUFFICES ASSUME NEW b \in 0 .. rowPos' - 1 PROVE row'[b] = s
          OBVIOUS
        <4>1. b \in 0 .. rowPos + n - 1
          BY <1>3, <3>1
        <4> QED BY <1>5, <3>1, <4>1
      <3> QED BY <3>1, <3>2 DEF s
    <2>5. lineNo' <= rowIdx' + repeat'
      BY <1>1, <1>2, <1>8
    <2>6. Takes(header') /\ pwgPages' < MaxPWGPages
      BY <1>1, <1>2, <1>8
    <2>7. \E f \in [0 .. rowIdx' - 1 -> 1 .. lineNo'] : RowsOf(f)'
      BY <2>2
    <2> QED BY <2>1, <2>3, <2>4, <2>5, <2>6, <2>7 DEF PWGInv
  <1>9. CASE full
    <2>1. \A b \in 0 .. RowLength - 1 : filled[b] = s
      BY <1>3, <1>5, <1>9
    <2>2. \A x \in 0 .. header.width - 1 : Pixel(filled, x) = s
      BY <1>2, <1>4, <2>1, PixelOfLine
    <2>3. /\ rowIdx' = rowIdx + repeat /\ repeat' = 0
          /\ image' = [r \in DOMAIN image |->
                         IF r \in rowIdx .. rowIdx + repeat - 1
                         THEN [x \in DOMAIN image[r] |-> Pixel(filled, x)] ELSE image[r]]
      BY <1>1, <1>9 DEF StoreRow
    <2>4. image' = [r \in 0 .. header.height - 1 |->
                      IF r \in rowIdx .. rowIdx + repeat - 1
                      THEN [x \in 0 .. header.width - 1 |-> s] ELSE image[r]]
      BY <1>3, <2>2, <2>3
    <2>5. image' \in [0 .. header.height - 1 -> [0 .. header.width - 1 -> Shades]]
      BY <1>3, <1>4, <2>4
    <2>6. pwgPages' \in 0 .. MaxPWGPages
      BY <1>1, <1>2, <1>3
    <2>7. PWGTypeOK'
      <3>1. /\ rowPos' \in 0 .. RowLength' /\ rowIdx' \in 0 .. header.height
            /\ repeat' \in 0 .. header.height - rowIdx' /\ lineNo' \in 0 .. header.height
        BY <1>1, <1>3, <1>6, <2>3
      <3>2. decoding' \in {"header", "line"} /\ header' = header /\ row' = filled
        BY <1>1, <1>9
      <3>3. (header' \in Headers /\ Takes(header')) \/ header' = NoHeader
        BY <1>2, <1>3, <3>2
      <3>4. row' \in [0 .. RowLength' - 1 -> Shades]
        BY <1>5, <1>6, <3>2
      <3> QED BY <2>5, <2>6, <3>1, <3>2, <3>3, <3>4 DEF PWGTypeOK
    <2>8. lineNo - (IF rowIdx = 0 THEN 0 ELSE of[rowIdx - 1]) = 1
      BY <1>2, <1>7 DEF RowsOf
    <2>9. lineNo \in 1 .. lineNo
      <3>1. rowIdx # 0 => of[rowIdx - 1] \in 1 .. lineNo
        BY <1>3
      <3> QED BY <1>3, <2>8, <3>1
    <2>10. PICK new \in [0 .. rowIdx' - 1 -> 1 .. lineNo'] :
             \A r \in 0 .. rowIdx + repeat - 1 : new[r] = IF r < rowIdx THEN of[r] ELSE lineNo
      <3> DEFINE f == [r \in 0 .. rowIdx + repeat - 1 |-> IF r < rowIdx THEN of[r] ELSE lineNo]
      <3>1. f \in [0 .. rowIdx' - 1 -> 1 .. lineNo']
        BY <1>1, <1>3, <2>3, <2>9
      <3>2. \A r \in 0 .. rowIdx + repeat - 1 : f[r] = IF r < rowIdx THEN of[r] ELSE lineNo
        OBVIOUS
      <3> HIDE DEF f
      <3> QED BY <3>1, <3>2
    <2>12. \A r \in 0 .. rowIdx' - 1 :
             new[r] - (IF r = 0 THEN 0 ELSE new[r - 1]) \in IF r = 0 THEN {1} ELSE {0, 1}
      <3> SUFFICES ASSUME NEW r \in 0 .. rowIdx' - 1
                   PROVE  new[r] - (IF r = 0 THEN 0 ELSE new[r - 1])
                            \in IF r = 0 THEN {1} ELSE {0, 1}
        OBVIOUS
      <3>0. r \in 0 .. rowIdx + repeat - 1
        BY <1>3, <2>3
      <3>1. r # 0 => r - 1 \in 0 .. rowIdx + repeat - 1
        BY <1>3, <3>0
      <3>2. CASE r < rowIdx
        <4>1. r \in 0 .. rowIdx - 1 /\ (r # 0 => r - 1 < rowIdx)
          BY <1>3, <3>2, <3>0
        <4>2. of[r] - (IF r = 0 THEN 0 ELSE of[r - 1]) \in IF r = 0 THEN {1} ELSE {0, 1}
          BY <1>7, <4>1 DEF RowsOf
        <4>3. new[r] = of[r] /\ (r # 0 => new[r - 1] = of[r - 1])
          BY <2>10, <3>1, <3>2, <4>1, <3>0
        <4> QED BY <4>2, <4>3
      <3>3. CASE r = rowIdx
        <4>1. new[r] = lineNo /\ (r # 0 => new[r - 1] = of[r - 1])
          BY <1>3, <2>10, <3>1, <3>3, <3>0
        <4> QED BY <2>8, <3>3, <4>1
      <3>4. CASE r > rowIdx
        <4>1. new[r] = lineNo /\ new[r - 1] = lineNo /\ r # 0
          BY <1>3, <2>10, <3>1, <3>4, <3>0
        <4> QED BY <1>3, <4>1
      <3> QED BY <1>3, <3>2, <3>3, <3>4, <3>0
    <2>13. lineNo' - (IF rowIdx' = 0 THEN 0 ELSE new[rowIdx' - 1]) = IF repeat' > 0 THEN 1 ELSE 0
      <3>1. new[rowIdx + repeat - 1] = lineNo /\ rowIdx + repeat # 0
        <4>1. rowIdx + repeat - 1 \in 0 .. rowIdx + repeat - 1 /\ ~ (rowIdx + repeat - 1 < rowIdx)
          BY <1>2, <1>3
        <4> QED BY <2>10, <4>1, <1>3
      <3> QED BY <1>1, <1>3, <2>3, <3>1
    <2>14. \A r \in 0 .. rowIdx' - 1 : \A x \in DOMAIN image'[r] : image'[r][x] = new[r] % 256
      <3> SUFFICES ASSUME NEW r \in 0 .. rowIdx' - 1, NEW x \in DOMAIN image'[r]
                   PROVE  image'[r][x] = new[r] % 256
        OBVIOUS
      <3>0. r \in 0 .. rowIdx + repeat - 1
        BY <1>3, <2>3
      <3>1. r \in 0 .. header.height - 1
        BY <1>3, <3>0
      <3>2. CASE r < rowIdx
        <4>1. image'[r] = image[r] /\ r \in 0 .. rowIdx - 1
          BY <1>3, <2>4, <3>1, <3>2, <3>0
        <4>2. image[r][x] = of[r] % 256
          BY <1>7, <4>1 DEF RowsOf
        <4>3. new[r] = of[r]
          BY <2>10, <3>2, <3>0
        <4> QED BY <4>1, <4>2, <4>3
      <3>3. CASE ~ (r < rowIdx)
        <4>1. r \in rowIdx .. rowIdx + repeat - 1
          BY <1>3, <3>3, <3>0
        <4>2. image'[r] = [y \in 0 .. header.width - 1 |-> s]
          BY <2>4, <3>1, <4>1
        <4>3. image'[r][x] = s
          BY <4>2
        <4>4. new[r] = lineNo
          BY <2>10, <3>3, <3>0
        <4> QED BY <4>3, <4>4 DEF s
      <3> QED BY <3>2, <3>3
    <2>15. RowsOf(new)'
      BY <2>12, <2>13, <2>14 DEF RowsOf
    <2>16. \E f \in [0 .. rowIdx' - 1 -> 1 .. lineNo'] : RowsOf(f)'
      BY <2>10, <2>15
    <2>17. /\ decoding' \in {"header", "line"} /\ repeat' = 0
           /\ decoding' = "header" => rowIdx' = header'.height
      BY <1>1, <1>9, <2>3
    <2>18. lineNo' <= rowIdx' + repeat'
      BY <1>1, <1>2, <1>3, <2>3
    <2>19. decoding' = "line" => Takes(header') /\ pwgPages' < MaxPWGPages
      BY <1>1, <1>2, <1>9
    <2> QED BY <2>7, <2>16, <2>17, <2>18, <2>19 DEF PWGInv
  <1> QED BY <1>8, <1>9

\* A chunk fills in bytes or breaks the stream off.
LEMMA ChunkStep ==
  ASSUME PWGInv, NEW c \in Counts, RepeatChunk(c) \/ LiteralChunk(c)
  PROVE  PWGInv'
  <1>1. decoding = "chunk"
    BY DEF RepeatChunk, LiteralChunk
  <1>2. /\ PWGTypeOK /\ rowPos < RowLength /\ rowPos \in Nat /\ RowLength \in Nat
        /\ Channels \in {1, 3} /\ broken \in BOOLEAN
    BY <1>1, RowFacts DEF PWGInv, PWGTypeOK
  <1>3. c \in Int /\ 0 <= c /\ c <= 255
    BY PWGAssumption, ShadeFacts
  <1>4. CASE RepeatChunk(c)
    <2> DEFINE n == (c + 1) * Channels
    <2>1. n \in Nat
      <3>1. CASE Channels = 1
        BY <1>3, <3>1
      <3>2. CASE Channels = 3
        BY <1>3, <3>2
      <3> QED BY <1>2, <3>1, <3>2
    <2>2. Fill(Clip(n)) /\ broken' = (broken \/ rowPos + n > RowLength)
      BY <1>4 DEF RepeatChunk
    <2> HIDE DEF n
    <2>3. Clip(n) \in Nat /\ rowPos + Clip(n) <= RowLength
      BY <1>2, <2>1 DEF Clip
    <2>4. broken' \in BOOLEAN
      BY <2>2
    <2> QED BY <1>1, <2>2, <2>3, <2>4, FillStep
  <1>5. CASE LiteralChunk(c)
    <2> DEFINE n == (257 - c) * Channels
    <2>1. n \in Nat
      <3>1. CASE Channels = 1
        BY <1>3, <3>1
      <3>2. CASE Channels = 3
        BY <1>3, <3>2
      <3> QED BY <1>2, <3>1, <3>2
    <2>2. /\ IF TooLong(n) THEN Refuse("malformed") ELSE Fill(n)
          /\ broken' = (broken \/ rowPos + n > RowLength)
      BY <1>5 DEF LiteralChunk
    <2> HIDE DEF n
    <2>3. broken' \in BOOLEAN
      BY <2>2
    <2>4. CASE TooLong(n)
      <3>1. Refuse("malformed") /\ broken' = TRUE
        BY <2>2, <2>4 DEF TooLong
      <3> QED BY <3>1, PageStays DEF Refuse
    <2>5. CASE ~ TooLong(n)
      <3>1. rowPos + n <= RowLength
        BY <1>2, <2>1, <2>5 DEF TooLong
      <3> QED BY <1>1, <2>1, <2>2, <2>3, <2>5, <3>1, FillStep
    <2> QED BY <2>4, <2>5
  <1> QED BY <1>4, <1>5

\* Every step of the decoder keeps the invariant.
LEMMA PWGKeepsInv ==
  ASSUME PWGInv, PWGNext
  PROVE  PWGInv'
  <1>0. broken \in BOOLEAN
    BY DEF PWGInv, PWGTypeOK
  <1>1. CASE Sync
    BY <1>0, <1>1, PageStays DEF Sync
  <1>2. CASE StreamEnds
    <2>1. decoding = "header"
      BY <1>2 DEF StreamEnds
    <2>2. CASE Refuse("done") /\ UNCHANGED broken
      BY <1>0, <2>1, <2>2, PageStays DEF Refuse
    <2>3. CASE Refuse("malformed") /\ broken' = TRUE
      BY <2>1, <2>3, PageStays DEF Refuse
    <2> QED BY <1>2, <2>2, <2>3 DEF StreamEnds
  <1>3. CASE PageTruncated
    BY <1>3, PageStays DEF PageTruncated, Refuse
  <1>4. ASSUME NEW h \in Headers, PageHeader(h) PROVE PWGInv'
    BY <1>4, PageHeaderStep
  <1>5. ASSUME NEW h \in Headers, BadHeader(h) PROVE PWGInv'
    BY <1>0, <1>5, PageStays DEF BadHeader, Refuse
  <1>6. ASSUME NEW c \in Counts, LineRepeat(c) PROVE PWGInv'
    BY <1>6, LineRepeatStep
  <1>7. ASSUME NEW c \in Counts, RepeatChunk(c) \/ LiteralChunk(c) PROVE PWGInv'
    BY <1>7, ChunkStep
  <1> QED BY <1>1, <1>2, <1>3, <1>4, <1>5, <1>6, <1>7 DEF PWGNext

\* So does a step of another codec.
LEMMA PWGStutters ==
  ASSUME PWGInv, UNCHANGED pwgVars
  PROVE  PWGInv'
  <1>1. UNCHANGED <<decoding, header, row, rowPos, rowIdx, repeat, lineNo, image,
                    pwgPages, broken>>
    BY DEF pwgVars
  <1>2. /\ broken \in BOOLEAN /\ (decoding = "malformed" => broken)
        /\ decoding \in {"idle", "header", "line", "chunk", "done", "unsupported", "malformed"}
    BY DEF PWGInv, PWGTypeOK
  <1> QED BY <1>1, <1>2, PageStays

\* The invariant gives the property.
LEMMA PWGInvImpliesDecoded == PWGInv => PagesAreDecoded
  BY DEF PWGInv, PagesAreDecoded, ValidIsDecoded, RowsAreLines

-----------------------------------------------------------------------------
(* Orientation: where every pixel of the sheet goes.                       *)

\* The sides of a sheet.
LEMMA SidesAreNatural == \A n \in Sides : n \in Nat /\ n > 0
  BY SidesAssumption

\* A row of pixels ends before a later row begins.
LEMMA NextRow ==
  ASSUME NEW w \in Nat, NEW r \in Nat, NEW q \in Nat, r < q
  PROVE  w * r + w <= w * q
  <1>1. w * (r + 1) = w * r + w
    BY SMT
  <1>2. q - (r + 1) \in Nat
    OBVIOUS
  <1>3. w * (q - (r + 1)) \in Nat
    BY <1>2, SMT
  <1>4. w * q = w * (r + 1) + w * (q - (r + 1))
    BY SMT
  <1>5. w * r \in Nat /\ w * q \in Nat
    BY SMT
  <1> QED BY <1>1, <1>3, <1>4, <1>5, SMT

\* Two pixels with one number are one pixel.
LEMMA PixelsApart ==
  ASSUME NEW w \in Nat, NEW r \in Nat, NEW q \in Nat, NEW c \in 0 .. w - 1, NEW d \in 0 .. w - 1,
         w * r + c = w * q + d
  PROVE  r = q /\ c = d
  <1>1. w * r \in Nat /\ w * q \in Nat
    BY SMT
  <1>2. ~ (r < q)
    <2>1. ASSUME r < q PROVE FALSE
      <3>1. w * r + w <= w * q
        BY <2>1, NextRow
      <3> QED BY <1>1, <3>1
    <2> QED BY <2>1
  <1>3. ~ (q < r)
    <2>1. ASSUME q < r PROVE FALSE
      <3>1. w * q + w <= w * r
        BY <2>1, NextRow
      <3> QED BY <1>1, <3>1
    <2> QED BY <2>1
  <1>4. r = q
    BY <1>2, <1>3
  <1> QED BY <1>1, <1>4

\* Every number below width * height is the number of a pixel.
LEMMA PixelSomewhere ==
  ASSUME NEW w \in Nat, NEW h \in Nat, w > 0, h > 0, NEW k \in 0 .. w * h - 1
  PROVE  \E x \in 0 .. w - 1, y \in 0 .. h - 1 : k = w * y + x
  <1> DEFINE S == {r \in Nat : k < w * r + w}
  <1>1. k \in Nat /\ k < w * h
    <2>1. w * h \in Nat
      BY SMT
    <2> QED BY <2>1
  <1>2. h - 1 \in S
    <2>1. h - 1 \in Nat /\ w * (h - 1) + w = w * h
      BY SMT
    <2> QED BY <1>1, <2>1
  <1>3. PICK y \in S : \A m \in S : y <= m
    BY <1>2, LeastNatural
  <1>4. y \in Nat /\ y <= h - 1 /\ w * y \in Nat /\ k < w * y + w
    <2>1. y \in Nat /\ y <= h - 1 /\ k < w * y + w
      BY <1>2, <1>3
    <2> QED BY <2>1, SMT
  <1>5. w * y <= k
    <2>1. CASE y = 0
      BY <1>1, <2>1, SMT
    <2>2. CASE y > 0
      <3>1. y - 1 \in Nat /\ y - 1 \notin S
        BY <1>3, <1>4, <2>2
      <3>2. ~ (k < w * (y - 1) + w)
        BY <3>1
      <3>3. w * (y - 1) + w = w * y
        BY <1>4, SMT
      <3> QED BY <1>1, <1>4, <3>2, <3>3
    <2> QED BY <1>4, <2>1, <2>2
  <1>6. k - w * y \in 0 .. w - 1 /\ k = w * y + (k - w * y) /\ y \in 0 .. h - 1
    BY <1>1, <1>4, <1>5
  <1> QED BY <1>6

\* An image of w times h pixels.
IsImage(img, w, h) == DOMAIN img = 0 .. h - 1 /\ DOMAIN img[0] = 0 .. w - 1

\* The width and height of an image.
LEMMA ImageSize ==
  ASSUME NEW img, NEW w \in Sides, NEW h \in Sides, IsImage(img, w, h)
  PROVE  Width(img) = w /\ Height(img) = h
  <1>1. \A m, n \in Sides : 0 .. m - 1 = 0 .. n - 1 => m = n
    <2> SUFFICES ASSUME NEW m \in Sides, NEW n \in Sides, 0 .. m - 1 = 0 .. n - 1 PROVE m = n
      OBVIOUS
    <2>1. m \in Nat /\ n \in Nat /\ m > 0 /\ n > 0
      BY SidesAreNatural
    <2>2. m - 1 \in 0 .. n - 1 /\ n - 1 \in 0 .. m - 1
      BY <2>1
    <2> QED BY <2>1, <2>2
  <1>2. Height(img) \in Sides /\ 0 .. Height(img) - 1 = 0 .. h - 1
    BY DEF IsImage, Height
  <1>3. Width(img) \in Sides /\ 0 .. Width(img) - 1 = 0 .. w - 1
    BY DEF IsImage, Width
  <1> QED BY <1>1, <1>2, <1>3

\* A pixel value that occurs once is found where it is.
LEMMA PlaceIs ==
  ASSUME NEW img, NEW w \in Sides, NEW h \in Sides, IsImage(img, w, h),
         NEW k, NEW x \in 0 .. w - 1, NEW y \in 0 .. h - 1, img[y][x] = k,
         \A u \in 0 .. w - 1, v \in 0 .. h - 1 : img[v][u] = k => u = x /\ v = y
  PROVE  Place(img, k) = <<x, y>>
  <1> DEFINE Q == (0 .. w - 1) \X (0 .. h - 1)
  <1>1. Place(img, k) = CHOOSE p \in Q : img[p[2]][p[1]] = k
    BY ImageSize DEF Place
  <1>2. <<x, y>> \in Q /\ img[<<x, y>>[2]][<<x, y>>[1]] = k
    OBVIOUS
  <1>3. Place(img, k) \in Q /\ img[Place(img, k)[2]][Place(img, k)[1]] = k
    BY <1>1, <1>2
  <1> DEFINE p == Place(img, k)
  <1>4. p \in Q /\ img[p[2]][p[1]] = k
    BY <1>3
  <1> HIDE DEF p
  <1>5. p = <<p[1], p[2]>> /\ p[1] \in 0 .. w - 1 /\ p[2] \in 0 .. h - 1
    BY <1>4
  <1>6. p[1] = x /\ p[2] = y
    BY <1>4, <1>5
  <1> QED BY <1>5, <1>6 DEF p

\* The sheet numbers its pixels.
LEMMA SheetPixels ==
  ASSUME NEW w \in Sides, NEW h \in Sides
  PROVE  /\ IsImage(Pixels(w, h), w, h)
         /\ \A y \in 0 .. h - 1, x \in 0 .. w - 1 : Pixels(w, h)[y][x] = w * y + x
  <1>1. w \in Nat /\ h \in Nat /\ w > 0 /\ h > 0 /\ 0 \in 0 .. h - 1
    BY SidesAreNatural
  <1>2. Pixels(w, h) = [r \in 0 .. h - 1 |-> [c \in 0 .. w - 1 |-> w * r + c]]
    BY DEF Pixels, Image
  <1> QED BY <1>1, <1>2 DEF IsImage

\* Where pixel <<x, y>> of a page of w times h pixels is after n quarter turns.
Moved(n, w, h, x, y) ==
  CASE n = 0 -> <<x, y>>
    [] n = 1 -> <<y, w - 1 - x>>
    [] n = 2 -> <<w - 1 - x, h - 1 - y>>
    [] n = 3 -> <<h - 1 - y, x>>

\* img holds the pixels of a page of w times h pixels after n quarter turns.
IsTurned(img, n, w, h) ==
  \A x \in 0 .. w - 1, y \in 0 .. h - 1 : Place(img, w * y + x) = Moved(n, w, h, x, y)

\* No turn, and one to the left, to the right and by half a circle.
LEMMA NotTurned ==
  ASSUME NEW w \in Sides, NEW h \in Sides
  PROVE  IsTurned(Pixels(w, h), 0, w, h)
  <1> SUFFICES ASSUME NEW x \in 0 .. w - 1, NEW y \in 0 .. h - 1
               PROVE  Place(Pixels(w, h), w * y + x) = <<x, y>>
    BY DEF IsTurned, Moved
  <1>1. w \in Nat /\ h \in Nat
    BY SidesAreNatural
  <1>2. IsImage(Pixels(w, h), w, h) /\ Pixels(w, h)[y][x] = w * y + x
    BY SheetPixels
  <1>3. ASSUME NEW u \in 0 .. w - 1, NEW v \in 0 .. h - 1, Pixels(w, h)[v][u] = w * y + x
        PROVE  u = x /\ v = y
    <2>1. w * v + u = w * y + x /\ v \in Nat /\ y \in Nat
      BY <1>1, <1>3, SheetPixels
    <2> QED BY <1>1, <2>1, PixelsApart
  <1> QED BY <1>2, <1>3, PlaceIs

\* rotateGray90CCW is one quarter to the left.
LEMMA TurnedLeft ==
  ASSUME NEW w \in Sides, NEW h \in Sides
  PROVE  LET img == rotateGray90CCW(Pixels(w, h))
         IN  IsImage(img, h, w) /\ IsTurned(img, 1, w, h)
  <1> DEFINE src == Pixels(w, h)
             img == rotateGray90CCW(src)
  <1>1. w \in Nat /\ h \in Nat /\ w > 0 /\ h > 0
    BY SidesAreNatural
  <1>2. Width(src) = w /\ Height(src) = h
    BY SheetPixels, ImageSize
  <1>3. img = [r \in 0 .. w - 1 |-> [c \in 0 .. h - 1 |-> src[c][w - 1 - r]]]
    BY <1>2 DEF rotateGray90CCW, Image
  <1>4. \A r \in 0 .. w - 1, c \in 0 .. h - 1 : img[r][c] = w * c + (w - 1 - r)
    <2> SUFFICES ASSUME NEW r \in 0 .. w - 1, NEW c \in 0 .. h - 1
                 PROVE  img[r][c] = w * c + (w - 1 - r)
      OBVIOUS
    <2>1. img[r][c] = src[c][w - 1 - r] /\ w - 1 - r \in 0 .. w - 1
      BY <1>1, <1>3
    <2> QED BY <2>1, SheetPixels
  <1>5. IsImage(img, h, w)
    BY <1>1, <1>3 DEF IsImage
  <1> HIDE DEF src, img
  <1>6. ASSUME NEW x \in 0 .. w - 1, NEW y \in 0 .. h - 1
        PROVE  Place(img, w * y + x) = <<y, w - 1 - x>>
    <2>1. w - 1 - x \in 0 .. w - 1 /\ w - 1 - (w - 1 - x) = x
      BY <1>1
    <2>2. img[w - 1 - x][y] = w * y + x
      BY <1>4, <2>1
    <2>3. ASSUME NEW u \in 0 .. h - 1, NEW v \in 0 .. w - 1, img[v][u] = w * y + x
          PROVE  u = y /\ v = w - 1 - x
      <3>1. /\ w * u + (w - 1 - v) = w * y + x /\ w - 1 - v \in 0 .. w - 1
            /\ u \in Nat /\ y \in Nat
        BY <1>1, <1>4, <2>3
      <3> DEFINE c == w - 1 - v
      <3>2. w * u + c = w * y + x /\ c \in 0 .. w - 1
        BY <3>1
      <3> HIDE DEF c
      <3>3. u = y /\ c = x
        BY <1>1, <3>1, <3>2, PixelsApart
      <3> QED BY <1>1, <3>3 DEF c
    <2> QED BY <1>5, <2>1, <2>2, <2>3, PlaceIs
  <1> QED BY <1>5, <1>6 DEF IsTurned, Moved, src, img

\* rotateGray90CW is three quarters to the left.
LEMMA TurnedRight ==
  ASSUME NEW w \in Sides, NEW h \in Sides
  PROVE  LET img == rotateGray90CW(Pixels(w, h))
         IN  IsImage(img, h, w) /\ IsTurned(img, 3, w, h)
  <1> DEFINE src == Pixels(w, h)
             img == rotateGray90CW(src)
  <1>1. w \in Nat /\ h \in Nat /\ w > 0 /\ h > 0
    BY SidesAreNatural
  <1>2. Width(src) = w /\ Height(src) = h
    BY SheetPixels, ImageSize
  <1>3. img = [r \in 0 .. w - 1 |-> [c \in 0 .. h - 1 |-> src[h - 1 - c][r]]]
    BY <1>2 DEF rotateGray90CW, Image
  <1>4. \A r \in 0 .. w - 1, c \in 0 .. h - 1 : img[r][c] = w * (h - 1 - c) + r
    <2> SUFFICES ASSUME NEW r \in 0 .. w - 1, NEW c \in 0 .. h - 1
                 PROVE  img[r][c] = w * (h - 1 - c) + r
      OBVIOUS
    <2>1. img[r][c] = src[h - 1 - c][r] /\ h - 1 - c \in 0 .. h - 1
      BY <1>1, <1>3
    <2> QED BY <2>1, SheetPixels
  <1>5. IsImage(img, h, w)
    BY <1>1, <1>3 DEF IsImage
  <1> HIDE DEF src, img
  <1>6. ASSUME NEW x \in 0 .. w - 1, NEW y \in 0 .. h - 1
        PROVE  Place(img, w * y + x) = <<h - 1 - y, x>>
    <2>1. h - 1 - y \in 0 .. h - 1 /\ h - 1 - (h - 1 - y) = y
      BY <1>1
    <2>2. img[x][h - 1 - y] = w * y + x
      BY <1>4, <2>1
    <2>3. ASSUME NEW u \in 0 .. h - 1, NEW v \in 0 .. w - 1, img[v][u] = w * y + x
          PROVE  u = h - 1 - y /\ v = x
      <3>1. w * (h - 1 - u) + v = w * y + x /\ h - 1 - u \in Nat
        BY <1>1, <1>4, <2>3
      <3>2. h - 1 - u = y /\ v = x
        BY <1>1, <3>1, PixelsApart
      <3> QED BY <1>1, <3>2
    <2> QED BY <1>5, <2>1, <2>2, <2>3, PlaceIs
  <1> QED BY <1>5, <1>6 DEF IsTurned, Moved, src, img

\* rotateGray180 is two quarters.
LEMMA TurnedRound ==
  ASSUME NEW w \in Sides, NEW h \in Sides
  PROVE  LET img == rotateGray180(Pixels(w, h))
         IN  IsImage(img, w, h) /\ IsTurned(img, 2, w, h)
  <1> DEFINE src == Pixels(w, h)
             img == rotateGray180(src)
  <1>1. w \in Nat /\ h \in Nat /\ w > 0 /\ h > 0
    BY SidesAreNatural
  <1>2. Width(src) = w /\ Height(src) = h
    BY SheetPixels, ImageSize
  <1>3. img = [r \in 0 .. h - 1 |-> [c \in 0 .. w - 1 |-> src[h - 1 - r][w - 1 - c]]]
    BY <1>2 DEF rotateGray180, Image
  <1>4. \A r \in 0 .. h - 1, c \in 0 .. w - 1 : img[r][c] = w * (h - 1 - r) + (w - 1 - c)
    <2> SUFFICES ASSUME NEW r \in 0 .. h - 1, NEW c \in 0 .. w - 1
                 PROVE  img[r][c] = w * (h - 1 - r) + (w - 1 - c)
      OBVIOUS
    <2>1. /\ img[r][c] = src[h - 1 - r][w - 1 - c]
          /\ h - 1 - r \in 0 .. h - 1 /\ w - 1 - c \in 0 .. w - 1
      BY <1>1, <1>3
    <2> QED BY <2>1, SheetPixels
  <1>5. IsImage(img, w, h)
    BY <1>1, <1>3 DEF IsImage
  <1> HIDE DEF src, img
  <1>6. ASSUME NEW x \in 0 .. w - 1, NEW y \in 0 .. h - 1
        PROVE  Place(img, w * y + x) = <<w - 1 - x, h - 1 - y>>
    <2>1. /\ h - 1 - y \in 0 .. h - 1 /\ h - 1 - (h - 1 - y) = y
          /\ w - 1 - x \in 0 .. w - 1 /\ w - 1 - (w - 1 - x) = x
      BY <1>1
    <2>2. img[h - 1 - y][w - 1 - x] = w * y + x
      BY <1>4, <2>1
    <2>3. ASSUME NEW u \in 0 .. w - 1, NEW v \in 0 .. h - 1, img[v][u] = w * y + x
          PROVE  u = w - 1 - x /\ v = h - 1 - y
      <3>1. /\ w * (h - 1 - v) + (w - 1 - u) = w * y + x
            /\ h - 1 - v \in Nat /\ w - 1 - u \in 0 .. w - 1
        BY <1>1, <1>4, <2>3
      <3>2. h - 1 - v = y /\ w - 1 - u = x
        BY <1>1, <3>1, PixelsApart
      <3> QED BY <1>1, <3>2
    <2> QED BY <1>5, <2>1, <2>2, <2>3, PlaceIs
  <1> QED BY <1>5, <1>6 DEF IsTurned, Moved, src, img

\* After n quarter turns every step between two pixels has been turned n times.
LEMMA StepsTurn ==
  ASSUME NEW w \in Sides, NEW h \in Sides, NEW n \in 0 .. 3, NEW img, IsTurned(img, n, w, h),
         NEW a \in 0 .. w * h - 1, NEW b \in 0 .. w * h - 1
  PROVE  Offset(img, a, b) = Quarters(n, Offset(Pixels(w, h), a, b))
  <1>1. w \in Nat /\ h \in Nat /\ w > 0 /\ h > 0
    BY SidesAreNatural
  <1>2. PICK x \in 0 .. w - 1, y \in 0 .. h - 1 : a = w * y + x
    BY <1>1, PixelSomewhere
  <1>3. PICK u \in 0 .. w - 1, v \in 0 .. h - 1 : b = w * v + u
    BY <1>1, PixelSomewhere
  <1>4. Place(Pixels(w, h), a) = <<x, y>> /\ Place(Pixels(w, h), b) = <<u, v>>
    <2>1. IsTurned(Pixels(w, h), 0, w, h)
      BY NotTurned
    <2>2. /\ Place(Pixels(w, h), w * y + x) = Moved(0, w, h, x, y)
          /\ Place(Pixels(w, h), w * v + u) = Moved(0, w, h, u, v)
      BY <2>1 DEF IsTurned
    <2> QED BY <1>2, <1>3, <2>2 DEF Moved
  <1>5. Offset(Pixels(w, h), a, b) = <<u - x, v - y>>
    BY <1>4 DEF Offset
  <1>6. Place(img, a) = Moved(n, w, h, x, y) /\ Place(img, b) = Moved(n, w, h, u, v)
    BY <1>2, <1>3 DEF IsTurned
  <1>7. /\ w \in Int /\ h \in Int /\ x \in Int /\ y \in Int /\ u \in Int /\ v \in Int
    BY <1>1
  <1>8. CASE n = 0
    BY <1>5, <1>6, <1>8 DEF Offset, Moved, Quarters
  <1>9. CASE n = 1
    <2>1. Offset(img, a, b) = <<v - y, (w - 1 - u) - (w - 1 - x)>>
      BY <1>6, <1>9 DEF Offset, Moved
    <2>2. Quarters(n, Offset(Pixels(w, h), a, b)) = <<v - y, - (u - x)>>
      BY <1>5, <1>9 DEF Quarters
    <2>3. (w - 1 - u) - (w - 1 - x) = - (u - x)
      BY <1>7
    <2> QED BY <2>1, <2>2, <2>3
  <1>10. CASE n = 2
    <2>1. Offset(img, a, b) = <<(w - 1 - u) - (w - 1 - x), (h - 1 - v) - (h - 1 - y)>>
      BY <1>6, <1>10 DEF Offset, Moved
    <2>2. Quarters(n, Offset(Pixels(w, h), a, b)) = <<- (u - x), - (v - y)>>
      BY <1>5, <1>10 DEF Quarters
    <2>3. /\ (w - 1 - u) - (w - 1 - x) = - (u - x)
          /\ (h - 1 - v) - (h - 1 - y) = - (v - y)
      BY <1>7
    <2> QED BY <2>1, <2>2, <2>3
  <1>11. CASE n = 3
    <2>1. Offset(img, a, b) = <<(h - 1 - v) - (h - 1 - y), u - x>>
      BY <1>6, <1>11 DEF Offset, Moved
    <2>2. Quarters(n, Offset(Pixels(w, h), a, b)) = <<- (v - y), u - x>>
      BY <1>5, <1>11 DEF Quarters
    <2>3. (h - 1 - v) - (h - 1 - y) = - (v - y)
      BY <1>7
    <2> QED BY <2>1, <2>2, <2>3
  <1> QED BY <1>8, <1>9, <1>10, <1>11

OrientationInv ==
  /\ turning \in {"idle", "page", "turned"} /\ request \in Requests
  /\ turning # "idle" => \E w, h \in Sides : sheet = Pixels(w, h)
  /\ turning = "turned" => result = applyOrientation(sheet, request)

\* No sheet has been turned.
LEMMA OrientationInitEstablishes == OrientationInit => OrientationInv
  BY DEF OrientationInit, OrientationInv, Requests, orientationPortrait,
         orientationReverseLandscape

\* Every turn gives what applyOrientation gives.
LEMMA OrientationKeepsInv ==
  ASSUME OrientationInv, OrientationNext
  PROVE  OrientationInv'
  <1>1. ASSUME NEW w \in Sides, NEW h \in Sides, NEW n \in Requests, RenderedPage(w, h, n)
        PROVE  OrientationInv'
    BY <1>1 DEF OrientationInv, RenderedPage
  <1>2. CASE OrientPage
    BY <1>2 DEF OrientationInv, OrientPage
  <1> QED BY <1>1, <1>2 DEF OrientationNext

\* A step of another codec turns nothing.
LEMMA OrientationStutters ==
  ASSUME OrientationInv, UNCHANGED orientationVars
  PROVE  OrientationInv'
  BY DEF OrientationInv, orientationVars

\* What applyOrientation gives is turned as asked.
LEMMA OrientationInvImpliesTurned == OrientationInv => TurnedAsAsked
  <1> SUFFICES ASSUME OrientationInv, turning = "turned" PROVE TurnedAsAsked
    BY DEF TurnedAsAsked
  <1>1. PICK w \in Sides, h \in Sides : sheet = Pixels(w, h)
    BY DEF OrientationInv
  <1>2. request \in 3 .. 6 /\ result = applyOrientation(sheet, request)
    BY DEF OrientationInv, Requests, orientationPortrait, orientationReverseLandscape
  <1>3. Width(sheet) = w /\ Height(sheet) = h /\ w \in Nat /\ h \in Nat
    BY <1>1, SheetPixels, ImageSize, SidesAreNatural
  <1>4. Landscape(sheet) <=> w > h
    BY <1>3 DEF Landscape
  <1>5. ASSUME NEW W \in Sides, NEW H \in Sides,
               IsImage(result, W, H), LiesAlready => result = sheet,
               LiesAlready \/ (Turns \in 0 .. 3 /\ IsTurned(result, Turns, w, h)),
               request \in {4, 6} => W >= H, request = 3 => H >= W
        PROVE  TurnedAsAsked
    <2>1. Width(result) = W /\ Height(result) = H
      BY <1>5, ImageSize
    <2>2. ~ LiesAlready =>
            \A a, b \in 0 .. Width(sheet) * Height(sheet) - 1 :
              Offset(result, a, b) = Quarters(Turns, Offset(sheet, a, b))
      BY <1>1, <1>3, <1>5, StepsTurn
    <2> QED BY <1>5, <2>1, <2>2 DEF TurnedAsAsked, orientationPortrait, orientationLandscape,
                                    orientationReverseLandscape
  <1>6. CASE result = sheet /\ (request = 3 => ~ (w > h)) /\ (request \in {4, 6} => w > h)
             /\ request # 5
    <2>1. LiesAlready \/ Turns = 0
      BY <1>2, <1>3, <1>4, <1>6 DEF LiesAlready, Turns, orientationPortrait,
         orientationLandscape, orientationReversePortrait, orientationReverseLandscape
    <2>2. (request \in {4, 6} => w >= h) /\ (request = 3 => h >= w)
      BY <1>3, <1>6
    <2>3. IsImage(result, w, h) /\ IsTurned(result, 0, w, h)
      BY <1>1, <1>6, NotTurned, SheetPixels
    <2> QED BY <1>5, <1>6, <2>1, <2>2, <2>3
  <1>7. CASE /\ result = rotateGray90CCW(sheet)
             /\ (request = 3 /\ w > h) \/ (request = 4 /\ ~ (w > h))
    <2>1. ~ LiesAlready /\ Turns = 1
      BY <1>2, <1>3, <1>4, <1>7 DEF LiesAlready, Turns, orientationPortrait,
         orientationLandscape, orientationReversePortrait, orientationReverseLandscape
    <2>2. IsImage(result, h, w) /\ IsTurned(result, 1, w, h)
      BY <1>1, <1>7, TurnedLeft
    <2>3. (request \in {4, 6} => h >= w) /\ (request = 3 => w >= h)
      BY <1>3, <1>7
    <2> QED BY <1>5, <2>1, <2>2, <2>3
  <1>8. CASE result = rotateGray180(sheet) /\ request = 5
    <2>1. ~ LiesAlready /\ Turns = 2
      BY <1>2, <1>3, <1>4, <1>8 DEF LiesAlready, Turns, orientationPortrait,
         orientationLandscape, orientationReversePortrait, orientationReverseLandscape
    <2>2. IsImage(result, w, h) /\ IsTurned(result, 2, w, h)
      BY <1>1, <1>8, TurnedRound
    <2> QED BY <1>5, <1>8, <2>1, <2>2
  <1>9. CASE result = rotateGray90CW(sheet) /\ request = 6 /\ ~ (w > h)
    <2>1. ~ LiesAlready /\ Turns = 3
      BY <1>2, <1>3, <1>4, <1>9 DEF LiesAlready, Turns, orientationPortrait,
         orientationLandscape, orientationReversePortrait, orientationReverseLandscape
    <2>2. IsImage(result, h, w) /\ IsTurned(result, 3, w, h)
      BY <1>1, <1>9, TurnedRight
    <2>3. h >= w
      BY <1>3, <1>9
    <2> QED BY <1>5, <1>9, <2>1, <2>2, <2>3
  <1>10. \/ result = sheet /\ (request = 3 => ~ (w > h)) /\ (request \in {4, 6} => w > h)
            /\ request # 5
         \/ /\ result = rotateGray90CCW(sheet)
            /\ (request = 3 /\ w > h) \/ (request = 4 /\ ~ (w > h))
         \/ result = rotateGray180(sheet) /\ request = 5
         \/ result = rotateGray90CW(sheet) /\ request = 6 /\ ~ (w > h)
    BY <1>2, <1>4 DEF applyOrientation, orientationPortrait, orientationLandscape,
                      orientationReversePortrait, orientationReverseLandscape
  <1> QED BY <1>3, <1>6, <1>7, <1>8, <1>9, <1>10

-----------------------------------------------------------------------------
(* The theorems.  A step of the format's own codec keeps its invariant, and *)
(* a step of any other leaves its variables alone.                          *)

\* PackBits: every raster line, whatever its bytes and its length, is decoded
\* to itself, and no control byte is misread (compressPackBits, DecodeRow).
THEOREM LineComesBackThm == Spec => []LineComesBack
  <1>1. Init => PackInv
    BY PackInitEstablishes DEF Init
  <1>2. PackInv /\ [Next]_vars => PackInv'
    <2> SUFFICES ASSUME PackInv, [Next]_vars PROVE PackInv'
      OBVIOUS
    <2>1. PackBitsNext \/ UNCHANGED packVars
      BY DEF Next, vars
    <2> QED BY <2>1, PackBitsKeepsInv, PackBitsStutters
  <1>3. PackInv => LineComesBack
    BY PackInvImpliesLineComesBack
  <1> QED BY <1>1, <1>2, <1>3, PTL DEF Spec

\* PWG Raster: a page of any size and any line repeats is either decoded to
\* exactly its rows, or it was malformed (DecodePWG).
THEOREM PagesAreDecodedThm == Spec => []PagesAreDecoded
  <1>1. Init => PWGInv
    BY PWGInitEstablishes DEF Init
  <1>2. PWGInv /\ [Next]_vars => PWGInv'
    <2> SUFFICES ASSUME PWGInv, [Next]_vars PROVE PWGInv'
      OBVIOUS
    <2>1. PWGNext \/ UNCHANGED pwgVars
      BY DEF Next, vars
    <2> QED BY <2>1, PWGKeepsInv, PWGStutters
  <1>3. PWGInv => PagesAreDecoded
    BY PWGInvImpliesDecoded
  <1> QED BY <1>1, <1>2, <1>3, PTL DEF Spec

\* The command stream: whatever streams were sent before, and wherever they
\* broke off, every page comes out as its job asked, with the feed its label
\* is documented to need, and every setting is stored (BuildJobsStream,
\* BuildSettingsStream, jobOptions).
THEOREM PrinterObeysThm == Spec => []PrinterObeys
  <1>1. Init => StreamInv
    BY StreamInitEstablishes DEF Init
  <1>2. StreamInv /\ [Next]_vars => StreamInv'
    <2> SUFFICES ASSUME StreamInv, [Next]_vars PROVE StreamInv'
      OBVIOUS
    <2>1. StreamNext \/ UNCHANGED streamVars
      BY DEF Next, vars
    <2> QED BY <2>1, StreamKeepsInv, StreamStutters
  <1>3. StreamInv => PrinterObeys
    BY StreamInvImpliesObeyed
  <1> QED BY <1>1, <1>2, <1>3, PTL DEF Spec

\* Orientation: a sheet of any size is turned by exactly the quarters its
\* request stands for, every pixel at its place; but reverse landscape leaves
\* a sheet that lies down already as it is (applyOrientation).
THEOREM TurnedAsAskedThm == Spec => []TurnedAsAsked
  <1>1. Init => OrientationInv
    BY OrientationInitEstablishes DEF Init
  <1>2. OrientationInv /\ [Next]_vars => OrientationInv'
    <2> SUFFICES ASSUME OrientationInv, [Next]_vars PROVE OrientationInv'
      OBVIOUS
    <2>1. OrientationNext \/ UNCHANGED orientationVars
      BY DEF Next, vars
    <2> QED BY <2>1, OrientationKeepsInv, OrientationStutters
  <1>3. OrientationInv => TurnedAsAsked
    BY OrientationInvImpliesTurned
  <1> QED BY <1>1, <1>2, <1>3, PTL DEF Spec
=============================================================================
