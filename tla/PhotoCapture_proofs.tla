------------------------- MODULE PhotoCapture_proofs ------------------------
(***************************************************************************)
(* Lemmas about PhotoCapture for any number of cameras and any sizes: what *)
(* the frame being put together, the picture being sent, the messages in   *)
(* DS's pipe and the open file have to do with one another, so that a file *)
(* DS completes, however it comes to an end, holds whole the picture of    *)
(* every capture that nothing happened to.  Housekeeping_proofs states the *)
(* theorem of the composed system.                                         *)
(***************************************************************************)
EXTENDS PhotoCapture, FiniteSetTheorems, SequenceTheorems, TLAPS

Datum == [shot : Nat, camera : Cameras \cup {"NONE"}, block : Nat, k : Nat]

PhotoMessage == [kind : {"CHUNK"}, data : Seq(Datum)] \cup [kind : {"CLOSE"}]

PhotoTypes ==
  /\ streaming \subseteq Cameras
  /\ doing \in {"NONE", "RECEIVE", "SEND", "CLOSE"}
  /\ next \in [Cameras -> 0 .. LastPacket]
  /\ gvsp \in [frame : Seq(Datum), have : BOOLEAN, block : Nat]
  /\ picture \in Seq(Datum) /\ offset \in Nat
  /\ dsPipe \in Seq(PhotoMessage)
  /\ dsFile \in Seq(Datum) /\ completed \subseteq Seq(Datum)
  /\ shot \in Nat /\ spoilt \subseteq Nat /\ unclosed \subseteq Nat

\* The packets of a frame are this block's, in the order they were sent, and those
\* still to come, from upTo on, are later ones.
InOrder(frame, s, c, block, upTo) ==
  \A i \in 1 .. Len(frame) : \E k \in 1 .. FrameSize :
    /\ frame[i] = [shot |-> s, camera |-> c, block |-> block, k |-> k]
    /\ i <= k /\ k + (Len(frame) - i) <= FrameSize
    /\ block * PerBlock + k + (Len(frame) - i) < upTo

\* The frame is this camera's, the only one that sends.
FromOne(c) ==
  /\ \A d \in Cameras \ {c} : next[d] = LastPacket
  /\ InOrder(gvsp.frame, shot, c, gvsp.block, next[c])

FrameSound ==
  /\ Len(gvsp.frame) <= FrameSize
  /\ \A i \in 1 .. Len(gvsp.frame) : gvsp.frame[i].shot = shot
  /\ doing = "RECEIVE" /\ shot \notin spoilt =>
       \/ gvsp.frame = <<>> /\ \A c \in Cameras : next[c] = LastPacket
       \/ \E c \in Cameras : FromOne(c)

PictureOf(s, c, b) == [i \in 1 .. FrameSize + 1 |-> Pixel(s, c, b, i - 1)]

IsPicture(p, s) == \E c \in Cameras, b \in 0 .. Blocks - 1 : p = PictureOf(s, c, b)

PictureSound ==
  doing \in {"SEND", "CLOSE"} =>
    /\ picture # <<>> /\ \A i \in 1 .. Len(picture) : picture[i].shot = shot
    /\ doing = "SEND" => offset < Len(picture)
    /\ shot \in spoilt \/ IsPicture(picture, shot)

\* P has the pictures of the captures so far: none where nothing was captured.
Pictures(P) ==
  P \in [Nat -> Seq(Datum)] /\ \A s \in Nat : P[s] = <<>> \/ IsPicture(P[s], s)

Photographed(P) ==
  /\ \A s \in Nat : s > shot => P[s] = <<>>
  /\ doing = "RECEIVE" => P[shot] = <<>>
  /\ doing \in {"SEND", "CLOSE"} /\ shot \notin spoilt => P[shot] = picture

\* d is a piece of p, behind its first n packets.
PieceOf(p, d, n) == \A j \in 1 .. Len(d) : n + j \in 1 .. Len(p) /\ d[j] = p[n + j]

\* A chunk is a piece of one picture; sp are the captures that may be spoilt.
ChunkSound(P, sp, d) ==
  /\ d # <<>> /\ \A j \in 1 .. Len(d) : d[j].shot = d[1].shot
  /\ d[1].shot \notin sp => PieceOf(P[d[1].shot], d, d[1].k)

\* The file has the first n packets of the picture in one piece, and nothing else
\* of the capture.
HoldsPart(P, f, s, n) ==
  \E at \in 0 .. Len(f) - n : \A i \in 1 .. Len(f) :
    IF i - at \in 1 .. n THEN f[i] = P[s][i - at] ELSE f[i].shot # s

\* Of the capture its last packet is of, the file has what came so far; of the
\* others, whose close commands were lost, all.
Held(P, sp, un, f, s, x) ==
  /\ s <= x.shot
  /\ s = x.shot \/ s \in un
  /\ s \in sp \/ IF s = x.shot THEN x.k < Len(P[s]) /\ HoldsPart(P, f, s, x.k + 1)
                              ELSE P[s] # <<>> /\ HoldsPart(P, f, s, FrameSize + 1)

FileSound(P, sp, un, f) == \A i \in 1 .. Len(f) : Held(P, sp, un, f, f[i].shot, f[Len(f)])

\* What a chunk may begin with when f has come before it.
Joins(sp, un, f, y) ==
  IF f = <<>> THEN y.shot \in sp \/ y.k = 0
  ELSE LET x == f[Len(f)]
       IN \/ x.shot = y.shot /\ (x.shot \in sp \/ y.k = x.k + 1)
          \/ /\ x.shot < y.shot /\ x.shot \in un
             /\ x.shot \in sp \/ x.k = FrameSize
             /\ y.shot \in sp \/ y.k = 0

\* Nothing is missing when f ends.
Ends(sp, f) == f = <<>> \/ f[Len(f)].shot \in sp \/ f[Len(f)].k = FrameSize

\* What a message leaves for the next one to go on from, and what is there before
\* the i-th.
Leaves(msg) == IF msg.kind = "CHUNK" THEN msg.data ELSE <<>>

Before(pipe, file, i) == IF i = 1 THEN file ELSE Leaves(pipe[i - 1])

MessageFits(P, sp, un, f, msg) ==
  /\ msg.kind = "CHUNK" => ChunkSound(P, sp, msg.data) /\ Joins(sp, un, f, msg.data[1])
  /\ msg.kind = "CLOSE" => Ends(sp, f)

PipeSound(P, sp, un, file, pipe) ==
  \A i \in 1 .. Len(pipe) : MessageFits(P, sp, un, Before(pipe, file, i), pipe[i])

\* PAYLOADMC, doing d with o of capture s sent, goes on from f.
Awaits(sp, un, f, d, s, o) ==
  /\ f # <<>> =>
       LET x == f[Len(f)]
       IN /\ x.shot < s \/ (x.shot = s /\ d # "RECEIVE")
          /\ x.shot \in un \/ (x.shot = s /\ d \in {"SEND", "CLOSE"})
          /\ x.shot \in sp \/ IF d = "SEND" /\ x.shot = s THEN o = x.k + 1 ELSE x.k = FrameSize
  /\ d = "SEND" /\ s \notin sp /\ (f = <<>> \/ f[Len(f)].shot # s) => o = 0

Flows(P, sp, un, file, pipe, d, s, o) ==
  /\ FileSound(P, sp, un, file)
  /\ PipeSound(P, sp, un, file, pipe)
  /\ Awaits(sp, un, Before(pipe, file, Len(pipe) + 1), d, s, o)

Flow == \E P : /\ Pictures(P) /\ Photographed(P)
               /\ Flows(P, spoilt, unclosed, dsFile, dsPipe, doing, shot, offset)

\* A completed file, as PhotoWhole has it.
FileWhole(f, sp, un) ==
  \A i \in DOMAIN f : /\ f[i].shot \in sp \/ HoldsPicture(f, f[i].shot)
                      /\ f[i].shot \in un \/ f[Len(f)].shot = f[i].shot

PhotoInv == PhotoTypes /\ FrameSound /\ PictureSound /\ Flow /\ PhotoWhole

-----------------------------------------------------------------------------
(***************************************************************************)
(* The camera's packets and the frame.                                     *)
(***************************************************************************)
LEMMA Sizes ==
  /\ FrameSize \in Nat \ {0} /\ Blocks \in Nat \ {0} /\ ChunkSize \in Nat \ {0}
  /\ PerBlock = FrameSize + 2 /\ PerBlock \in Nat \ {0} /\ LastPacket \in Nat
BY PhotoAssumption DEF PerBlock, LastPacket

LEMMA Product ==
  ASSUME NEW a \in Nat, NEW b \in Nat, NEW c \in Nat, a <= b
  PROVE  a * c <= b * c
OBVIOUS

LEMMA PacketIs ==
  ASSUME NEW i \in 0 .. LastPacket - 1
  PROVE  /\ i \div PerBlock \in 0 .. Blocks - 1
         /\ i % PerBlock \in 0 .. FrameSize + 1
         /\ i = (i \div PerBlock) * PerBlock + (i % PerBlock)
<1> DEFINE q == i \div PerBlock
           r == i % PerBlock
<1>1. q \in Nat /\ r \in 0 .. PerBlock - 1 /\ i = q * PerBlock + r
  BY Sizes
<1>2. q < Blocks
  <2>1. Blocks <= q => Blocks * PerBlock <= q * PerBlock
    BY <1>1, Sizes, Product
  <2>2. q * PerBlock \in Nat /\ Blocks * PerBlock \in Nat
    BY <1>1, Sizes
  <2>3. i < Blocks * PerBlock
    BY Sizes DEF LastPacket
  <2> QED
    BY <1>1, <2>1, <2>2, <2>3, Sizes
<1> HIDE DEF q, r
<1>3. q \in 0 .. Blocks - 1 /\ r \in 0 .. FrameSize + 1
  BY <1>1, <1>2, Sizes
<1> QED
  BY <1>1, <1>3, Zenon DEF q, r

\* A full frame of one camera is a picture: its packets are in their places.
LEMMA FrameIsPicture ==
  ASSUME PhotoTypes, NEW c \in Cameras, FromOne(c), gvsp.block < Blocks,
         Len(gvsp.frame) = FrameSize
  PROVE  IsPicture(<<PgmHeader>> \o gvsp.frame, shot)
<1> DEFINE f == gvsp.frame
           b == gvsp.block
           p == <<PgmHeader>> \o f
<1>1. f \in Seq(Datum) /\ b \in 0 .. Blocks - 1 /\ shot \in Nat
  BY Sizes DEF PhotoTypes
<1>2. ASSUME NEW i \in 1 .. FrameSize
      PROVE  f[i] = [shot |-> shot, camera |-> c, block |-> b, k |-> i]
  <2>1. PICK k \in 1 .. FrameSize :
          f[i] = [shot |-> shot, camera |-> c, block |-> b, k |-> k] /\ i <= k
          /\ k + (FrameSize - i) <= FrameSize
    BY <1>2 DEF FromOne, InOrder
  <2>2. k = i
    BY <1>2, <2>1, Sizes
  <2> QED
    BY <1>2, <2>1, <2>2
<1>3. PgmHeader \in Datum
  BY <1>1 DEF PgmHeader, Datum
<1>4. /\ p \in Seq(Datum) /\ Len(p) = FrameSize + 1 /\ p[1] = PgmHeader
      /\ \A i \in 2 .. FrameSize + 1 : p[i] = f[i - 1]
  BY <1>1, <1>3, Sizes
<1> HIDE DEF p
<1>5. ASSUME NEW i \in 1 .. FrameSize + 1 PROVE p[i] = Pixel(shot, c, b, i - 1)
  <2>1. CASE i = 1
    BY <1>4, <2>1 DEF Pixel, PgmHeader
  <2>2. CASE i # 1
    <3>1. i \in 2 .. FrameSize + 1 /\ i - 1 \in 1 .. FrameSize /\ i - 1 # 0
      BY <1>5, <2>2, Sizes
    <3> QED
      BY <1>2, <1>4, <3>1 DEF Pixel
  <2> QED
    BY <2>1, <2>2
<1>6. p = [i \in 1 .. FrameSize + 1 |-> p[i]]
  BY <1>4, Sizes
<1>7. p = PictureOf(shot, c, b)
  BY <1>5, <1>6 DEF PictureOf
<1> QED
  BY <1>1, <1>7 DEF IsPicture, p

\* What is in a picture.
LEMMA PictureIs ==
  ASSUME NEW s \in Nat, NEW p, IsPicture(p, s)
  PROVE  /\ Len(p) = FrameSize + 1 /\ p # <<>>
         /\ \A i \in 1 .. FrameSize + 1 : p[i].shot = s /\ p[i].k = i - 1
<1>1. PICK c \in Cameras, b \in 0 .. Blocks - 1 : p = PictureOf(s, c, b)
  BY DEF IsPicture
<1>2. \A i \in 1 .. FrameSize + 1 : p[i] = Pixel(s, c, b, i - 1)
  BY <1>1 DEF PictureOf
<1>3. Len(p) = FrameSize + 1 /\ p # <<>>
  BY <1>1, Sizes DEF PictureOf
<1>4. ASSUME NEW i \in 1 .. FrameSize + 1 PROVE p[i].shot = s /\ p[i].k = i - 1
  <2>1. PICK k \in 0 .. FrameSize : k = i - 1
    BY <1>4, Sizes
  <2>2. Pixel(s, c, b, k).shot = s /\ Pixel(s, c, b, k).k = k
    BY <2>1, Sizes DEF Pixel
  <2> QED
    BY <1>2, <1>4, <2>1, <2>2
<1> QED
  BY <1>3, <1>4

LEMMA NoFrameIs ==
  /\ NoFrame \in [frame : Seq(Datum), have : BOOLEAN, block : Nat]
  /\ NoFrame.frame = <<>> /\ NoFrame.block = 0
BY DEF NoFrame

\* What the frame is after a packet: begun anew, grown by one, or as before.
LEMMA ReceivedIs ==
  ASSUME PhotoTypes, Len(gvsp.frame) <= FrameSize, NEW c \in Cameras, NEW i \in 0 .. LastPacket - 1
  PROVE  LET p == Packet(c, i)
             g == Received(p)
         IN /\ g \in [frame : Seq(Datum), have : BOOLEAN, block : Nat]
            /\ \/ g.frame = <<>>
               \/ g.frame = gvsp.frame /\ g.block = gvsp.block
               \/ /\ Len(gvsp.frame) < FrameSize /\ g.frame = Append(gvsp.frame, p.data)
                  /\ g.block = gvsp.block /\ p.block = g.block
                  /\ i % PerBlock \in 1 .. FrameSize
<1> DEFINE p == Packet(c, i)
           g == Received(p)
<1>1. i \div PerBlock \in Nat /\ i % PerBlock \in 0 .. FrameSize + 1
  <2>1. 0 .. Blocks - 1 \subseteq Nat
    BY Sizes
  <2> QED
    BY <2>1, PacketIs
<1>2. /\ p.data \in Datum /\ p.block \in Nat
      /\ p.format \in {"LEADER", "PAYLOAD", "TRAILER"}
      /\ p.format = "PAYLOAD" => i % PerBlock \in 1 .. FrameSize
  BY <1>1, Sizes DEF Packet, Datum, PhotoTypes
<1>3. /\ gvsp = [frame |-> gvsp.frame, have |-> gvsp.have, block |-> gvsp.block]
      /\ gvsp.frame \in Seq(Datum) /\ gvsp.have \in BOOLEAN /\ gvsp.block \in Nat
  BY DEF PhotoTypes
<1> HIDE DEF p
<1>4. CASE p.format = "LEADER"
  <2>1. g = [frame |-> <<>>, have |-> TRUE, block |-> p.block]
    BY <1>4 DEF Received
  <2>2. g \in [frame : Seq(Datum), have : BOOLEAN, block : Nat] /\ g.frame = <<>>
    BY <1>2, <2>1
  <2> QED
    BY <2>2 DEF p, g
<1>5. CASE p.format = "PAYLOAD" /\ OfThisFrame(p) /\ Len(gvsp.frame) < FrameSize
  <2>1. g = [gvsp EXCEPT !.frame = Append(gvsp.frame, p.data)]
    BY <1>5 DEF Received
  <2>2. Append(gvsp.frame, p.data) \in Seq(Datum)
    BY <1>2, <1>3
  <2>3. g = [frame |-> Append(gvsp.frame, p.data), have |-> gvsp.have, block |-> gvsp.block]
    BY <1>3, <2>1
  <2> HIDE DEF g
  <2> QED
    BY <1>2, <1>3, <1>5, <2>2, <2>3 DEF OfThisFrame, p, g
<1>6. CASE p.format = "TRAILER" /\ OfThisFrame(p)
  <2>1. g = [gvsp EXCEPT !.have = Len(gvsp.frame) >= FrameSize]
    BY <1>6 DEF Received
  <2>2. (Len(gvsp.frame) >= FrameSize) \in BOOLEAN
    OBVIOUS
  <2>3. g.frame = gvsp.frame /\ g.block = gvsp.block
    BY <1>3, <2>1
  <2>4. g \in [frame : Seq(Datum), have : BOOLEAN, block : Nat]
    BY <1>3, <2>1, <2>2
  <2> QED
    BY <2>3, <2>4 DEF p, g
<1>7. CASE \/ p.format = "PAYLOAD" /\ ~ (OfThisFrame(p) /\ Len(gvsp.frame) < FrameSize)
           \/ p.format = "TRAILER" /\ ~ OfThisFrame(p)
  <2>1. g = gvsp
    BY <1>7 DEF Received
  <2> QED
    BY <1>3, <2>1 DEF p, g
<1> QED
  BY <1>2, <1>4, <1>5, <1>6, <1>7

-----------------------------------------------------------------------------
(***************************************************************************)
(* Steps.                                                                  *)
(***************************************************************************)
\* A packet of the camera whose frame it is leaves the frame in order.
LEMMA StaysInOrder ==
  ASSUME PhotoTypes, NEW c \in Cameras, next[c] < LastPacket, NEW f \in Seq(Datum), NEW b \in Nat,
         InOrder(f, shot, c, b, next[c]), NEW g,
         \/ g = <<>> \/ g = f
         \/ /\ Len(f) < FrameSize /\ g = Append(f, Packet(c, next[c]).data)
            /\ Packet(c, next[c]).block = b /\ next[c] % PerBlock \in 1 .. FrameSize
  PROVE  InOrder(g, shot, c, b, next[c] + 1)
<1> DEFINE m == Len(f)
           n == next[c]
           base == b * PerBlock
           j == n % PerBlock
           Is(d, k) == d = [shot |-> shot, camera |-> c, block |-> b, k |-> k]
<1>1. n \in 0 .. LastPacket - 1 /\ m \in Nat /\ base \in Nat
  <2>1. next[c] \in 0 .. LastPacket
    BY DEF PhotoTypes
  <2>2. n \in 0 .. LastPacket - 1
    BY <2>1, Sizes
  <2>3. m \in Nat
    OBVIOUS
  <2>4. base \in Nat
    BY Sizes
  <2> QED
    BY <2>2, <2>3, <2>4
<1>2. ASSUME NEW i \in 1 .. m
      PROVE  \E k \in 1 .. FrameSize :
               Is(f[i], k) /\ i <= k /\ k + (m - i) <= FrameSize /\ base + k + (m - i) < n
  BY <1>2 DEF InOrder
<1> SUFFICES ASSUME NEW i \in 1 .. Len(g)
             PROVE  \E k \in 1 .. FrameSize :
                      /\ Is(g[i], k) /\ i <= k /\ k + (Len(g) - i) <= FrameSize
                      /\ base + k + (Len(g) - i) < n + 1
  BY DEF InOrder
<1>3. CASE g = <<>>
  BY <1>3
<1>4. CASE g = f
  <2>1. PICK k \in 1 .. FrameSize :
          Is(f[i], k) /\ i <= k /\ k + (m - i) <= FrameSize /\ base + k + (m - i) < n
    BY <1>2, <1>4
  <2> HIDE DEF n, base, Is
  <2>2. base + k + (m - i) < n + 1
    BY <1>1, <1>4, <2>1
  <2> QED
    BY <1>4, <2>1, <2>2
<1>5. CASE /\ m < FrameSize /\ g = Append(f, Packet(c, n).data)
           /\ Packet(c, n).block = b /\ j \in 1 .. FrameSize
  <2>1. Is(Packet(c, n).data, j) /\ n \div PerBlock = b
    BY <1>5 DEF Packet
  <2>2. n = base + j
    BY <1>1, <2>1, PacketIs
  <2>3. Len(g) = m + 1 /\ (\A h \in 1 .. m : g[h] = f[h]) /\ Is(g[m + 1], j)
    BY <1>5, <2>1
  <2> HIDE DEF m, n, base, j, Is
  <2>4. ASSUME NEW h \in 1 .. m
        PROVE  \E k \in 1 .. FrameSize : Is(g[h], k) /\ h <= k /\ k + (m - h) < j
    <3>1. PICK k \in 1 .. FrameSize : Is(f[h], k) /\ h <= k /\ base + k + (m - h) < n
      BY <1>2, <2>4
    <3>2. k + (m - h) < j
      BY <1>1, <1>5, <2>2, <2>4, <3>1, Sizes
    <3> QED
      BY <2>3, <3>1, <3>2
  <2>5. m + 1 <= j
    <3>1. CASE m = 0
      BY <1>5, <3>1
    <3>2. CASE m # 0
      <4>1. m \in 1 .. m
        BY <1>1, <3>2
      <4>2. PICK k \in 1 .. FrameSize : m <= k /\ k + (m - m) < j
        BY <2>4, <4>1
      <4> QED
        BY <1>1, <1>5, <4>2, Sizes
    <3> QED
      BY <3>1, <3>2
  <2>6. CASE i \in 1 .. m
    <3>1. PICK k \in 1 .. FrameSize : Is(g[i], k) /\ i <= k /\ k + (m - i) < j
      BY <2>4, <2>6
    <3>2. k + (m + 1 - i) <= FrameSize /\ base + k + (m + 1 - i) < n + 1
      BY <1>1, <1>5, <2>2, <2>6, <3>1, Sizes
    <3> QED
      BY <1>1, <2>3, <3>1, <3>2, Sizes
  <2>7. CASE i = m + 1
    <3>1. j + (m + 1 - i) <= FrameSize /\ base + j + (m + 1 - i) < n + 1
      BY <1>1, <1>5, <2>2, <2>7, Sizes
    <3> QED
      BY <1>1, <1>5, <2>3, <2>5, <2>7, <3>1, Sizes
  <2>8. i \in 1 .. m \/ i = m + 1
    BY <1>1, <2>3
  <2> QED
    BY <2>6, <2>7, <2>8
<1> QED
  BY <1>3, <1>4, <1>5

LEMMA FromOneKept ==
  ASSUME PhotoTypes, NEW c \in Cameras, FromOne(c), NEW d \in Cameras, next[d] < LastPacket,
         next' = [next EXCEPT ![d] = @ + 1], shot' = shot,
         gvsp' = gvsp \/ (Len(gvsp.frame) <= FrameSize /\ gvsp' = Received(Packet(d, next[d])))
  PROVE  FromOne(c)'
<1>1. d = c
  <2>1. \A e \in Cameras \ {c} : next[e] = LastPacket
    BY DEF FromOne
  <2> QED
    BY <2>1, Sizes
<1>2. /\ next[c] \in 0 .. LastPacket - 1 /\ next'[c] = next[c] + 1
      /\ \A e \in Cameras \ {c} : next'[e] = LastPacket
  BY <1>1, Sizes DEF PhotoTypes, FromOne
<1>3. InOrder(gvsp.frame, shot, c, gvsp.block, next[c])
  BY DEF FromOne
<1>4. gvsp.frame \in Seq(Datum) /\ gvsp.block \in Nat
  BY DEF PhotoTypes
<1>5. \/ gvsp'.frame = <<>>
      \/ gvsp'.frame = gvsp.frame /\ gvsp'.block = gvsp.block
      \/ /\ Len(gvsp.frame) < FrameSize
         /\ gvsp'.frame = Append(gvsp.frame, Packet(c, next[c]).data)
         /\ gvsp'.block = gvsp.block /\ Packet(c, next[c]).block = gvsp'.block
         /\ next[c] % PerBlock \in 1 .. FrameSize
  BY <1>1, <1>2, ReceivedIs
<1>6. CASE gvsp'.frame = <<>>
  <2>1. InOrder(gvsp'.frame, shot, c, gvsp'.block, next[c] + 1)
    BY <1>6 DEF InOrder
  <2> QED
    BY <1>2, <2>1 DEF FromOne, InOrder
<1>7. CASE gvsp'.block = gvsp.block /\ gvsp'.frame # <<>>
  <2>1. InOrder(gvsp'.frame, shot, c, gvsp.block, next[c] + 1)
    <3>1. next[c] < LastPacket
      BY <1>2, Sizes
    <3>2. \/ gvsp'.frame = gvsp.frame
          \/ /\ Len(gvsp.frame) < FrameSize
             /\ gvsp'.frame = Append(gvsp.frame, Packet(c, next[c]).data)
             /\ Packet(c, next[c]).block = gvsp.block /\ next[c] % PerBlock \in 1 .. FrameSize
      BY <1>5, <1>7
    <3> QED
      BY <1>3, <1>4, <3>1, <3>2, StaysInOrder
  <2> QED
    BY <1>2, <1>7, <2>1 DEF FromOne, InOrder
<1> QED
  BY <1>5, <1>6, <1>7

\* A packet comes or is lost, and the frame is not complete yet.
LEMMA FrameKept ==
  ASSUME PhotoTypes, FrameSound, doing = "RECEIVE", NEW c \in Cameras, next[c] < LastPacket,
         next' = [next EXCEPT ![c] = @ + 1], UNCHANGED <<doing, shot, spoilt>>,
         gvsp' = gvsp \/ gvsp' = Received(Packet(c, next[c]))
  PROVE  FrameSound' /\ next' \in [Cameras -> 0 .. LastPacket]
         /\ gvsp' \in [frame : Seq(Datum), have : BOOLEAN, block : Nat]
<1>1. next[c] \in 0 .. LastPacket - 1 /\ next' \in [Cameras -> 0 .. LastPacket]
  BY Sizes DEF PhotoTypes
<1>2. /\ Len(gvsp.frame) <= FrameSize /\ Len(gvsp.frame) \in Nat /\ gvsp.frame \in Seq(Datum)
      /\ \A i \in 1 .. Len(gvsp.frame) : gvsp.frame[i].shot = shot
  <2>1. gvsp.frame \in Seq(Datum)
    BY DEF PhotoTypes
  <2>2. Len(gvsp.frame) \in Nat
    BY <2>1
  <2> QED
    BY <2>1, <2>2 DEF FrameSound
<1>3. /\ gvsp' \in [frame : Seq(Datum), have : BOOLEAN, block : Nat]
      /\ \/ gvsp'.frame = <<>>
         \/ gvsp'.frame = gvsp.frame
         \/ /\ Len(gvsp.frame) < FrameSize
            /\ gvsp'.frame = Append(gvsp.frame, Packet(c, next[c]).data)
  <2>1. CASE gvsp' = gvsp
    BY <2>1 DEF PhotoTypes
  <2>2. CASE gvsp' = Received(Packet(c, next[c]))
    BY <1>1, <1>2, <2>2, ReceivedIs
  <2> QED
    BY <2>1, <2>2
<1>4. Packet(c, next[c]).data.shot = shot
  BY DEF Packet
<1>5. Len(gvsp'.frame) <= FrameSize /\ \A i \in 1 .. Len(gvsp'.frame) : gvsp'.frame[i].shot = shot
  <2>1. CASE gvsp'.frame = <<>>
    BY <2>1, Sizes
  <2>2. CASE gvsp'.frame = gvsp.frame
    BY <1>2, <2>2
  <2>3. CASE /\ Len(gvsp.frame) < FrameSize
             /\ gvsp'.frame = Append(gvsp.frame, Packet(c, next[c]).data)
    <3>1. /\ Len(gvsp'.frame) = Len(gvsp.frame) + 1
          /\ \A i \in 1 .. Len(gvsp.frame) : gvsp'.frame[i] = gvsp.frame[i]
          /\ gvsp'.frame[Len(gvsp.frame) + 1] = Packet(c, next[c]).data
      BY <1>2, <2>3
    <3> QED
      BY <1>2, <1>4, <2>3, <3>1, Sizes
  <2> QED
    BY <1>3, <2>1, <2>2, <2>3
<1>6. ASSUME shot \notin spoilt PROVE \E d \in Cameras : FromOne(d)'
  <2>1. PICK d \in Cameras : FromOne(d)
    BY <1>1, <1>6, Sizes DEF FrameSound
  <2> QED
    BY <1>2, <2>1, FromOneKept
<1> QED
  BY <1>1, <1>3, <1>5, <1>6 DEF FrameSound

-----------------------------------------------------------------------------
(***************************************************************************)
(* What stays true when more is spoilt or left unclosed, or another        *)
(* picture has been taken.                                                 *)
(***************************************************************************)
LEMMA MoreIsSound ==
  ASSUME NEW P, NEW sp, NEW un, NEW more, NEW open, sp \subseteq more, un \subseteq open,
         NEW f, NEW d, NEW msg, NEW y
  PROVE  /\ FileSound(P, sp, un, f) => FileSound(P, more, open, f)
         /\ Joins(sp, un, f, y) => Joins(more, open, f, y)
         /\ Ends(sp, f) => Ends(more, f)
         /\ FileWhole(f, sp, un) => FileWhole(f, more, open)
         /\ MessageFits(P, sp, un, f, msg) => MessageFits(P, more, open, f, msg)
<1>1. FileSound(P, sp, un, f) => FileSound(P, more, open, f)
  BY DEF FileSound, Held
<1>2. \A z : Joins(sp, un, f, z) => Joins(more, open, f, z)
  BY DEF Joins
<1>3. Ends(sp, f) => Ends(more, f)
  BY DEF Ends
<1>4. FileWhole(f, sp, un) => FileWhole(f, more, open)
  BY DEF FileWhole
<1>5. \A z : ChunkSound(P, sp, z) => ChunkSound(P, more, z)
  BY DEF ChunkSound
<1> QED
  BY <1>1, <1>2, <1>3, <1>4, <1>5 DEF MessageFits

LEMMA MoreAwaits ==
  ASSUME NEW sp, NEW un, NEW more, NEW open, sp \subseteq more, un \subseteq open,
         NEW f, NEW d, NEW s, NEW o, Awaits(sp, un, f, d, s, o)
  PROVE  Awaits(more, open, f, d, s, o)
BY DEF Awaits

LEMMA MoreFlows ==
  ASSUME NEW P, NEW sp, NEW un, NEW more, NEW open, sp \subseteq more, un \subseteq open,
         NEW file, NEW pipe, NEW d, NEW s, NEW o, Flows(P, sp, un, file, pipe, d, s, o)
  PROVE  Flows(P, more, open, file, pipe, d, s, o)
<1>1. FileSound(P, more, open, file)
  BY MoreIsSound DEF Flows
<1>2. PipeSound(P, more, open, file, pipe)
  BY MoreIsSound DEF Flows, PipeSound
<1>3. Awaits(more, open, Before(pipe, file, Len(pipe) + 1), d, s, o)
  BY MoreAwaits DEF Flows
<1> QED
  BY <1>1, <1>2, <1>3 DEF Flows

LEMMA Items ==
  ASSUME NEW f \in Seq(Datum)
  PROVE  /\ Len(f) \in Nat /\ (f = <<>> <=> Len(f) = 0)
         /\ \A i \in 1 .. Len(f) : f[i] \in Datum /\ f[i].shot \in Nat /\ f[i].k \in Nat
         /\ f # <<>> => 1 \in 1 .. Len(f) /\ Len(f) \in 1 .. Len(f)
<1>1. Len(f) \in Nat /\ (f = <<>> <=> Len(f) = 0) /\ \A i \in 1 .. Len(f) : f[i] \in Datum
  OBVIOUS
<1>2. \A y \in Datum : y.shot \in Nat /\ y.k \in Nat
  BY DEF Datum
<1>3. Len(f) # 0 => 1 \in 1 .. Len(f) /\ Len(f) \in 1 .. Len(f)
  BY <1>1
<1> QED
  BY <1>1, <1>2, <1>3

LEMMA NewPicture ==
  ASSUME NEW P \in [Nat -> Seq(Datum)], NEW Q \in [Nat -> Seq(Datum)],
         \A s \in Nat : P[s] # <<>> => Q[s] = P[s],
         NEW sp, NEW un, NEW file \in Seq(Datum), NEW pipe \in Seq(PhotoMessage),
         FileSound(P, sp, un, file), PipeSound(P, sp, un, file, pipe)
  PROVE  FileSound(Q, sp, un, file) /\ PipeSound(Q, sp, un, file, pipe)
<1>1. FileSound(Q, sp, un, file)
  <2>1. ASSUME NEW i \in 1 .. Len(file), NEW n, file[i].shot \notin sp,
               HoldsPart(P, file, file[i].shot, n), P[file[i].shot] # <<>>
        PROVE  HoldsPart(Q, file, file[i].shot, n) /\ Q[file[i].shot] = P[file[i].shot]
    <3>1. file[i].shot \in Nat
      BY Items
    <3>2. Q[file[i].shot] = P[file[i].shot]
      BY <2>1, <3>1
    <3> QED
      BY <2>1, <3>2 DEF HoldsPart
  <2>2. ASSUME NEW i \in 1 .. Len(file), file[Len(file)].k < Len(P[file[i].shot])
        PROVE  P[file[i].shot] # <<>>
    <3>1. file # <<>> /\ file[i].shot \in Nat
      <4>1. Len(file) # 0
        BY Items
      <4> QED
        BY <4>1, Items
    <3>2. file[Len(file)].k \in Nat /\ P[file[i].shot] \in Seq(Datum)
      BY <3>1, Items
    <3>3. Len(P[file[i].shot]) # 0
      <4>1. PICK k \in Nat : k = file[Len(file)].k
        BY <3>2
      <4>2. PICK n \in Nat : n = Len(P[file[i].shot])
        BY <3>2, Items
      <4>3. k < n
        BY <2>2, <4>1, <4>2
      <4> QED
        <5>1. k \in Nat /\ n \in Nat
          BY <4>1, <4>2
        <5>2. n # 0
          BY <4>3, <5>1
        <5> QED
          BY <4>2, <5>2
    <3> QED
      BY <3>3
  <2> QED
    BY <2>1, <2>2 DEF FileSound, Held
<1>2. ASSUME NEW d \in Seq(Datum), ChunkSound(P, sp, d) PROVE ChunkSound(Q, sp, d)
  <2>1. d # <<>> /\ \A j \in 1 .. Len(d) : d[j].shot = d[1].shot
    BY <1>2 DEF ChunkSound
  <2>2. ASSUME d[1].shot \notin sp PROVE Q[d[1].shot] = P[d[1].shot]
    <3>1. 1 \in 1 .. Len(d) /\ d[1].shot \in Nat /\ d[1].k \in Nat
      BY <2>1, Items
    <3>2. d[1].k + 1 \in 1 .. Len(P[d[1].shot]) /\ P[d[1].shot] \in Seq(Datum)
      BY <1>2, <2>2, <3>1 DEF ChunkSound, PieceOf
    <3>3. P[d[1].shot] # <<>>
      <4>1. Len(P[d[1].shot]) # 0
        <5>1. PICK k \in Nat : k = d[1].k
          BY <3>1
        <5>2. k + 1 \in 1 .. Len(P[d[1].shot])
          BY <3>2, <5>1
        <5>3. PICK n \in Nat : n = Len(P[d[1].shot])
          BY <3>2, Items
        <5>4. k \in Nat /\ n \in Nat /\ k + 1 \in 1 .. n
          BY <5>1, <5>2, <5>3
        <5>5. n # 0
          BY <5>4
        <5> QED
          BY <5>3, <5>5
      <4> QED
        BY <4>1
    <3> QED
      BY <3>1, <3>3
  <2> QED
    BY <1>2, <2>1, <2>2 DEF ChunkSound
<1>3. PipeSound(Q, sp, un, file, pipe)
  <2>1. ASSUME NEW i \in 1 .. Len(pipe) PROVE MessageFits(Q, sp, un, Before(pipe, file, i), pipe[i])
    <3>1. MessageFits(P, sp, un, Before(pipe, file, i), pipe[i]) /\ pipe[i] \in PhotoMessage
      BY DEF PipeSound
    <3>2. pipe[i].kind = "CHUNK" => pipe[i].data \in Seq(Datum)
      BY <3>1 DEF PhotoMessage
    <3> QED
      BY <1>2, <3>1, <3>2 DEF MessageFits
  <2> QED
    BY <2>1 DEF PipeSound
<1> QED
  BY <1>1, <1>3

-----------------------------------------------------------------------------
(***************************************************************************)
(* The file.                                                               *)
(***************************************************************************)
LEMMA Concat ==
  ASSUME NEW f \in Seq(Datum), NEW d \in Seq(Datum)
  PROVE  /\ f \o d \in Seq(Datum) /\ Len(f \o d) = Len(f) + Len(d)
         /\ \A i \in 1 .. Len(f) : (f \o d)[i] = f[i]
         /\ \A i \in 1 .. Len(d) : (f \o d)[Len(f) + i] = d[i]
         /\ \A i \in 1 .. Len(f \o d) : i \in 1 .. Len(f) \/ i - Len(f) \in 1 .. Len(d)
OBVIOUS

\* Packets of another capture come behind.
LEMMA PartStays ==
  ASSUME NEW P, NEW f \in Seq(Datum), NEW d \in Seq(Datum), NEW s, NEW n \in Nat,
         HoldsPart(P, f, s, n), \A j \in 1 .. Len(d) : d[j].shot # s
  PROVE  HoldsPart(P, f \o d, s, n)
<1>1. PICK at \in 0 .. Len(f) - n : \A i \in 1 .. Len(f) :
        IF i - at \in 1 .. n THEN f[i] = P[s][i - at] ELSE f[i].shot # s
  BY DEF HoldsPart
<1>2. PICK g \in Seq(Datum) : g = f \o d
  BY Concat
<1>3. /\ Len(g) = Len(f) + Len(d) /\ Len(f) \in Nat /\ Len(d) \in Nat
      /\ \A i \in 1 .. Len(f) : g[i] = f[i]
      /\ \A i \in 1 .. Len(d) : g[Len(f) + i] = d[i]
  BY <1>2, Concat
<1>4. at \in 0 .. Len(g) - n
  BY <1>1, <1>3
<1>5. ASSUME NEW i \in 1 .. Len(g)
      PROVE  IF i - at \in 1 .. n THEN g[i] = P[s][i - at] ELSE g[i].shot # s
  <2>1. CASE i <= Len(f)
    <3>1. i \in 1 .. Len(f)
      BY <1>3, <1>5, <2>1
    <3>2. g[i] = f[i]
      BY <1>3, <3>1
    <3> QED
      BY <1>1, <3>1, <3>2
  <2>2. CASE i > Len(f)
    <3>1. i - Len(f) \in 1 .. Len(d) /\ Len(f) + (i - Len(f)) = i
      BY <1>3, <1>5, <2>2
    <3>2. g[i].shot # s
      BY <1>3, <3>1
    <3>3. i - at \notin 1 .. n
      BY <1>1, <1>3, <1>5, <2>2
    <3> QED
      BY <3>2, <3>3
  <2> QED
    BY <1>3, <1>5, <2>1, <2>2
<1> QED
  BY <1>2, <1>4, <1>5 DEF HoldsPart

LEMMA Behind ==
  ASSUME NEW at \in Nat, NEW n \in Nat, NEW l \in Nat, NEW m \in Nat, at + n = l,
         NEW j \in 1 .. m, NEW i, i = l + j
  PROVE  i - at = n + j /\ i - at \in 1 .. n + m
OBVIOUS

\* A chunk of the capture itself goes on where the file's last packet left off.
LEMMA PartGrows ==
  ASSUME NEW P, NEW f \in Seq(Datum), NEW d \in Seq(Datum), NEW s, NEW n \in Nat,
         \/ f # <<>> /\ HoldsPart(P, f, s, n) /\ f[Len(f)].shot = s
         \/ n = 0 /\ \A i \in 1 .. Len(f) : f[i].shot # s,
         PieceOf(P[s], d, n)
  PROVE  HoldsPart(P, f \o d, s, n + Len(d))
<1>1. PICK at \in 0 .. Len(f) :
        /\ at + n = Len(f)
        /\ \A i \in 1 .. Len(f) :
             IF i - at \in 1 .. n THEN f[i] = P[s][i - at] ELSE f[i].shot # s
  <2>1. CASE f # <<>> /\ HoldsPart(P, f, s, n) /\ f[Len(f)].shot = s
    <3>1. PICK at \in 0 .. Len(f) - n : \A i \in 1 .. Len(f) :
            IF i - at \in 1 .. n THEN f[i] = P[s][i - at] ELSE f[i].shot # s
      BY <2>1 DEF HoldsPart
    <3>2. Len(f) \in 1 .. Len(f)
      BY <2>1
    <3>3. Len(f) - at \in 1 .. n
      BY <2>1, <3>1, <3>2
    <3>4. at \in 0 .. Len(f) /\ at + n = Len(f)
      BY <3>1, <3>3
    <3> QED
      BY <3>1, <3>4
  <2>2. CASE n = 0 /\ \A i \in 1 .. Len(f) : f[i].shot # s
    <3>1. PICK at : at = Len(f)
      OBVIOUS
    <3>2. at \in 0 .. Len(f) /\ at + n = Len(f)
      <4>1. Len(f) \in Nat
        OBVIOUS
      <4> QED
        BY <2>2, <3>1, <4>1
    <3>3. \A i \in 1 .. Len(f) : i - at \notin 1 .. n
      BY <2>2
    <3> QED
      BY <2>2, <3>2, <3>3
  <2> QED
    BY <2>1, <2>2
<1>2. PICK g \in Seq(Datum) : g = f \o d
  BY Concat
<1>3. /\ Len(g) = Len(f) + Len(d) /\ Len(f) \in Nat /\ Len(d) \in Nat
      /\ \A i \in 1 .. Len(f) : g[i] = f[i]
      /\ \A i \in 1 .. Len(d) : g[Len(f) + i] = d[i]
  BY <1>2, Concat
<1>4. at \in 0 .. Len(g) - (n + Len(d))
  BY <1>1, <1>3
<1>5. ASSUME NEW i \in 1 .. Len(g)
      PROVE  IF i - at \in 1 .. n + Len(d) THEN g[i] = P[s][i - at] ELSE g[i].shot # s
  <2>1. CASE i <= Len(f)
    <3>1. i \in 1 .. Len(f) /\ (i - at \in 1 .. n <=> i - at \in 1 .. n + Len(d))
      BY <1>1, <1>3, <1>5, <2>1
    <3>2. IF i - at \in 1 .. n THEN f[i] = P[s][i - at] ELSE f[i].shot # s
      BY <1>1, <3>1
    <3>3. g[i] = f[i]
      BY <1>3, <3>1
    <3>4. CASE i - at \in 1 .. n
      BY <3>1, <3>2, <3>3, <3>4
    <3>5. CASE i - at \notin 1 .. n
      <4>1. g[i].shot # s
        BY <3>2, <3>3, <3>5
      <4>2. i - at \notin 1 .. n + Len(d)
        BY <3>1, <3>5
      <4> QED
        BY <4>1, <4>2
    <3> QED
      BY <3>4, <3>5
  <2>2. CASE i > Len(f)
    <3>1. PICK j \in 1 .. Len(d) : i = Len(f) + j
      <4>1. i - Len(f) \in 1 .. Len(d) /\ i = Len(f) + (i - Len(f))
        BY <1>3, <1>5, <2>2
      <4> QED
        BY <4>1
    <3>2. i - at = n + j /\ i - at \in 1 .. n + Len(d)
      <4>1. at \in Nat /\ at + n = Len(f) /\ Len(f) \in Nat /\ Len(d) \in Nat
        BY <1>1, <1>3
      <4>2. j \in 1 .. Len(d) /\ i = Len(f) + j
        BY <3>1
      <4>3. PICK l \in Nat, m \in Nat : l = Len(f) /\ m = Len(d)
        BY <4>1
      <4>4. at \in Nat /\ n \in Nat /\ l \in Nat /\ m \in Nat
        BY <4>1, <4>3
      <4>5. at + n = l
        BY <4>1, <4>3
      <4>6. j \in 1 .. m
        BY <4>2, <4>3
      <4>7. i = l + j
        BY <4>2, <4>3
      <4>8. i - at = n + j /\ i - at \in 1 .. n + m
        BY <4>4, <4>5, <4>6, <4>7, Behind
      <4> QED
        BY <4>3, <4>8
    <3>3. g[i] = P[s][n + j]
      BY <1>3, <3>1 DEF PieceOf
    <3> QED
      BY <3>2, <3>3
  <2> QED
    BY <1>3, <1>5, <2>1, <2>2
<1> QED
  BY <1>2, <1>4, <1>5 DEF HoldsPart

LEMMA NotEmpty ==
  ASSUME NEW P, Pictures(P), NEW s \in Nat, NEW k \in Nat, k < Len(P[s])
  PROVE  P[s] # <<>> /\ IsPicture(P[s], s)
<1>1. P[s] \in Seq(Datum) /\ (P[s] = <<>> \/ IsPicture(P[s], s))
  BY DEF Pictures
<1>2. PICK n \in Nat : n = Len(P[s])
  BY <1>1, Items
<1>3. n # 0
  BY <1>2
<1> QED
  BY <1>1, <1>2, <1>3, Items

\* The last packet of a piece of a picture.
LEMMA PieceEnds ==
  ASSUME NEW s \in Nat, NEW p, IsPicture(p, s), NEW d \in Seq(Datum), d # <<>>, NEW n \in Nat,
         PieceOf(p, d, n)
  PROVE  d[Len(d)].k + 1 = n + Len(d) /\ d[Len(d)].k < Len(p)
<1>1. PICK m \in Nat : m = Len(d) /\ m \in 1 .. m
  BY Items
<1>2. n + m \in 1 .. Len(p) /\ d[m] = p[n + m]
  BY <1>1 DEF PieceOf
<1>3. Len(p) = FrameSize + 1 /\ p[n + m].k = (n + m) - 1
  BY <1>2, PictureIs
<1>4. PICK k : k = d[m].k
  OBVIOUS
<1>5. k = (n + m) - 1 /\ n + m <= FrameSize + 1
  BY <1>2, <1>3, <1>4, Sizes
<1>6. k + 1 = n + m /\ k < FrameSize + 1
  BY <1>5, Sizes
<1> QED
  BY <1>1, <1>3, <1>4, <1>6

LEMMA FileGrows ==
  ASSUME NEW P, Pictures(P), NEW sp, NEW un, NEW f \in Seq(Datum), NEW d \in Seq(Datum),
         FileSound(P, sp, un, f), ChunkSound(P, sp, d), Joins(sp, un, f, d[1])
  PROVE  FileSound(P, sp, un, f \o d)
<1>1. /\ d # <<>> /\ d[1] \in Datum /\ d[1].shot \in Nat /\ d[1].k \in Nat
      /\ Len(d) \in 1 .. Len(d) /\ d[Len(d)].k \in Nat
      /\ \A j \in 1 .. Len(d) : d[j].shot = d[1].shot
  BY Items DEF ChunkSound
<1>2. PICK t \in Nat, x \in Datum, g \in Seq(Datum) :
        t = d[1].shot /\ x = d[Len(d)] /\ x.shot = t /\ g = f \o d
  BY <1>1, Concat, Items
<1>3. /\ g # <<>> /\ g[Len(g)] = x
      /\ \A i \in 1 .. Len(g) : (i \in 1 .. Len(f) /\ g[i] = f[i]) \/ g[i].shot = t
  <2>1. /\ Len(g) = Len(f) + Len(d) /\ Len(f) \in Nat /\ Len(d) \in Nat
        /\ \A i \in 1 .. Len(f) : g[i] = f[i]
        /\ \A i \in 1 .. Len(d) : g[Len(f) + i] = d[i]
        /\ \A i \in 1 .. Len(g) : i \in 1 .. Len(f) \/ i - Len(f) \in 1 .. Len(d)
    BY <1>2, Concat
  <2>2. g # <<>> /\ g[Len(g)] = x
    BY <1>1, <1>2, <2>1
  <2>3. ASSUME NEW i \in 1 .. Len(g), i \notin 1 .. Len(f) PROVE g[i].shot = t
    <3>1. i - Len(f) \in 1 .. Len(d) /\ Len(f) + (i - Len(f)) = i
      BY <2>1, <2>3
    <3> QED
      BY <1>1, <1>2, <2>1, <3>1
  <2> QED
    BY <2>1, <2>2, <2>3
<1>4. ASSUME f # <<>>
      PROVE  /\ f[Len(f)] \in Datum /\ f[Len(f)].shot \in Nat /\ f[Len(f)].k \in Nat
             /\ Held(P, sp, un, f, f[Len(f)].shot, f[Len(f)])
             /\ \/ f[Len(f)].shot = t /\ (t \in sp \/ d[1].k = f[Len(f)].k + 1)
                \/ /\ f[Len(f)].shot < t /\ f[Len(f)].shot \in un
                   /\ f[Len(f)].shot \in sp \/ f[Len(f)].k = FrameSize
                   /\ t \in sp \/ d[1].k = 0
  BY <1>2, <1>4, Items DEF Joins, FileSound
<1>5. ASSUME t \notin sp PROVE x.k < Len(P[t]) /\ HoldsPart(P, g, t, x.k + 1)
  <2>1. PieceOf(P[t], d, d[1].k)
    BY <1>2, <1>5 DEF ChunkSound
  <2>2. d[1].k + Len(d) \in 1 .. Len(P[t])
    BY <1>1, <2>1 DEF PieceOf
  <2>3. IsPicture(P[t], t)
    <3>1. PICK k \in Nat, m \in Nat : k = d[1].k /\ m = Len(d) /\ m >= 1
      BY <1>1
    <3>2. P[t] \in Seq(Datum)
      BY DEF Pictures
    <3>3. PICK l \in Nat : l = Len(P[t])
      BY <3>2, Items
    <3>4. k < l
      <4>1. k + m \in 1 .. l
        BY <2>2, <3>1, <3>3
      <4> QED
        BY <3>1, <4>1
    <3> QED
      BY <3>1, <3>3, <3>4, NotEmpty
  <2>4. x.k + 1 = d[1].k + Len(d) /\ x.k < Len(P[t])
    BY <1>1, <1>2, <2>1, <2>3, PieceEnds
  <2>5. HoldsPart(P, g, t, d[1].k + Len(d))
    <3>1. CASE f = <<>>
      <4>1. d[1].k = 0 /\ \A i \in 1 .. Len(f) : f[i].shot # t
        BY <1>2, <1>5, <3>1 DEF Joins
      <4> QED
        BY <1>1, <1>2, <2>1, <4>1, PartGrows
    <3>2. CASE f # <<>> /\ f[Len(f)].shot = t
      <4>1. HoldsPart(P, f, t, d[1].k)
        BY <1>4, <1>5, <3>2 DEF Held
      <4> QED
        BY <1>1, <1>2, <2>1, <3>2, <4>1, PartGrows
    <3>3. CASE f # <<>> /\ f[Len(f)].shot < t
      <4>1. ASSUME NEW i \in 1 .. Len(f) PROVE f[i].shot # t
        <5>1. PICK a \in Nat, b \in Nat : a = f[i].shot /\ b = f[Len(f)].shot
          BY <1>4, <3>3, Items
        <5>2. a <= b
          BY <5>1 DEF FileSound, Held
        <5>3. b < t
          BY <3>3, <5>1
        <5>4. a # t
          BY <5>2, <5>3
        <5> QED
          BY <5>1, <5>4
      <4>2. d[1].k = 0
        <5>1. PICK b \in Nat : b = f[Len(f)].shot /\ b < t
          BY <1>4, <3>3
        <5>2. b # t
          BY <5>1
        <5> QED
          BY <1>4, <1>5, <3>3, <5>1, <5>2
      <4> QED
        BY <1>1, <1>2, <2>1, <4>1, <4>2, PartGrows
    <3> QED
      BY <1>4, <3>1, <3>2, <3>3
  <2> QED
    BY <2>4, <2>5
<1>6. Held(P, sp, un, g, t, x)
  BY <1>2, <1>5 DEF Held
<1>7. ASSUME NEW i \in 1 .. Len(f), f[i].shot # t PROVE Held(P, sp, un, g, f[i].shot, x)
  <2>1. f # <<>> /\ f[i].shot \in Nat
    <3>1. Len(f) # 0
      BY Items
    <3> QED
      BY <3>1, Items
  <2>2. PICK s \in Nat, b \in Nat : s = f[i].shot /\ b = f[Len(f)].shot
    BY <1>4, <2>1
  <2>3. Held(P, sp, un, f, s, f[Len(f)])
    BY <2>2 DEF FileSound
  <2>4. s <= b /\ (b = t \/ b < t)
    BY <1>4, <2>1, <2>2, <2>3 DEF Held
  <2>5. s <= t /\ s # t /\ (s = b => b # t)
    BY <1>7, <2>2, <2>4
  <2>6. s \in un
    BY <1>4, <2>1, <2>2, <2>3, <2>5 DEF Held
  <2>7. ASSUME s \notin sp PROVE P[s] # <<>> /\ HoldsPart(P, f, s, FrameSize + 1)
    <3>1. CASE s = b
      <4>1. f[Len(f)].k = FrameSize
        BY <1>4, <2>1, <2>2, <2>5, <2>7, <3>1
      <4>2. f[Len(f)].k < Len(P[s]) /\ HoldsPart(P, f, s, FrameSize + 1)
        BY <2>2, <2>3, <2>7, <3>1, <4>1 DEF Held
      <4> QED
        BY <1>4, <2>1, <4>2, NotEmpty
    <3>2. CASE s # b
      BY <2>2, <2>3, <2>7, <3>2 DEF Held
    <3> QED
      BY <3>1, <3>2
  <2>8. ASSUME s \notin sp PROVE HoldsPart(P, g, s, FrameSize + 1)
    <3>1. \A j \in 1 .. Len(d) : d[j].shot # s
      BY <1>1, <1>2, <2>5
    <3>2. FrameSize + 1 \in Nat
      BY Sizes
    <3> QED
      BY <1>2, <2>7, <2>8, <3>1, <3>2, PartStays
  <2> QED
    BY <1>2, <2>2, <2>5, <2>6, <2>7, <2>8 DEF Held
<1>8. ASSUME NEW i \in 1 .. Len(g) PROVE Held(P, sp, un, g, g[i].shot, g[Len(g)])
  BY <1>3, <1>6, <1>7
<1> QED
  BY <1>2, <1>8 DEF FileSound

LEMMA FileDone ==
  ASSUME NEW P, Pictures(P), NEW sp, NEW un, NEW f \in Seq(Datum), FileSound(P, sp, un, f),
         Ends(sp, f)
  PROVE  FileWhole(f, sp, un)
<1>1. ASSUME NEW s \in Nat, P[s] # <<>>, HoldsPart(P, f, s, FrameSize + 1)
      PROVE  HoldsPicture(f, s)
  <2>1. PICK c \in Cameras, b \in 0 .. Blocks - 1 : P[s] = PictureOf(s, c, b)
    BY <1>1 DEF Pictures, IsPicture
  <2>2. PICK at \in 0 .. Len(f) - (FrameSize + 1) : \A i \in 1 .. Len(f) :
          IF i - at \in 1 .. FrameSize + 1 THEN f[i] = P[s][i - at] ELSE f[i].shot # s
    BY <1>1 DEF HoldsPart
  <2>3. at \in 0 .. Len(f) - FrameSize - 1 /\ DOMAIN f = 1 .. Len(f)
    BY Sizes
  <2>4. ASSUME NEW i \in 1 .. Len(f)
        PROVE  IF i - at \in 1 .. FrameSize + 1 THEN f[i] = Pixel(s, c, b, i - at - 1)
                                                ELSE f[i].shot # s
    BY <2>1, <2>2 DEF PictureOf
  <2> QED
    BY <2>1, <2>3, <2>4 DEF HoldsPicture
<1>2. ASSUME NEW i \in 1 .. Len(f)
      PROVE  /\ f[i].shot \in sp \/ HoldsPicture(f, f[i].shot)
             /\ f[i].shot \in un \/ f[Len(f)].shot = f[i].shot
  <2>1. f # <<>> /\ f[i].shot \in Nat /\ f[Len(f)].k \in Nat
    <3>1. Len(f) # 0
      BY Items
    <3> QED
      BY <3>1, Items
  <2>2. PICK s \in Nat : s = f[i].shot
    BY <2>1
  <2>3. Held(P, sp, un, f, s, f[Len(f)])
    BY <2>2 DEF FileSound
  <2>4. ASSUME s \notin sp PROVE P[s] # <<>> /\ HoldsPart(P, f, s, FrameSize + 1)
    <3>1. CASE s = f[Len(f)].shot
      <4>1. f[Len(f)].k = FrameSize
        BY <2>1, <2>4, <3>1 DEF Ends
      <4>2. f[Len(f)].k < Len(P[s]) /\ HoldsPart(P, f, s, FrameSize + 1)
        BY <2>3, <2>4, <3>1, <4>1 DEF Held
      <4> QED
        BY <2>1, <4>2, NotEmpty
    <3>2. CASE s # f[Len(f)].shot
      BY <2>3, <2>4, <3>2 DEF Held
    <3> QED
      BY <3>1, <3>2
  <2> QED
    BY <1>1, <2>2, <2>3, <2>4 DEF Held
<1> QED
  BY <1>2 DEF FileWhole

-----------------------------------------------------------------------------
(***************************************************************************)
(* DS takes a message, or ends the file.                                   *)
(***************************************************************************)
\* What may come after f may come after g.
Stands(sp, un, f, g, d, s, o) ==
  /\ \A y \in Datum : Joins(sp, un, f, y) => Joins(sp, un, g, y)
  /\ Ends(sp, f) => Ends(sp, g)
  /\ Awaits(sp, un, f, d, s, o) => Awaits(sp, un, g, d, s, o)

LEMMA SameLast ==
  ASSUME NEW sp, NEW un, NEW f, NEW g, f # <<>>, g # <<>>, f[Len(f)] = g[Len(g)],
         NEW d, NEW s, NEW o
  PROVE  Stands(sp, un, f, g, d, s, o)
<1>1. \A y \in Datum : Joins(sp, un, f, y) => Joins(sp, un, g, y)
  BY DEF Joins
<1>2. Ends(sp, f) => Ends(sp, g)
  BY DEF Ends
<1>3. Awaits(sp, un, f, d, s, o) => Awaits(sp, un, g, d, s, o)
  BY DEF Awaits
<1> QED
  BY <1>1, <1>2, <1>3 DEF Stands

\* What is spoilt may end anywhere.
LEMMA LastSpoilt ==
  ASSUME NEW sp, NEW un, NEW f, f # <<>>, f[Len(f)].shot \in sp, NEW d, NEW s, NEW o
  PROVE  Stands(sp, un, f, <<>>, d, s, o)
<1>1. \A y \in Datum : Joins(sp, un, f, y) => Joins(sp, un, <<>>, y)
  BY DEF Joins
<1>2. Ends(sp, <<>>)
  BY DEF Ends
<1>3. Awaits(sp, un, f, d, s, o) => Awaits(sp, un, <<>>, d, s, o)
  BY DEF Awaits
<1> QED
  BY <1>1, <1>2, <1>3 DEF Stands

\* A spoilt chunk that is not stored.
LEMMA Skipped ==
  ASSUME NEW sp, NEW un, NEW f \in Seq(Datum), NEW e \in Seq(Datum), e # <<>>,
         NEW t \in Nat, t \in sp, e[1].shot = t, e[Len(e)].shot = t, Joins(sp, un, f, e[1]),
         NEW d, NEW s \in Nat, NEW o
  PROVE  Stands(sp, un, e, f, d, s, o)
<1>1. CASE f = <<>>
  BY <1>1, LastSpoilt
<1>2. CASE f # <<>>
  <2>1. PICK x \in Datum : x = f[Len(f)] /\ x.shot \in Nat
    BY <1>2, Items
  <2>2. \/ x.shot = t
        \/ x.shot < t /\ x.shot \in un /\ (x.shot \in sp \/ x.k = FrameSize)
    BY <1>2, <2>1 DEF Joins
  <2>3. ASSUME NEW y \in Datum, Joins(sp, un, e, y) PROVE Joins(sp, un, f, y)
    <3>1. y.shot \in Nat
      BY DEF Datum
    <3>2. y.shot = t \/ (t < y.shot /\ t \in un /\ (y.shot \in sp \/ y.k = 0))
      BY <2>3 DEF Joins
    <3>3. CASE x.shot = t
      BY <1>2, <2>1, <3>2, <3>3 DEF Joins
    <3>4. CASE x.shot < t /\ x.shot \in un /\ (x.shot \in sp \/ x.k = FrameSize)
      <4>1. x.shot < y.shot
        BY <2>1, <3>1, <3>2, <3>4
      <4> QED
        BY <1>2, <2>1, <3>2, <3>4, <4>1 DEF Joins
    <3> QED
      BY <2>2, <3>3, <3>4
  <2>4. Ends(sp, f)
    BY <1>2, <2>1, <2>2 DEF Ends
  <2>5. ASSUME Awaits(sp, un, e, d, s, o) PROVE Awaits(sp, un, f, d, s, o)
    <3>1. t < s \/ (t = s /\ d # "RECEIVE")
      BY <2>5 DEF Awaits
    <3>2. t \in un \/ (t = s /\ d \in {"SEND", "CLOSE"})
      BY <2>5 DEF Awaits
    <3>3. d = "SEND" /\ s \notin sp => o = 0
      BY <2>5 DEF Awaits
    <3>4. CASE x.shot = t
      BY <1>2, <2>1, <3>1, <3>2, <3>3, <3>4 DEF Awaits
    <3>5. CASE x.shot < t /\ x.shot \in un /\ (x.shot \in sp \/ x.k = FrameSize)
      <4>1. x.shot < s /\ x.shot # s
        BY <2>1, <3>1, <3>5
      <4> QED
        BY <1>2, <2>1, <3>3, <3>5, <4>1 DEF Awaits
    <3> QED
      BY <2>2, <3>4, <3>5
  <2> QED
    BY <2>3, <2>4, <2>5 DEF Stands
<1> QED
  BY <1>1, <1>2

LEMMA FitsAlike ==
  ASSUME NEW P, NEW sp, NEW un, NEW f, NEW g, NEW d, NEW s, NEW o, Stands(sp, un, f, g, d, s, o),
         NEW msg \in PhotoMessage, MessageFits(P, sp, un, f, msg)
  PROVE  MessageFits(P, sp, un, g, msg)
<1>1. msg.kind = "CHUNK" => /\ ChunkSound(P, sp, msg.data) /\ Joins(sp, un, f, msg.data[1])
                            /\ msg.data \in Seq(Datum)
  BY DEF MessageFits, PhotoMessage
<1>2. msg.kind = "CHUNK" => msg.data[1] \in Datum
  <2>1. ASSUME msg.kind = "CHUNK" PROVE msg.data[1] \in Datum
    <3>1. PICK data \in Seq(Datum) : data = msg.data /\ data # <<>>
      BY <1>1, <2>1 DEF ChunkSound
    <3> QED
      BY <3>1, Items
  <2> QED
    BY <2>1
<1> QED
  BY <1>1, <1>2 DEF MessageFits, Stands

\* The file is another one that may be gone on from as well.
LEMMA FileChanged ==
  ASSUME NEW P, NEW sp, NEW un, NEW f, NEW pipe \in Seq(PhotoMessage), NEW d, NEW s, NEW o,
         Flows(P, sp, un, f, pipe, d, s, o), NEW g, FileSound(P, sp, un, g),
         pipe = <<>> => Awaits(sp, un, g, d, s, o),
         pipe # <<>> => MessageFits(P, sp, un, g, pipe[1])
  PROVE  Flows(P, sp, un, g, pipe, d, s, o)
<1>1. Len(pipe) \in Nat /\ (pipe = <<>> <=> Len(pipe) = 0)
  OBVIOUS
<1>2. ASSUME NEW i \in 1 .. Len(pipe) PROVE MessageFits(P, sp, un, Before(pipe, g, i), pipe[i])
  <2>1. CASE i = 1
    <3>1. pipe # <<>>
      BY <1>1
    <3> QED
      BY <2>1, <3>1 DEF Before
  <2>2. CASE i # 1
    BY <2>2 DEF Flows, PipeSound, Before
  <2> QED
    BY <2>1, <2>2
<1>3. Awaits(sp, un, Before(pipe, g, Len(pipe) + 1), d, s, o)
  <2>1. CASE pipe = <<>>
    BY <1>1, <2>1 DEF Before
  <2>2. CASE pipe # <<>>
    <3>1. Len(pipe) + 1 # 1
      BY <1>1, <2>2
    <3> QED
      BY <3>1 DEF Flows, Before
  <2> QED
    BY <2>1, <2>2
<1> QED
  BY <1>2, <1>3 DEF Flows, PipeSound

\* The first message is taken, and what is in the file then stands for it.
LEMMA Shift ==
  ASSUME NEW P, NEW sp, NEW un, NEW f, NEW pipe \in Seq(PhotoMessage), pipe # <<>>,
         NEW d, NEW s, NEW o, Flows(P, sp, un, f, pipe, d, s, o),
         NEW g, FileSound(P, sp, un, g), Stands(sp, un, Leaves(Head(pipe)), g, d, s, o)
  PROVE  Flows(P, sp, un, g, Tail(pipe), d, s, o)
<1>1. PICK q \in Seq(PhotoMessage), n \in Nat :
        /\ q = Tail(pipe) /\ Len(q) = n /\ Len(pipe) = n + 1
        /\ \A i \in 1 .. n : q[i] = pipe[i + 1]
  <2>1. Tail(pipe) \in Seq(PhotoMessage) /\ Len(Tail(pipe)) \in Nat
    OBVIOUS
  <2>2. /\ Len(pipe) = Len(Tail(pipe)) + 1
        /\ \A i \in 1 .. Len(Tail(pipe)) : Tail(pipe)[i] = pipe[i + 1]
    OBVIOUS
  <2> QED
    BY <2>1, <2>2
<1>2. Head(pipe) = pipe[1]
  OBVIOUS
<1>3. ASSUME NEW i \in 1 .. n PROVE MessageFits(P, sp, un, Before(q, g, i), q[i])
  <2>1. i + 1 \in 1 .. Len(pipe) /\ (i + 1) - 1 = i /\ i + 1 # 1
    BY <1>1, <1>3
  <2>2. MessageFits(P, sp, un, Leaves(pipe[i]), pipe[i + 1])
    BY <2>1 DEF Flows, PipeSound, Before
  <2>3. CASE i = 1
    <3>1. pipe[i + 1] \in PhotoMessage
      BY <2>1
    <3> QED
      BY <1>1, <1>2, <2>2, <2>3, <3>1, FitsAlike DEF Before
  <2>4. CASE i # 1
    <3>1. i - 1 \in 1 .. n /\ (i - 1) + 1 = i
      BY <1>3, <2>4
    <3>2. Before(q, g, i) = Leaves(pipe[i])
      BY <1>1, <2>4, <3>1 DEF Before
    <3> QED
      BY <1>1, <1>3, <2>2, <3>2
  <2> QED
    BY <2>3, <2>4
<1>4. Awaits(sp, un, Before(q, g, n + 1), d, s, o)
  <2>1. Awaits(sp, un, Leaves(pipe[n + 1]), d, s, o)
    <3>1. (n + 1) + 1 # 1 /\ ((n + 1) + 1) - 1 = n + 1
      OBVIOUS
    <3> QED
      BY <1>1, <3>1 DEF Flows, Before
  <2>2. CASE n = 0
    <3>1. Before(q, g, n + 1) = g /\ n + 1 = 1
      BY <2>2 DEF Before
    <3> QED
      BY <1>2, <2>1, <3>1 DEF Stands
  <2>3. CASE n # 0
    <3>1. n \in 1 .. n /\ n + 1 # 1 /\ (n + 1) - 1 = n
      BY <2>3
    <3>2. Before(q, g, n + 1) = Leaves(pipe[n + 1])
      BY <1>1, <3>1 DEF Before
    <3> QED
      BY <2>1, <3>2
  <2> QED
    BY <2>2, <2>3
<1> QED
  BY <1>1, <1>3, <1>4 DEF Flows, PipeSound

LEMMA ChunkHead ==
  ASSUME PhotoTypes, ChunkNext, NEW P, NEW sp, NEW un,
         Flows(P, sp, un, dsFile, dsPipe, doing, shot, offset)
  PROVE  /\ FileSound(P, sp, un, dsFile) /\ dsFile \in Seq(Datum)
         /\ Payload \in Seq(Datum) /\ Payload # <<>> /\ ChunkSound(P, sp, Payload)
         /\ Joins(sp, un, dsFile, Payload[1])
         /\ Payload[1] \in Datum /\ Payload[1].shot \in Nat
         /\ Payload[Len(Payload)].shot = Payload[1].shot
         /\ Leaves(Head(dsPipe)) = Payload
         /\ dsPipe # <<>> /\ dsPipe[1] = Head(dsPipe) /\ 1 \in 1 .. Len(dsPipe)
         /\ dsPipe \in Seq(PhotoMessage) /\ Tail(dsPipe) \in Seq(PhotoMessage)
<1>1. dsPipe \in Seq(PhotoMessage) /\ dsPipe # <<>> /\ dsFile \in Seq(Datum)
  BY DEF PhotoTypes, ChunkNext
<1>2. /\ dsPipe[1] = Head(dsPipe) /\ 1 \in 1 .. Len(dsPipe) /\ Head(dsPipe) \in PhotoMessage
      /\ Tail(dsPipe) \in Seq(PhotoMessage)
  BY <1>1
<1>3. MessageFits(P, sp, un, dsFile, Head(dsPipe)) /\ FileSound(P, sp, un, dsFile)
  BY <1>2 DEF Flows, PipeSound, Before
<1>4. Head(dsPipe).kind = "CHUNK"
  BY DEF ChunkNext
<1>5. /\ ChunkSound(P, sp, Payload) /\ Joins(sp, un, dsFile, Payload[1])
      /\ Leaves(Head(dsPipe)) = Payload
  BY <1>3, <1>4 DEF MessageFits, Payload, Leaves
<1>6. Payload \in Seq(Datum)
  BY <1>2, <1>4 DEF PhotoMessage, Payload
<1>7. Payload # <<>> /\ \A j \in 1 .. Len(Payload) : Payload[j].shot = Payload[1].shot
  BY <1>5 DEF ChunkSound
<1>8. /\ Payload[1] \in Datum /\ Payload[1].shot \in Nat
      /\ Payload[Len(Payload)].shot = Payload[1].shot
  BY <1>6, <1>7, Items
<1> QED
  BY <1>1, <1>2, <1>3, <1>5, <1>6, <1>7, <1>8

\* Where DS ends a file, what it cuts off of a capture leaves that one spoilt.
LEMMA FileCut ==
  ASSUME PhotoTypes, NEW P, NEW sp, NEW un, Flows(P, sp, un, dsFile, dsPipe, doing, shot, offset),
         CutOff \subseteq sp
  PROVE  /\ Ends(sp, dsFile)
         /\ dsPipe = <<>> => Awaits(sp, un, <<>>, doing, shot, offset)
         /\ dsPipe # <<>> => MessageFits(P, sp, un, <<>>, dsPipe[1])
<1>1. /\ dsPipe \in Seq(PhotoMessage) /\ dsFile \in Seq(Datum) /\ shot \in Nat
      /\ dsPipe = <<>> => Len(dsPipe) = 0
      /\ dsPipe # <<>> => 1 \in 1 .. Len(dsPipe)
  <2>1. dsPipe \in Seq(PhotoMessage) /\ dsFile \in Seq(Datum) /\ shot \in Nat
    BY DEF PhotoTypes
  <2> QED
    BY <2>1
<1>2. dsPipe # <<>> => MessageFits(P, sp, un, dsFile, dsPipe[1]) /\ dsPipe[1] \in PhotoMessage
  BY <1>1 DEF Flows, PipeSound, Before
<1>3. dsPipe = <<>> => Awaits(sp, un, dsFile, doing, shot, offset)
  BY <1>1 DEF Flows, Before
<1>4. CASE dsFile = <<>>
  BY <1>2, <1>3, <1>4 DEF Ends
<1>5. CASE dsFile # <<>> /\ dsFile[Len(dsFile)].shot \in sp
  <2>1. Stands(sp, un, dsFile, <<>>, doing, shot, offset) /\ Ends(sp, dsFile)
    BY <1>5, LastSpoilt DEF Ends
  <2>2. dsPipe # <<>> => MessageFits(P, sp, un, <<>>, dsPipe[1])
    BY <1>2, <2>1, FitsAlike
  <2> QED
    BY <1>3, <2>1, <2>2 DEF Stands
<1>6. CASE dsFile # <<>> /\ dsFile[Len(dsFile)].shot \notin sp
  <2>1. PICK x \in Datum : x = dsFile[Len(dsFile)] /\ x.shot \notin sp
    BY <1>1, <1>6, Items
  <2>2. x.shot \notin OnItsWay
    <3>1. Len(dsFile) \in DOMAIN dsFile
      BY <1>1, <1>6, Items
    <3> QED
      BY <2>1, <3>1 DEF CutOff
  <2>3. doing = "SEND" => shot # x.shot
    BY <2>2 DEF OnItsWay
  <2>4. CASE dsPipe = <<>>
    <3>1. x.k = FrameSize
      BY <1>3, <1>6, <2>1, <2>3, <2>4 DEF Awaits
    <3>2. Awaits(sp, un, <<>>, doing, shot, offset)
      BY <1>3, <1>6, <2>1, <2>3, <2>4 DEF Awaits
    <3> QED
      BY <1>6, <2>1, <2>4, <3>1, <3>2 DEF Ends
  <2>5. CASE dsPipe # <<>> /\ dsPipe[1].kind = "CHUNK"
    <3>1. ChunkSound(P, sp, dsPipe[1].data) /\ Joins(sp, un, dsFile, dsPipe[1].data[1])
      BY <1>2, <2>5 DEF MessageFits
    <3>2. dsPipe[1].data[1].shot # x.shot
      <4>1. 1 \in {j \in DOMAIN dsPipe : dsPipe[j].kind = "CHUNK"}
        BY <1>1, <2>5
      <4> QED
        BY <2>2, <4>1 DEF OnItsWay
    <3>3. x.k = FrameSize /\ Joins(sp, un, <<>>, dsPipe[1].data[1])
      BY <1>6, <2>1, <3>1, <3>2 DEF Joins
    <3> QED
      BY <1>6, <2>1, <2>5, <3>1, <3>3 DEF Ends, MessageFits
  <2>6. CASE dsPipe # <<>> /\ dsPipe[1].kind = "CLOSE"
    <3>1. Ends(sp, dsFile)
      BY <1>2, <2>6 DEF MessageFits
    <3>2. Ends(sp, <<>>)
      BY DEF Ends
    <3> QED
      BY <2>6, <3>1, <3>2 DEF MessageFits
  <2> QED
    BY <1>2, <2>4, <2>5, <2>6 DEF PhotoMessage
<1> QED
  BY <1>4, <1>5, <1>6

\* A step of DS alone.
LEMMA DsKeeps ==
  ASSUME PhotoInv, UNCHANGED <<camera, doing, next, gvsp, sending, shot, unclosed>>,
         spoilt \subseteq spoilt', spoilt' \subseteq Nat,
         dsPipe' \in Seq(PhotoMessage), dsFile' \in Seq(Datum), completed' \subseteq Seq(Datum),
         NEW P, Pictures(P), Photographed(P),
         Flows(P, spoilt', unclosed, dsFile', dsPipe', doing, shot, offset),
         \A f \in completed' : FileWhole(f, spoilt', unclosed)
  PROVE  PhotoInv'
<1>1. UNCHANGED <<streaming, doing, next, gvsp, picture, offset, shot, unclosed>>
  BY DEF camera, sending
<1>2. PhotoTypes'
  BY <1>1 DEF PhotoInv, PhotoTypes
<1>3. FrameSound'
  BY <1>1 DEF PhotoInv, FrameSound, FromOne
<1>4. PictureSound'
  BY <1>1 DEF PhotoInv, PictureSound
<1>5. Flow'
  <2>1. Photographed(P)'
    BY <1>1 DEF Photographed
  <2> QED
    BY <1>1, <2>1 DEF Flow
<1>6. PhotoWhole'
  BY <1>1 DEF PhotoWhole, FileWhole
<1> QED
  BY <1>2, <1>3, <1>4, <1>5, <1>6 DEF PhotoInv

\* What is in DS is as sound when more is spoilt.
LEMMA FlowSpoilt ==
  ASSUME PhotoInv, NEW sp, spoilt \subseteq sp
  PROVE  \E P : /\ Pictures(P) /\ Photographed(P)
               /\ Flows(P, sp, unclosed, dsFile, dsPipe, doing, shot, offset)
<1>1. PICK P : /\ Pictures(P) /\ Photographed(P)
               /\ Flows(P, spoilt, unclosed, dsFile, dsPipe, doing, shot, offset)
  BY DEF PhotoInv, Flow
<1>2. Flows(P, sp, unclosed, dsFile, dsPipe, doing, shot, offset)
  BY <1>1, MoreFlows
<1> QED
  BY <1>1, <1>2

LEMMA DsStoresKeeps ==
  ASSUME PhotoInv, DsStores
  PROVE  PhotoInv'
<1>1. PhotoTypes /\ ChunkNext /\ dsPipe' = Tail(dsPipe)
      /\ UNCHANGED <<camera, doing, next, gvsp, sending, shot, unclosed>>
  BY DEF PhotoInv, DsStores
<1>2. spoilt \subseteq Nat /\ CutOff \subseteq Nat
  <2>1. dsFile \in Seq(Datum) /\ DOMAIN dsFile = 1 .. Len(dsFile)
    BY <1>1 DEF PhotoTypes
  <2> QED
    BY <1>1, <2>1, Items DEF PhotoTypes, CutOff
<1>3. spoilt \subseteq spoilt' /\ spoilt' \subseteq Nat
  BY <1>2 DEF DsStores
<1>4. PICK sp : sp = spoilt'
  OBVIOUS
<1>5. PICK P : /\ Pictures(P) /\ Photographed(P)
               /\ Flows(P, sp, unclosed, dsFile, dsPipe, doing, shot, offset)
  BY <1>3, <1>4, FlowSpoilt
<1>6. /\ FileSound(P, sp, unclosed, dsFile) /\ dsFile \in Seq(Datum)
      /\ Payload \in Seq(Datum) /\ Payload # <<>> /\ ChunkSound(P, sp, Payload)
      /\ Joins(sp, unclosed, dsFile, Payload[1])
      /\ Leaves(Head(dsPipe)) = Payload /\ dsPipe # <<>> /\ dsPipe[1] = Head(dsPipe)
      /\ dsPipe \in Seq(PhotoMessage) /\ Tail(dsPipe) \in Seq(PhotoMessage)
  BY <1>1, <1>5, ChunkHead
<1>7. CASE ~ Rolls
  <2>1. PICK g \in Seq(Datum) : g = dsFile \o Payload /\ g # <<>> /\ g[Len(g)] = Payload[Len(Payload)]
    <3>1. /\ dsFile \o Payload \in Seq(Datum) /\ dsFile \o Payload # <<>>
          /\ (dsFile \o Payload)[Len(dsFile \o Payload)] = Payload[Len(Payload)]
      BY <1>6
    <3> QED
      BY <3>1
  <2>2. dsFile' = g /\ completed' = {}
    BY <1>7, <2>1 DEF DsStores, Completes
  <2>3. FileSound(P, sp, unclosed, g)
    BY <1>5, <1>6, <2>1, FileGrows
  <2>4. Flows(P, sp, unclosed, g, Tail(dsPipe), doing, shot, offset)
    <3>1. Stands(sp, unclosed, Payload, g, doing, shot, offset)
      BY <1>6, <2>1, SameLast
    <3> QED
      BY <1>5, <1>6, <2>3, <3>1, Shift
  <2> QED
    BY <1>1, <1>3, <1>4, <1>5, <1>6, <2>2, <2>4, DsKeeps
<1>8. CASE Rolls
  <2>1. dsFile' = Payload /\ completed' \subseteq {dsFile} /\ CutOff \subseteq sp
    BY <1>4, <1>8 DEF DsStores, Completes
  <2>2. Ends(sp, dsFile) /\ MessageFits(P, sp, unclosed, <<>>, dsPipe[1])
    BY <1>1, <1>5, <1>6, <2>1, FileCut
  <2>3. Joins(sp, unclosed, <<>>, Payload[1])
    BY <1>1, <1>6, <2>2 DEF MessageFits, ChunkNext, Payload
  <2>4. FileSound(P, sp, unclosed, Payload)
    <3>1. FileSound(P, sp, unclosed, <<>>) /\ <<>> \in Seq(Datum) /\ <<>> \o Payload = Payload
      BY <1>6 DEF FileSound
    <3>2. FileSound(P, sp, unclosed, <<>> \o Payload)
      BY <1>5, <1>6, <2>3, <3>1, FileGrows
    <3> QED
      BY <3>1, <3>2
  <2>5. Flows(P, sp, unclosed, Payload, Tail(dsPipe), doing, shot, offset)
    <3>1. Stands(sp, unclosed, Payload, Payload, doing, shot, offset)
      BY DEF Stands
    <3> QED
      BY <1>5, <1>6, <2>4, <3>1, Shift
  <2>6. FileWhole(dsFile, sp, unclosed)
    BY <1>5, <1>6, <2>2, FileDone
  <2>7. /\ completed' \subseteq Seq(Datum)
        /\ \A f \in completed' : FileWhole(f, spoilt', unclosed)
    BY <1>4, <1>6, <2>1, <2>6
  <2> QED
    BY <1>1, <1>3, <1>4, <1>5, <1>6, <2>1, <2>5, <2>7, DsKeeps
<1> QED
  BY <1>7, <1>8

\* The chunks before it are in the file, or have none to follow them.
LEMMA DsCannotStoreKeeps ==
  ASSUME PhotoInv, DsCannotStore
  PROVE  PhotoInv'
<1>1. PhotoTypes /\ ChunkNext /\ dsPipe' = Tail(dsPipe) /\ dsFile' = <<>>
      /\ spoilt' = spoilt \cup {Payload[1].shot}
      /\ UNCHANGED <<camera, doing, next, gvsp, sending, shot, unclosed>>
  BY DEF PhotoInv, DsCannotStore
<1>2. PICK sp : sp = spoilt'
  OBVIOUS
<1>3. PICK P : /\ Pictures(P) /\ Photographed(P)
               /\ Flows(P, sp, unclosed, dsFile, dsPipe, doing, shot, offset)
  BY <1>1, <1>2, FlowSpoilt
<1>4. /\ FileSound(P, sp, unclosed, dsFile) /\ dsFile \in Seq(Datum)
      /\ Payload \in Seq(Datum) /\ Payload # <<>> /\ ChunkSound(P, sp, Payload)
      /\ Joins(sp, unclosed, dsFile, Payload[1])
      /\ Payload[1] \in Datum /\ Payload[1].shot \in Nat
      /\ Payload[Len(Payload)].shot = Payload[1].shot
      /\ Leaves(Head(dsPipe)) = Payload /\ dsPipe # <<>>
      /\ dsPipe \in Seq(PhotoMessage) /\ Tail(dsPipe) \in Seq(PhotoMessage)
  BY <1>1, <1>3, ChunkHead
<1>5. PICK t \in Nat : t = Payload[1].shot /\ t \in sp
  BY <1>1, <1>2, <1>4
<1>6. Ends(sp, dsFile) /\ FileWhole(dsFile, sp, unclosed)
  <2>1. Ends(sp, dsFile)
    BY <1>4, <1>5 DEF Joins, Ends
  <2> QED
    BY <1>3, <1>4, <2>1, FileDone
<1>7. ASSUME NEW n \in 0 .. Len(Payload) - 1, NEW f \in Seq(Datum), FileSound(P, sp, unclosed, f),
             Joins(sp, unclosed, f, Payload[1]), f = <<>> \/ FileWhole(f, sp, unclosed)
      PROVE  LET g == f \o SubSeq(Payload, 1, n)
             IN g \in Seq(Datum) /\ (g = <<>> \/ FileWhole(g, sp, unclosed))
  <2>1. PICK e \in Seq(Datum) :
          /\ e = SubSeq(Payload, 1, n) /\ Len(e) = n /\ \A j \in 1 .. n : e[j] = Payload[j]
    <3>1. /\ SubSeq(Payload, 1, n) \in Seq(Datum) /\ Len(SubSeq(Payload, 1, n)) = n
          /\ \A j \in 1 .. n : SubSeq(Payload, 1, n)[j] = Payload[j]
      BY <1>4, <1>7
    <3> QED
      BY <3>1
  <2>2. CASE n = 0
    <3>1. f \o e = f
      BY <2>1, <2>2
    <3> QED
      BY <1>7, <2>1, <3>1
  <2>3. CASE n # 0
    <3>1. e # <<>> /\ e[1] = Payload[1] /\ n \in 1 .. n /\ 1 .. n \subseteq 1 .. Len(Payload)
      <4>1. PICK p \in Nat : p = Len(Payload)
        BY <1>4
      <4>2. n \in Nat /\ n <= p /\ n # 0
        BY <1>7, <2>3, <4>1
      <4>3. 1 \in 1 .. n /\ n \in 1 .. n /\ 1 .. n \subseteq 1 .. p
        BY <4>1, <4>2
      <4>4. Len(e) # 0 /\ e[1] = Payload[1]
        BY <2>1, <4>2, <4>3
      <4> QED
        BY <4>1, <4>3, <4>4
    <3>2. \A j \in 1 .. Len(e) : e[j].shot = t
      BY <1>4, <1>5, <2>1, <3>1 DEF ChunkSound
    <3>3. ChunkSound(P, sp, e)
      BY <1>5, <3>1, <3>2 DEF ChunkSound
    <3>4. FileSound(P, sp, unclosed, f \o e)
      BY <1>3, <1>7, <3>1, <3>3, FileGrows
    <3>5. f \o e \in Seq(Datum) /\ f \o e # <<>> /\ (f \o e)[Len(f \o e)] = e[n]
      BY <2>1, <3>1
    <3>6. Ends(sp, f \o e)
      BY <1>5, <2>1, <3>1, <3>2, <3>5 DEF Ends
    <3> QED
      BY <1>3, <2>1, <3>4, <3>5, <3>6, FileDone
  <2> QED
    BY <2>2, <2>3
<1>8. \A f \in completed' : f \in Seq(Datum) /\ FileWhole(f, sp, unclosed)
  <2>1. PICK n \in 0 .. Len(Payload) - 1 :
          Completes(IF Rolls THEN {dsFile, SubSeq(Payload, 1, n)}
                             ELSE {dsFile \o SubSeq(Payload, 1, n)})
    BY DEF DsCannotStore
  <2>2. LET g == dsFile \o SubSeq(Payload, 1, n)
        IN g \in Seq(Datum) /\ (g = <<>> \/ FileWhole(g, sp, unclosed))
    BY <1>4, <1>6, <1>7
  <2>3. SubSeq(Payload, 1, n) \in Seq(Datum)
        /\ (SubSeq(Payload, 1, n) = <<>> \/ FileWhole(SubSeq(Payload, 1, n), sp, unclosed))
    <3>1. FileSound(P, sp, unclosed, <<>>) /\ Joins(sp, unclosed, <<>>, Payload[1])
      BY <1>5 DEF FileSound, Joins
    <3>2. <<>> \in Seq(Datum) /\ <<>> \o SubSeq(Payload, 1, n) = SubSeq(Payload, 1, n)
      BY <1>4
    <3> QED
      BY <1>7, <3>1, <3>2
  <2> QED
    BY <1>4, <1>6, <2>1, <2>2, <2>3 DEF Completes
<1>9. Flows(P, sp, unclosed, <<>>, Tail(dsPipe), doing, shot, offset)
  <2>1. Stands(sp, unclosed, Payload, <<>>, doing, shot, offset)
    BY <1>4, <1>5, LastSpoilt
  <2>2. FileSound(P, sp, unclosed, <<>>)
    BY DEF FileSound
  <2> QED
    BY <1>3, <1>4, <2>1, <2>2, Shift
<1>10. spoilt \subseteq spoilt' /\ spoilt' \subseteq Nat /\ <<>> \in Seq(Datum)
  <2>1. spoilt' = spoilt \cup {t}
    BY <1>1, <1>5
  <2>2. spoilt \subseteq Nat
    BY <1>1 DEF PhotoTypes
  <2> QED
    BY <2>1, <2>2
<1> QED
  BY <1>1, <1>2, <1>3, <1>4, <1>8, <1>9, <1>10, DsKeeps

LEMMA DsSkipsKeeps ==
  ASSUME PhotoInv, DsSkips
  PROVE  PhotoInv'
<1>1. PhotoTypes /\ ChunkNext /\ dsPipe' = Tail(dsPipe) /\ dsFile' = dsFile /\ completed' = {}
      /\ spoilt' = spoilt \cup {Payload[1].shot}
      /\ UNCHANGED <<camera, doing, next, gvsp, sending, shot, unclosed>>
  BY DEF PhotoInv, DsSkips
<1>2. PICK sp : sp = spoilt'
  OBVIOUS
<1>3. PICK P : /\ Pictures(P) /\ Photographed(P)
               /\ Flows(P, sp, unclosed, dsFile, dsPipe, doing, shot, offset)
  BY <1>1, <1>2, FlowSpoilt
<1>4. /\ FileSound(P, sp, unclosed, dsFile) /\ dsFile \in Seq(Datum)
      /\ Payload \in Seq(Datum) /\ Payload # <<>> /\ Joins(sp, unclosed, dsFile, Payload[1])
      /\ Payload[1].shot \in Nat /\ Payload[Len(Payload)].shot = Payload[1].shot
      /\ Leaves(Head(dsPipe)) = Payload /\ dsPipe # <<>>
      /\ dsPipe \in Seq(PhotoMessage) /\ Tail(dsPipe) \in Seq(PhotoMessage)
  BY <1>1, <1>3, ChunkHead
<1>5. Flows(P, sp, unclosed, dsFile, Tail(dsPipe), doing, shot, offset)
  <2>1. shot \in Nat /\ Payload[1].shot \in sp
    BY <1>1, <1>2 DEF PhotoTypes
  <2>2. Stands(sp, unclosed, Payload, dsFile, doing, shot, offset)
    BY <1>4, <2>1, Skipped
  <2> QED
    BY <1>3, <1>4, <2>2, Shift
<1>6. spoilt \subseteq spoilt' /\ spoilt' \subseteq Nat
  <2>1. PICK t \in Nat : t = Payload[1].shot /\ spoilt' = spoilt \cup {t}
    BY <1>1, <1>4
  <2>2. spoilt \subseteq Nat
    BY <1>1 DEF PhotoTypes
  <2> QED
    BY <2>1, <2>2
<1> QED
  BY <1>1, <1>2, <1>3, <1>4, <1>5, <1>6, DsKeeps

LEMMA DsClosesKeeps ==
  ASSUME PhotoInv, DsCloses
  PROVE  PhotoInv'
<1>1. /\ PhotoTypes /\ dsPipe # <<>> /\ Head(dsPipe).kind = "CLOSE"
      /\ dsPipe' = Tail(dsPipe) /\ dsFile' = <<>> /\ completed' \subseteq {dsFile}
      /\ UNCHANGED <<camera, doing, next, gvsp, sending, shot, spoilt, unclosed>>
  BY DEF PhotoInv, DsCloses, CloseNext, Completes, fates
<1>2. PICK P : /\ Pictures(P) /\ Photographed(P)
               /\ Flows(P, spoilt, unclosed, dsFile, dsPipe, doing, shot, offset)
  BY DEF PhotoInv, Flow
<1>3. dsPipe \in Seq(PhotoMessage) /\ dsFile \in Seq(Datum) /\ <<>> \in Seq(Datum)
  BY <1>1 DEF PhotoTypes
<1>4. dsPipe[1] = Head(dsPipe) /\ 1 \in 1 .. Len(dsPipe) /\ Tail(dsPipe) \in Seq(PhotoMessage)
  BY <1>1, <1>3
<1>5. Ends(spoilt, dsFile) /\ FileSound(P, spoilt, unclosed, dsFile)
  BY <1>1, <1>2, <1>4 DEF Flows, PipeSound, MessageFits, Before
<1>6. FileWhole(dsFile, spoilt, unclosed)
  BY <1>2, <1>3, <1>5, FileDone
<1>7. Flows(P, spoilt, unclosed, <<>>, Tail(dsPipe), doing, shot, offset)
  <2>1. Stands(spoilt, unclosed, Leaves(Head(dsPipe)), <<>>, doing, shot, offset)
    BY <1>1 DEF Stands, Leaves
  <2>2. FileSound(P, spoilt, unclosed, <<>>)
    BY DEF FileSound
  <2> QED
    BY <1>1, <1>2, <1>3, <2>1, <2>2, Shift
<1>8. spoilt \subseteq spoilt' /\ spoilt' \subseteq Nat
  BY <1>1 DEF PhotoTypes
<1>9. /\ completed' \subseteq Seq(Datum)
      /\ \A f \in completed' : FileWhole(f, spoilt', unclosed)
  BY <1>1, <1>3, <1>6
<1> QED
  BY <1>1, <1>2, <1>3, <1>4, <1>7, <1>8, <1>9, DsKeeps

LEMMA DsClosesEarlyKeeps ==
  ASSUME PhotoInv, DsClosesEarly
  PROVE  PhotoInv'
<1>1. /\ PhotoTypes /\ dsPipe' = dsPipe /\ dsFile' = <<>> /\ completed' \subseteq {dsFile}
      /\ spoilt' = spoilt \cup CutOff
      /\ UNCHANGED <<camera, doing, next, gvsp, sending, shot, unclosed>>
  BY DEF PhotoInv, DsClosesEarly, Completes
<1>2. PICK sp : sp = spoilt'
  OBVIOUS
<1>3. PICK P : /\ Pictures(P) /\ Photographed(P)
               /\ Flows(P, sp, unclosed, dsFile, dsPipe, doing, shot, offset)
  BY <1>1, <1>2, FlowSpoilt
<1>4. dsPipe \in Seq(PhotoMessage) /\ dsFile \in Seq(Datum) /\ <<>> \in Seq(Datum)
  BY <1>1 DEF PhotoTypes
<1>5. /\ Ends(sp, dsFile)
      /\ dsPipe = <<>> => Awaits(sp, unclosed, <<>>, doing, shot, offset)
      /\ dsPipe # <<>> => MessageFits(P, sp, unclosed, <<>>, dsPipe[1])
  BY <1>1, <1>2, <1>3, FileCut
<1>6. FileWhole(dsFile, sp, unclosed)
  BY <1>3, <1>4, <1>5, FileDone DEF Flows
<1>7. Flows(P, sp, unclosed, <<>>, dsPipe, doing, shot, offset)
  <2>1. FileSound(P, sp, unclosed, <<>>)
    BY DEF FileSound
  <2> QED
    BY <1>3, <1>4, <1>5, <2>1, FileChanged
<1>8. spoilt \subseteq spoilt' /\ spoilt' \subseteq Nat
  <2>1. spoilt \subseteq Nat /\ CutOff \subseteq Nat
    <3>1. DOMAIN dsFile = 1 .. Len(dsFile)
      BY <1>4
    <3> QED
      BY <1>1, <1>4, <3>1, Items DEF PhotoTypes, CutOff
  <2> QED
    BY <1>1, <2>1
<1>9. /\ completed' \subseteq Seq(Datum)
      /\ \A f \in completed' : FileWhole(f, spoilt', unclosed)
  BY <1>1, <1>2, <1>4, <1>6
<1> QED
  BY <1>1, <1>2, <1>3, <1>4, <1>7, <1>8, <1>9, DsKeeps

LEMMA DsSwitchedKeeps ==
  ASSUME PhotoInv, NEW on, DsSwitched(on)
  PROVE  PhotoInv'
<1>1. /\ PhotoTypes /\ completed' = {} /\ UNCHANGED <<dsPipe, dsFile, spoilt>>
      /\ UNCHANGED <<camera, doing, next, gvsp, sending, shot, unclosed>>
  BY DEF PhotoInv, DsSwitched, fates
<1>2. PICK P : /\ Pictures(P) /\ Photographed(P)
               /\ Flows(P, spoilt, unclosed, dsFile, dsPipe, doing, shot, offset)
  BY DEF PhotoInv, Flow
<1>3. /\ dsPipe' \in Seq(PhotoMessage) /\ dsFile' \in Seq(Datum)
      /\ spoilt \subseteq spoilt' /\ spoilt' \subseteq Nat
  BY <1>1 DEF PhotoTypes
<1> QED
  BY <1>1, <1>2, <1>3, DsKeeps

-----------------------------------------------------------------------------
(***************************************************************************)
(* PAYLOADMC captures.                                                     *)
(***************************************************************************)
LEMMA WholeKept ==
  ASSUME PhotoWhole, completed' = completed, spoilt \subseteq spoilt', unclosed \subseteq unclosed'
  PROVE  PhotoWhole'
<1>1. PICK sp, un : sp = spoilt' /\ un = unclosed'
  OBVIOUS
<1>2. ASSUME NEW f \in completed PROVE FileWhole(f, sp, un)
  <2>1. FileWhole(f, spoilt, unclosed)
    BY DEF PhotoWhole, FileWhole
  <2> QED
    BY <1>1, <2>1, MoreIsSound
<1> QED
  BY <1>1, <1>2 DEF PhotoWhole, FileWhole

\* A command to the cameras, or nothing of this.
LEMMA CamerasKeep ==
  ASSUME PhotoInv, streaming' \subseteq Cameras,
         UNCHANGED <<doing, next, gvsp, sending, ds, fates>>
  PROVE  PhotoInv'
<1>1. UNCHANGED <<picture, offset, dsPipe, dsFile, completed, shot, spoilt, unclosed>>
  BY DEF sending, ds, fates
<1>2. PhotoTypes'
  BY <1>1 DEF PhotoInv, PhotoTypes
<1>3. FrameSound'
  BY <1>1 DEF PhotoInv, FrameSound, FromOne
<1>4. PictureSound'
  BY <1>1 DEF PhotoInv, PictureSound
<1>5. Flow'
  BY <1>1 DEF PhotoInv, Flow, Photographed
<1>6. PhotoWhole'
  BY <1>1, WholeKept DEF PhotoInv
<1> QED
  BY <1>2, <1>3, <1>4, <1>5, <1>6 DEF PhotoInv

\* CaptureFrame is as careful as it can be: streams of two cameras it reads as one.
LEMMA CaptureFrameKeeps ==
  ASSUME PhotoInv, doing = "NONE", CaptureFrame
  PROVE  PhotoInv'
<1>1. CASE ~ imaging
  <2>1. UNCHANGED photoVars
    BY <1>1 DEF CaptureFrame
  <2> QED
    BY <2>1, CamerasKeep DEF photoVars, camera, PhotoInv, PhotoTypes
<1>2. CASE imaging
  <2>1. /\ doing' = "RECEIVE" /\ gvsp' = NoFrame /\ shot' = shot + 1
        /\ next' \in [Cameras -> 0 .. LastPacket]
        /\ \A c \in Cameras : c \notin streaming => next'[c] = LastPacket
        /\ spoilt' = IF Cardinality(streaming) > 1 THEN spoilt \cup {shot + 1} ELSE spoilt
        /\ UNCHANGED <<streaming, picture, offset, dsPipe, dsFile, completed, unclosed>>
    BY <1>2 DEF CaptureFrame, camera, sending, ds
  <2>2. shot \in Nat /\ spoilt \subseteq Nat /\ streaming \subseteq Cameras
    BY DEF PhotoInv, PhotoTypes
  <2>3. spoilt \subseteq spoilt' /\ spoilt' \subseteq Nat
    BY <2>1, <2>2
  <2>4. PhotoTypes'
    <3>1. shot' \in Nat
      BY <2>1, <2>2
    <3>2. gvsp' \in [frame : Seq(Datum), have : BOOLEAN, block : Nat]
      BY <2>1, NoFrameIs
    <3>3. PhotoTypes
      BY DEF PhotoInv
    <3> QED
      BY <2>1, <2>3, <3>1, <3>2, <3>3 DEF PhotoTypes
  <2>5. PictureSound'
    BY <2>1 DEF PictureSound
  <2>6. Flow'
    <3>1. PICK sp : sp = spoilt'
      OBVIOUS
    <3>2. PICK P : /\ Pictures(P) /\ Photographed(P)
                   /\ Flows(P, sp, unclosed, dsFile, dsPipe, doing, shot, offset)
      BY <2>3, <3>1, FlowSpoilt
    <3>3. Photographed(P)'
      <4>1. \A s \in Nat : s > shot + 1 => s > shot
        BY <2>2
      <4>2. shot + 1 \in Nat /\ shot + 1 > shot
        BY <2>2
      <4> QED
        BY <2>1, <3>2, <4>1, <4>2 DEF Photographed
    <3>4. PICK f : f = Before(dsPipe, dsFile, Len(dsPipe) + 1)
      OBVIOUS
    <3>5. Awaits(sp, unclosed, f, "RECEIVE", shot + 1, offset)
      <4>1. Awaits(sp, unclosed, f, "NONE", shot, offset)
        BY <3>2, <3>4 DEF Flows
      <4>2. ASSUME f # <<>> PROVE f[Len(f)].shot < shot + 1
        <5>1. f \in Seq(Datum)
          <6>1. dsPipe \in Seq(PhotoMessage) /\ dsFile \in Seq(Datum) /\ Len(dsPipe) \in Nat
            BY DEF PhotoInv, PhotoTypes
          <6>2. CASE Len(dsPipe) = 0
            BY <3>4, <6>1, <6>2 DEF Before
          <6>3. CASE Len(dsPipe) # 0
            <7>1. /\ Len(dsPipe) + 1 # 1 /\ (Len(dsPipe) + 1) - 1 = Len(dsPipe)
                  /\ dsPipe[Len(dsPipe)] \in PhotoMessage
              BY <6>1, <6>3
            <7> QED
              BY <3>4, <4>2, <7>1 DEF Before, Leaves, PhotoMessage
          <6> QED
            BY <6>2, <6>3
        <5>2. PICK t \in Nat : t = f[Len(f)].shot
          BY <4>2, <5>1, Items
        <5>3. t < shot \/ t = shot
          BY <4>1, <4>2, <5>2 DEF Awaits
        <5>4. t < shot + 1
          BY <2>2, <5>3
        <5> QED
          BY <5>2, <5>4
      <4> QED
        BY <4>1, <4>2 DEF Awaits
    <3>6. Flows(P, sp, unclosed, dsFile, dsPipe, "RECEIVE", shot + 1, offset)
      BY <3>2, <3>4, <3>5 DEF Flows
    <3> QED
      BY <2>1, <3>1, <3>2, <3>3, <3>6 DEF Flow
  <2>7. PhotoWhole'
    BY <2>1, <2>3, WholeKept DEF PhotoInv
  <2>8. ASSUME shot' \notin spoilt'
        PROVE  (\A c \in Cameras : next'[c] = LastPacket) \/ \E c \in Cameras : FromOne(c)'
    <3>1. Cardinality(streaming) \in Nat /\ ~ Cardinality(streaming) > 1 /\ IsFiniteSet(streaming)
      <4>1. IsFiniteSet(streaming)
        BY <2>2, PhotoAssumption, FS_Subset
      <4> QED
        BY <2>1, <2>8, <4>1, FS_CardinalityType
    <3>2. CASE streaming = {}
      BY <2>1, <3>2
    <3>3. CASE streaming # {}
      <4>1. PICK c \in streaming : TRUE
        BY <3>3
      <4>2. ASSUME NEW d \in streaming, d # c PROVE FALSE
        <5>1. {c, d} \subseteq streaming /\ Cardinality({c, d}) = 2
          <6>1. IsFiniteSet({c}) /\ Cardinality({c}) = 1 /\ {c, d} = {c} \cup {d}
            BY FS_Singleton
          <6> QED
            BY <4>2, <6>1, FS_AddElement
        <5> QED
          BY <3>1, <5>1, FS_Subset
      <4>3. \A d \in Cameras \ {c} : next'[d] = LastPacket
        BY <2>1, <4>2
      <4>4. FromOne(c)'
        BY <2>1, <4>3, NoFrameIs DEF FromOne, InOrder
      <4> QED
        BY <2>2, <4>4
    <3> QED
      BY <3>2, <3>3
  <2>9. FrameSound'
    BY <2>1, <2>8, NoFrameIs, Sizes DEF FrameSound
  <2> QED
    BY <2>4, <2>5, <2>6, <2>7, <2>9 DEF PhotoInv
<1> QED
  BY <1>1, <1>2

LEMMA CaptureFailsKeeps ==
  ASSUME PhotoInv, CaptureFails
  PROVE  PhotoInv'
<1>1. /\ doing = "RECEIVE" /\ doing' = "NONE" /\ gvsp' = NoFrame
      /\ UNCHANGED <<streaming, next, picture, offset, dsPipe, dsFile, completed>>
      /\ UNCHANGED <<shot, spoilt, unclosed>>
  BY DEF CaptureFails, camera, sending, ds, fates
<1>2. PhotoTypes'
  BY <1>1, NoFrameIs DEF PhotoInv, PhotoTypes
<1>3. FrameSound' /\ PictureSound'
  BY <1>1, NoFrameIs, Sizes DEF FrameSound, PictureSound
<1>4. Flow'
  <2>1. PICK P : /\ Pictures(P) /\ Photographed(P)
                 /\ Flows(P, spoilt, unclosed, dsFile, dsPipe, "RECEIVE", shot, offset)
    BY <1>1 DEF PhotoInv, Flow
  <2>2. Photographed(P)'
    BY <1>1, <2>1 DEF Photographed
  <2>3. Flows(P, spoilt, unclosed, dsFile, dsPipe, "NONE", shot, offset)
    BY <2>1 DEF Flows, Awaits
  <2> QED
    BY <1>1, <2>1, <2>2, <2>3 DEF Flow
<1>5. PhotoWhole'
  BY <1>1, WholeKept DEF PhotoInv
<1> QED
  BY <1>2, <1>3, <1>4, <1>5 DEF PhotoInv

LEMMA ArriveKeeps ==
  ASSUME PhotoInv, NEW c \in Cameras, Arrive(c) \/ LosePacket(c)
  PROVE  PhotoInv'
<1>1. /\ doing = "RECEIVE" /\ next[c] < LastPacket /\ next' = [next EXCEPT ![c] = @ + 1]
      /\ UNCHANGED <<camera, ds, fates>>
  BY DEF Arrive, LosePacket
<1>2. /\ PhotoTypes /\ FrameSound /\ Flow /\ PhotoWhole
      /\ UNCHANGED <<streaming, dsPipe, dsFile, completed, shot, spoilt, unclosed>>
  BY <1>1 DEF PhotoInv, ds, camera, fates
<1>3. PhotoWhole'
  BY <1>2, WholeKept
<1>4. PICK P : /\ Pictures(P) /\ Photographed(P)
               /\ Flows(P, spoilt, unclosed, dsFile, dsPipe, "RECEIVE", shot, offset)
  BY <1>1, <1>2 DEF Flow
<1>5. CASE /\ gvsp' = gvsp \/ gvsp' = Received(Packet(c, next[c]))
           /\ UNCHANGED <<doing, sending>>
  <2>1. FrameSound' /\ next' \in [Cameras -> 0 .. LastPacket]
        /\ gvsp' \in [frame : Seq(Datum), have : BOOLEAN, block : Nat]
    BY <1>1, <1>2, <1>5, FrameKept
  <2>2. PhotoTypes'
    BY <1>2, <1>5, <2>1 DEF PhotoTypes, sending
  <2>3. PictureSound'
    BY <1>1, <1>5 DEF PictureSound
  <2>4. Flow'
    BY <1>1, <1>2, <1>4, <1>5 DEF Flow, Photographed, sending
  <2> QED
    BY <1>3, <2>1, <2>2, <2>3, <2>4 DEF PhotoInv
<1>6. CASE /\ Complete(Packet(c, next[c]))
           /\ picture' = <<PgmHeader>> \o gvsp.frame /\ offset' = 0
           /\ doing' = "SEND" /\ gvsp' = NoFrame
  <2>1. next' \in [Cameras -> 0 .. LastPacket] /\ shot \in Nat
    BY <1>1, <1>2, Sizes DEF PhotoTypes
  <2>2. PgmHeader \in Datum /\ PgmHeader.shot = shot
    BY <1>2 DEF PhotoTypes, Datum, PgmHeader
  <2>3. /\ gvsp.frame \in Seq(Datum) /\ Len(gvsp.frame) = FrameSize
        /\ \A i \in 1 .. Len(gvsp.frame) : gvsp.frame[i].shot = shot
    BY <1>2, <1>6, Sizes DEF PhotoTypes, FrameSound, Complete
  <2>4. /\ picture' \in Seq(Datum) /\ Len(picture') = FrameSize + 1 /\ picture'[1] = PgmHeader
        /\ \A i \in 2 .. FrameSize + 1 : picture'[i] = gvsp.frame[i - 1]
    BY <1>6, <2>2, <2>3, Sizes
  <2>5. ASSUME NEW i \in 1 .. Len(picture') PROVE picture'[i].shot = shot
    <3>1. CASE i = 1
      BY <2>2, <2>4, <3>1
    <3>2. CASE i # 1
      BY <2>3, <2>4, <2>5, <3>2, Sizes
    <3> QED
      BY <3>1, <3>2
  <2>6. ASSUME shot \notin spoilt PROVE IsPicture(picture', shot)
    <3>1. next[c] \in 0 .. LastPacket - 1
      BY <1>1, <1>2, Sizes DEF PhotoTypes
    <3>2. PICK d \in Cameras : FromOne(d)
      BY <1>1, <1>2, <2>6, <3>1, Sizes DEF FrameSound
    <3>3. gvsp.block < Blocks
      <4>1. gvsp.block = next[c] \div PerBlock
        BY <1>6 DEF Complete, OfThisFrame, Packet
      <4>2. gvsp.block \in 0 .. Blocks - 1
        BY <3>1, <4>1, PacketIs
      <4> QED
        BY <4>2, Sizes
    <3> QED
      BY <1>2, <1>6, <2>3, <3>2, <3>3, FrameIsPicture
  <2>7. PictureSound'
    <3>1. picture' # <<>> /\ offset' < Len(picture')
      BY <1>6, <2>4, Sizes
    <3>2. shot' \in spoilt' \/ IsPicture(picture', shot')
      BY <1>2, <2>6
    <3> QED
      BY <1>2, <2>5, <3>1, <3>2 DEF PictureSound
  <2>8. FrameSound'
    BY <1>6, NoFrameIs, Sizes DEF FrameSound
  <2>9. PhotoTypes'
    BY <1>2, <1>6, <2>1, <2>4, NoFrameIs DEF PhotoTypes
  <2>10. Flow'
    <3>1. PICK p \in Seq(Datum) : p = picture'
      BY <2>4
    <3>2. PICK Q : Q = IF shot \in spoilt THEN P ELSE [P EXCEPT ![shot] = p]
      OBVIOUS
    <3>3. P \in [Nat -> Seq(Datum)] /\ P[shot] = <<>>
      BY <1>1, <1>4 DEF Pictures, Photographed
    <3>4. /\ Q \in [Nat -> Seq(Datum)]
          /\ \A s \in Nat : Q[s] = IF s = shot /\ shot \notin spoilt THEN p ELSE P[s]
      BY <2>1, <3>2, <3>3
    <3>5. Pictures(Q)
      BY <1>4, <2>6, <3>1, <3>4 DEF Pictures
    <3>6. Photographed(Q)'
      <4>1. \A s \in Nat : s > shot => s # shot
        BY <2>1
      <4> QED
        BY <1>2, <1>4, <1>6, <2>1, <3>1, <3>4, <4>1 DEF Photographed
    <3>7. FileSound(Q, spoilt, unclosed, dsFile) /\ PipeSound(Q, spoilt, unclosed, dsFile, dsPipe)
      <4>1. \A s \in Nat : P[s] # <<>> => Q[s] = P[s]
        BY <3>3, <3>4
      <4>2. dsFile \in Seq(Datum) /\ dsPipe \in Seq(PhotoMessage)
        BY <1>2 DEF PhotoTypes
      <4>3. FileSound(P, spoilt, unclosed, dsFile) /\ PipeSound(P, spoilt, unclosed, dsFile, dsPipe)
        BY <1>4 DEF Flows
      <4> QED
        BY <3>3, <3>4, <4>1, <4>2, <4>3, NewPicture
    <3>8. Awaits(spoilt, unclosed, Before(dsPipe, dsFile, Len(dsPipe) + 1), "SEND", shot, 0)
      <4>1. PICK f : f = Before(dsPipe, dsFile, Len(dsPipe) + 1)
        OBVIOUS
      <4>2. Awaits(spoilt, unclosed, f, "RECEIVE", shot, offset)
        BY <1>4, <4>1 DEF Flows
      <4>3. ASSUME f # <<>>
            PROVE  /\ f[Len(f)].shot < shot /\ f[Len(f)].shot \in unclosed
                   /\ f[Len(f)].shot \in spoilt \/ f[Len(f)].k = FrameSize
                   /\ f[Len(f)].shot # shot
        <5>1. f[Len(f)].shot < shot /\ f[Len(f)].shot \in unclosed
              /\ (f[Len(f)].shot \in spoilt \/ f[Len(f)].k = FrameSize)
          BY <4>2, <4>3 DEF Awaits
        <5>2. unclosed \subseteq Nat
          BY <1>2 DEF PhotoTypes
        <5>3. PICK t \in Nat : t = f[Len(f)].shot
          BY <5>1, <5>2
        <5>4. t # shot
          BY <2>1, <5>1, <5>3
        <5> QED
          BY <5>1, <5>3, <5>4
      <4> QED
        BY <4>1, <4>3 DEF Awaits
    <3> QED
      BY <1>2, <1>6, <3>5, <3>6, <3>7, <3>8 DEF Flow, Flows
  <2> QED
    BY <1>3, <2>7, <2>8, <2>9, <2>10 DEF PhotoInv
<1> QED
  BY <1>1, <1>5, <1>6 DEF Arrive, LosePacket

-----------------------------------------------------------------------------
(***************************************************************************)
(* PAYLOADMC sends to DS.                                                  *)
(***************************************************************************)
\* The chunk at hand is not empty and goes on where the last one ended.
LEMMA ChunkIs ==
  ASSUME PhotoTypes, PictureSound, doing = "SEND", NEW P, Pictures(P), Photographed(P)
  PROVE  /\ Chunk \in Seq(Datum) /\ Chunk # <<>> /\ ChunkSound(P, spoilt, Chunk)
         /\ Chunk[1].shot = shot /\ Chunk[Len(Chunk)].shot = shot
         /\ shot \notin spoilt =>
              /\ Chunk[1].k = offset
              /\ Chunk[Len(Chunk)].k + 1 =
                   IF offset + ChunkSize < FrameSize + 1 THEN offset + ChunkSize ELSE FrameSize + 1
              /\ Len(picture) = FrameSize + 1
<1> DEFINE n == IF offset + ChunkSize < Len(picture) THEN offset + ChunkSize ELSE Len(picture)
<1>1. /\ picture \in Seq(Datum) /\ offset \in Nat /\ Len(picture) \in Nat /\ offset < Len(picture)
      /\ \A i \in 1 .. Len(picture) : picture[i].shot = shot
      /\ shot \in Nat
  BY DEF PhotoTypes, PictureSound
<1>2. n \in Nat /\ offset < n /\ n <= Len(picture)
  BY <1>1, Sizes
<1> HIDE DEF n
<1>3. Chunk = SubSeq(picture, offset + 1, n)
  BY DEF Chunk, n
<1>4. PICK e \in Seq(Datum) :
        /\ e = Chunk /\ Len(e) = n - offset /\ \A i \in 1 .. n - offset : e[i] = picture[offset + i]
  <2>1. /\ Chunk \in Seq(Datum) /\ Len(Chunk) = n - offset
        /\ \A i \in 1 .. n - offset : Chunk[i] = picture[offset + i]
    BY <1>1, <1>2, <1>3
  <2> QED
    BY <2>1
<1>5. PICK m \in Nat : m = n - offset /\ m >= 1 /\ offset + m <= Len(picture) /\ offset + m = n
  <2>1. /\ n - offset \in Nat /\ n - offset >= 1 /\ offset + (n - offset) <= Len(picture)
        /\ offset + (n - offset) = n
    BY <1>1, <1>2
  <2> QED
    BY <2>1
<1>6. e # <<>> /\ Len(e) = m /\ 1 \in 1 .. m /\ m \in 1 .. m
  BY <1>4, <1>5
<1>7. ASSUME NEW i \in 1 .. m PROVE offset + i \in 1 .. Len(picture) /\ e[i] = picture[offset + i]
  <2>1. offset + i \in 1 .. Len(picture)
    BY <1>1, <1>5, <1>7
  <2>2. e[i] = picture[offset + i]
    BY <1>4, <1>5, <1>7
  <2> QED
    BY <2>1, <2>2
<1>8. \A i \in 1 .. m : e[i].shot = shot
  BY <1>1, <1>7
<1>9. ASSUME shot \notin spoilt
      PROVE  /\ e[1].k = offset /\ e[m].k + 1 = n /\ Len(picture) = FrameSize + 1
             /\ PieceOf(P[shot], e, offset)
  <2>1. IsPicture(picture, shot) /\ P[shot] = picture
    BY <1>9 DEF PictureSound, Photographed
  <2>2. /\ Len(picture) = FrameSize + 1
        /\ \A i \in 1 .. FrameSize + 1 : picture[i].k = i - 1
    BY <1>1, <2>1, PictureIs
  <2>3. PieceOf(P[shot], e, offset)
    BY <1>6, <1>7, <2>1 DEF PieceOf
  <2>4. e[1].k = (offset + 1) - 1 /\ e[m].k = (offset + m) - 1
    BY <1>6, <1>7, <2>2
  <2>5. (offset + 1) - 1 = offset /\ ((offset + m) - 1) + 1 = n
    BY <1>1, <1>5
  <2> QED
    BY <2>2, <2>3, <2>4, <2>5
<1>10. ChunkSound(P, spoilt, e)
  BY <1>6, <1>8, <1>9 DEF ChunkSound
<1> QED
  BY <1>4, <1>6, <1>8, <1>9, <1>10 DEF n

\* A message comes behind those in the pipe.
LEMMA Sent ==
  ASSUME NEW P, NEW sp, NEW un, NEW f, NEW pipe \in Seq(PhotoMessage), NEW d, NEW s, NEW o,
         Flows(P, sp, un, f, pipe, d, s, o), NEW msg \in PhotoMessage,
         MessageFits(P, sp, un, Before(pipe, f, Len(pipe) + 1), msg),
         NEW e, NEW u, Awaits(sp, un, Leaves(msg), e, s, u)
  PROVE  Flows(P, sp, un, f, Append(pipe, msg), e, s, u)
<1>1. PICK q \in Seq(PhotoMessage), n \in Nat :
        /\ q = Append(pipe, msg) /\ n = Len(pipe) /\ Len(q) = n + 1 /\ q[n + 1] = msg
        /\ \A i \in 1 .. n : q[i] = pipe[i]
  <2>1. /\ Append(pipe, msg) \in Seq(PhotoMessage) /\ Len(pipe) \in Nat
        /\ Len(Append(pipe, msg)) = Len(pipe) + 1 /\ Append(pipe, msg)[Len(pipe) + 1] = msg
        /\ \A i \in 1 .. Len(pipe) : Append(pipe, msg)[i] = pipe[i]
    OBVIOUS
  <2> QED
    BY <2>1
<1>2. ASSUME NEW i \in 1 .. n + 1 PROVE Before(q, f, i) = Before(pipe, f, i)
  <2>1. CASE i = 1
    BY <2>1 DEF Before
  <2>2. CASE i # 1
    <3>1. i - 1 \in 1 .. n
      BY <1>2, <2>2
    <3> QED
      BY <1>1, <2>2, <3>1 DEF Before
  <2> QED
    BY <2>1, <2>2
<1>3. ASSUME NEW i \in 1 .. n + 1 PROVE MessageFits(P, sp, un, Before(q, f, i), q[i])
  <2>1. CASE i \in 1 .. n
    BY <1>1, <1>2, <2>1 DEF Flows, PipeSound
  <2>2. CASE i = n + 1
    BY <1>1, <1>2, <2>2
  <2> QED
    BY <1>3, <2>1, <2>2
<1>4. Before(q, f, Len(q) + 1) = Leaves(msg)
  <2>1. Len(q) + 1 # 1 /\ (Len(q) + 1) - 1 = n + 1
    BY <1>1
  <2> QED
    BY <1>1, <2>1 DEF Before
<1> QED
  BY <1>1, <1>3, <1>4 DEF Flows, PipeSound

\* What goes on to the next message, sent or lost.
LEMMA ProceedKeeps ==
  ASSUME PhotoTypes, FrameSound, PictureSound, doing \in {"SEND", "CLOSE"}, Proceed,
         spoilt \subseteq spoilt', UNCHANGED <<gvsp, shot>>, NEW P, Photographed(P)
  PROVE  /\ picture' \in Seq(Datum) /\ offset' \in Nat /\ doing' \in {"NONE", "SEND", "CLOSE"}
         /\ FrameSound' /\ PictureSound' /\ Photographed(P)'
<1>1. picture \in Seq(Datum) /\ offset \in Nat /\ Len(picture) \in Nat
  BY DEF PhotoTypes
<1>2. CASE doing = "CLOSE"
  <2>1. doing' = "NONE" /\ picture' = <<>> /\ offset' = 0
    BY <1>2 DEF Proceed
  <2> QED
    BY <2>1 DEF FrameSound, PictureSound, Photographed
<1>3. CASE doing = "SEND"
  <2>1. /\ offset' = offset + ChunkSize /\ picture' = picture
        /\ doing' = IF offset + ChunkSize < Len(picture) THEN "SEND" ELSE "CLOSE"
    BY <1>3 DEF Proceed
  <2>2. offset' \in Nat
    BY <1>1, <2>1, Sizes
  <2>3. FrameSound'
    BY <2>1 DEF FrameSound
  <2>4. PictureSound'
    BY <1>3, <2>1 DEF PictureSound
  <2>5. Photographed(P)'
    BY <1>3, <2>1 DEF Photographed
  <2> QED
    BY <1>1, <2>1, <2>2, <2>3, <2>4, <2>5
<1> QED
  BY <1>2, <1>3

\* Where the message at hand is lost, its capture is spoilt or left unclosed.
LEMMA LossKeeps ==
  ASSUME PhotoInv, doing \in {"SEND", "CLOSE"}, Lost, Proceed,
         UNCHANGED <<streaming, next, gvsp, dsPipe, dsFile, completed, shot>>
  PROVE  PhotoInv'
<1>1. PhotoTypes /\ FrameSound /\ PictureSound /\ PhotoWhole
  BY DEF PhotoInv
<1>2. /\ spoilt \subseteq spoilt' /\ spoilt' \subseteq Nat
      /\ unclosed \subseteq unclosed' /\ unclosed' \subseteq Nat /\ shot \in Nat
  BY <1>1 DEF Lost, PhotoTypes
<1>3. PICK P : /\ Pictures(P) /\ Photographed(P)
               /\ Flows(P, spoilt, unclosed, dsFile, dsPipe, doing, shot, offset)
  BY DEF PhotoInv, Flow
<1>4. /\ picture' \in Seq(Datum) /\ offset' \in Nat /\ doing' \in {"NONE", "SEND", "CLOSE"}
      /\ FrameSound' /\ PictureSound' /\ Photographed(P)'
  BY <1>1, <1>2, <1>3, ProceedKeeps
<1>5. PhotoTypes'
  BY <1>1, <1>2, <1>4 DEF PhotoTypes
<1>6. PICK sp, un, e, u : sp = spoilt' /\ un = unclosed' /\ e = doing' /\ u = offset'
  OBVIOUS
<1>7. Flows(P, sp, un, dsFile, dsPipe, doing, shot, offset)
  BY <1>2, <1>3, <1>6, MoreFlows
<1>8. PICK f : f = Before(dsPipe, dsFile, Len(dsPipe) + 1)
  OBVIOUS
<1>9. Awaits(sp, un, f, doing, shot, offset)
  BY <1>7, <1>8 DEF Flows
<1>10. Awaits(sp, un, f, e, shot, u)
  <2>1. CASE doing = "SEND"
    <3>1. shot \in sp /\ e \in {"SEND", "CLOSE"}
      BY <1>6, <2>1 DEF Lost, Proceed
    <3> QED
      BY <1>9, <2>1, <3>1 DEF Awaits
  <2>2. CASE doing = "CLOSE"
    <3>1. shot \in un /\ e = "NONE"
      BY <1>6, <2>2 DEF Lost, Proceed
    <3> QED
      BY <1>9, <2>2, <3>1 DEF Awaits
  <2> QED
    BY <2>1, <2>2
<1>11. Flows(P, sp, un, dsFile, dsPipe, e, shot, u)
  BY <1>7, <1>8, <1>10 DEF Flows
<1>12. Flow'
  BY <1>3, <1>4, <1>6, <1>11 DEF Flow
<1>13. PhotoWhole'
  BY <1>1, <1>2, WholeKept
<1> QED
  BY <1>4, <1>5, <1>12, <1>13 DEF PhotoInv

LEMMA TransmitFailsKeeps ==
  ASSUME PhotoInv, TransmitFails
  PROVE  PhotoInv'
<1>1. /\ doing \in {"SEND", "CLOSE"}
      /\ UNCHANGED <<streaming, next, gvsp, dsPipe, dsFile, completed, shot>>
  BY DEF TransmitFails, camera, ds
<1>2. CASE UNCHANGED <<doing, picture, offset, spoilt, unclosed>>
  <2>1. PhotoTypes' /\ FrameSound'
    BY <1>1, <1>2 DEF PhotoInv, PhotoTypes, FrameSound
  <2>2. PictureSound'
    BY <1>1, <1>2 DEF PhotoInv, PictureSound
  <2>3. Flow'
    BY <1>1, <1>2 DEF PhotoInv, Flow, Photographed
  <2>4. PhotoWhole'
    BY <1>1, <1>2, WholeKept DEF PhotoInv
  <2> QED
    BY <2>1, <2>2, <2>3, <2>4 DEF PhotoInv
<1>3. CASE Lost /\ Proceed
  BY <1>1, <1>3, LossKeeps
<1> QED
  BY <1>2, <1>3 DEF TransmitFails

LEMMA TransmitKeeps ==
  ASSUME PhotoInv, Transmit
  PROVE  PhotoInv'
<1> DEFINE m == IF doing = "SEND" THEN [kind |-> "CHUNK", data |-> Chunk] ELSE [kind |-> "CLOSE"]
<1>1. /\ doing \in {"SEND", "CLOSE"} /\ ToDs(m) /\ Proceed
      /\ UNCHANGED <<streaming, next, gvsp, dsFile, completed, shot>>
  BY DEF Transmit, camera
<1>2. PhotoTypes /\ FrameSound /\ PictureSound /\ PhotoWhole
  BY DEF PhotoInv
<1>3. CASE Lost /\ UNCHANGED dsPipe
  BY <1>1, <1>3, LossKeeps
<1>4. CASE dsPipe' = Append(dsPipe, m) /\ UNCHANGED <<spoilt, unclosed>>
  <2>1. PICK P : /\ Pictures(P) /\ Photographed(P)
                 /\ Flows(P, spoilt, unclosed, dsFile, dsPipe, doing, shot, offset)
    BY DEF PhotoInv, Flow
  <2>2. PICK msg \in PhotoMessage : msg = m
    <3>1. m \in PhotoMessage
      BY <1>1, <1>2, <2>1, ChunkIs DEF PhotoMessage
    <3> QED
      BY <3>1
  <2>3. /\ picture' \in Seq(Datum) /\ offset' \in Nat /\ doing' \in {"NONE", "SEND", "CLOSE"}
        /\ FrameSound' /\ PictureSound' /\ Photographed(P)'
    BY <1>1, <1>2, <1>4, <2>1, ProceedKeeps
  <2>4. dsPipe' = Append(dsPipe, msg) /\ dsPipe \in Seq(PhotoMessage) /\ dsPipe' \in Seq(PhotoMessage)
    BY <1>2, <1>4, <2>2 DEF PhotoTypes
  <2>5. PhotoTypes'
    BY <1>1, <1>2, <1>4, <2>3, <2>4 DEF PhotoTypes
  <2>6. PhotoWhole'
    BY <1>1, <1>2, <1>4, WholeKept
  <2>7. PICK f, e, u : f = Before(dsPipe, dsFile, Len(dsPipe) + 1) /\ e = doing' /\ u = offset'
    OBVIOUS
  <2>8. Awaits(spoilt, unclosed, f, doing, shot, offset)
    BY <2>1, <2>7 DEF Flows
  <2>9. MessageFits(P, spoilt, unclosed, f, msg) /\ Awaits(spoilt, unclosed, Leaves(msg), e, shot, u)
    <3>1. CASE doing = "CLOSE"
      <4>1. msg = [kind |-> "CLOSE"] /\ e = "NONE"
        BY <1>1, <2>2, <2>7, <3>1 DEF Proceed
      <4>2. Ends(spoilt, f)
        BY <2>8, <3>1 DEF Awaits, Ends
      <4> QED
        BY <4>1, <4>2 DEF MessageFits, Leaves, Awaits
    <3>2. CASE doing = "SEND"
      <4>1. PICK c \in Seq(Datum) : c = Chunk
        BY <1>2, <2>1, <3>2, ChunkIs
      <4>2. msg = [kind |-> "CHUNK", data |-> c]
        BY <2>2, <3>2, <4>1
      <4>3. /\ c # <<>> /\ ChunkSound(P, spoilt, c)
            /\ c[1].shot = shot /\ c[Len(c)].shot = shot
            /\ shot \notin spoilt =>
                 /\ c[1].k = offset
                 /\ c[Len(c)].k + 1 =
                      IF offset + ChunkSize < FrameSize + 1 THEN offset + ChunkSize
                                                           ELSE FrameSize + 1
                 /\ Len(picture) = FrameSize + 1
        BY <1>2, <2>1, <3>2, <4>1, ChunkIs
      <4>4. Joins(spoilt, unclosed, f, c[1])
        BY <2>8, <3>2, <4>3 DEF Awaits, Joins
      <4>5. Awaits(spoilt, unclosed, c, e, shot, u)
        <5>1. /\ u = offset + ChunkSize
              /\ e = IF offset + ChunkSize < Len(picture) THEN "SEND" ELSE "CLOSE"
          BY <1>1, <2>7, <3>2 DEF Proceed
        <5>2. ASSUME shot \notin spoilt
              PROVE  IF e = "SEND" THEN u = c[Len(c)].k + 1 ELSE c[Len(c)].k = FrameSize
          <6>1. PICK x \in Nat : x = c[Len(c)].k
            BY <4>1, <4>3, Items
          <6>2. CASE offset + ChunkSize < FrameSize + 1
            BY <4>3, <5>1, <5>2, <6>2
          <6>3. CASE ~ (offset + ChunkSize < FrameSize + 1)
            <7>1. x + 1 = FrameSize + 1 /\ e = "CLOSE"
              BY <4>3, <5>1, <5>2, <6>1, <6>3
            <7>2. x = FrameSize
              BY <7>1, Sizes
            <7> QED
              BY <6>1, <7>1, <7>2
          <6> QED
            BY <6>2, <6>3
        <5>3. e \in {"SEND", "CLOSE"}
          BY <5>1
        <5> QED
          BY <4>3, <5>2, <5>3 DEF Awaits
      <4> QED
        BY <4>2, <4>3, <4>4, <4>5 DEF MessageFits, Leaves
    <3> QED
      BY <1>1, <3>1, <3>2
  <2>10. Flows(P, spoilt, unclosed, dsFile, Append(dsPipe, msg), e, shot, u)
    BY <2>1, <2>4, <2>7, <2>9, Sent
  <2>11. Flow'
    BY <1>1, <1>4, <2>1, <2>3, <2>4, <2>7, <2>10 DEF Flow
  <2> QED
    BY <2>3, <2>5, <2>6, <2>11 DEF PhotoInv
<1> QED
  BY <1>1, <1>3, <1>4 DEF ToDs

-----------------------------------------------------------------------------
LEMMA PhotoStart == PhotoInit => PhotoInv
<1> SUFFICES ASSUME PhotoInit PROVE PhotoInv
  OBVIOUS
<1>1. PhotoTypes
  <2>1. /\ <<>> \in Seq(Datum) /\ <<>> \in Seq(PhotoMessage)
        /\ next = [c \in Cameras |-> LastPacket] /\ LastPacket \in 0 .. LastPacket
    BY Sizes DEF PhotoInit
  <2> QED
    BY <2>1, NoFrameIs DEF PhotoInit, PhotoTypes
<1>2. FrameSound /\ PictureSound /\ PhotoWhole
  BY NoFrameIs, Sizes DEF PhotoInit, FrameSound, PictureSound, PhotoWhole
<1>3. Flow
  <2>1. PICK P : P = [s \in Nat |-> <<>>]
    OBVIOUS
  <2>2. <<>> \in Seq(Datum) /\ Len(<<>>) = 0
    OBVIOUS
  <2>3. P \in [Nat -> Seq(Datum)] /\ \A s \in Nat : P[s] = <<>>
    BY <2>1, <2>2
  <2>4. Pictures(P) /\ Photographed(P)
    BY <2>3 DEF PhotoInit, Pictures, Photographed
  <2>5. Flows(P, spoilt, unclosed, <<>>, <<>>, "NONE", shot, offset)
    BY <2>2 DEF Flows, FileSound, PipeSound, Before, Awaits
  <2> QED
    BY <2>4, <2>5 DEF PhotoInit, Flow
<1> QED
  BY <1>1, <1>2, <1>3 DEF PhotoInv

\* What happens to the photo: PAYLOADMC's commands come when it is not capturing.
PhotoStep ==
  \/ /\ doing = "NONE"
     /\ CaptureFrame \/ SendGvcpHeartbeat \/ \E outcome \in [Cameras -> Outcomes] : TakePhoto(outcome)
  \/ \E c \in Cameras : Arrive(c) \/ LosePacket(c)
  \/ CaptureFails \/ Transmit \/ TransmitFails
  \/ DsStores \/ DsCannotStore \/ DsSkips \/ DsCloses \/ DsClosesEarly
  \/ \E on \in BOOLEAN : DsSwitched(on)

LEMMA PhotoStepKeeps ==
  ASSUME PhotoInv, PhotoStep \/ UNCHANGED photoVars
  PROVE  PhotoInv'
<1>1. streaming \subseteq Cameras
  BY DEF PhotoInv, PhotoTypes
<1>2. CASE SendGvcpHeartbeat
  BY <1>1, <1>2, CamerasKeep DEF SendGvcpHeartbeat
<1>3. ASSUME NEW outcome \in [Cameras -> Outcomes], TakePhoto(outcome) PROVE PhotoInv'
  BY <1>1, <1>3, CamerasKeep DEF TakePhoto
<1>4. CASE UNCHANGED photoVars
  BY <1>1, <1>4, CamerasKeep DEF photoVars, camera
<1>5. CASE DsStores \/ DsCannotStore \/ DsSkips \/ DsCloses \/ DsClosesEarly
  BY <1>5, DsStoresKeeps, DsCannotStoreKeeps, DsSkipsKeeps, DsClosesKeeps, DsClosesEarlyKeeps
<1>6. ASSUME NEW on \in BOOLEAN, DsSwitched(on) PROVE PhotoInv'
  BY <1>6, DsSwitchedKeeps
<1> QED
  BY <1>2, <1>3, <1>4, <1>5, <1>6, CaptureFrameKeeps, ArriveKeeps, CaptureFailsKeeps, TransmitKeeps,
     TransmitFailsKeeps DEF PhotoStep

=============================================================================
