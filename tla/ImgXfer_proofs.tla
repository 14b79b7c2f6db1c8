--------------------------- MODULE ImgXfer_proofs ---------------------------
(***************************************************************************)
(* Proofs about ImgXfer: its types, the inductive invariant that ties the  *)
(* chunks handed to the SPI service to the state of the transfer, and that *)
(* ImgXfer implements ImageDelivery.                                       *)
(***************************************************************************)
EXTENDS ImgXferDelivery, TLAPS

\* The parameters of a running transfer are those of the open file, and the
\* chunk count fits the chunk size.
Setup ==
  state \in Active =>
    /\ xferFile \in Photos
    /\ totalSize = PhotoSize[xferFile]
    /\ totalSize > 0
    /\ chunkSize \in 1 .. MaxChunk
    /\ totalChunks = NumChunks(totalSize, chunkSize)

\* How far the current chunk index and the hand-over are in each state.
Position ==
  /\ state = "IDLE" => xferFile = NoPhoto
  /\ state = "WAIT_BEGIN_ACK" => curChunk = 0 /\ Len(handed) = 0
  /\ state = "WAIT_CHUNK_ACK" => curChunk < totalChunks /\ Len(handed) = curChunk
  /\ state = "WAIT_SPI_DONE"  => curChunk < totalChunks /\ Len(handed) = curChunk + 1
  /\ state = "WAIT_RESULT"    => curChunk = totalChunks /\ Len(handed) = curChunk

\* The i-th chunk handed over is the file's i-th slice.
HandedSlices ==
  state \in Active =>
    \A i \in 1 .. Len(handed) : handed[i] = Piece(i - 1, totalSize, chunkSize)

IInv == TypeOK /\ Setup /\ Position /\ HandedSlices /\ GuardArmed

-----------------------------------------------------------------------------
(***************************************************************************)
(* Arithmetic of chunks.                                                   *)
(***************************************************************************)

\* The chunk count rounds up: it covers the size, with less than a chunk to spare.
LEMMA ChunkCount ==
  ASSUME NEW s \in Nat, NEW c \in Nat \ {0}
  PROVE  /\ NumChunks(s, c) \in Nat
         /\ s <= NumChunks(s, c) * c
         /\ NumChunks(s, c) * c < s + c
BY DEF NumChunks

\* Each chunk below the count starts inside the file.
LEMMA ChunkStartsInside ==
  ASSUME NEW s \in Nat, NEW c \in Nat \ {0}, NEW i \in Nat, i < NumChunks(s, c)
  PROVE  i * c < s
<1> DEFINE n == NumChunks(s, c)
<1>1. n \in Nat /\ n * c < s + c
  BY ChunkCount
<1> HIDE DEF n
<1>2. i + 1 <= n
  BY <1>1 DEF n
<1>3. (i + 1) * c <= n * c
  BY <1>1, <1>2, SMTT(30)
<1>4. (i + 1) * c = i * c + c
  BY SMT
<1> QED
  BY <1>1, <1>3, <1>4

\* Arithmetic the solvers need spelled out: multiplication is monotone,
LEMMA Monotone ==
  ASSUME NEW a \in Nat, NEW b \in Nat, a <= b, NEW c \in Nat
  PROVE  a * c <= b * c
BY SMTT(30)

\* and the slice after a starts where slice a, cut to the full chunk, ends.
LEMMA Successor ==
  ASSUME NEW a \in Nat, NEW c \in Nat
  PROVE  (a + 1) * c = a * c + c /\ a * c \in Nat
BY SMT

\* Every byte lies in exactly one of the slices below the chunk count.
LEMMA ByteInOneSlice ==
  ASSUME NEW s \in Nat, NEW c \in Nat \ {0}, NEW b \in 0 .. s - 1
  PROVE  \E k \in Nat :
           /\ k < NumChunks(s, c)
           /\ k * c <= b /\ b < k * c + c
           /\ \A j \in Nat : j # k => b < j * c \/ j * c + c <= b
<1> DEFINE k == b \div c
<1>1. b \in Nat /\ k \in Nat
  OBVIOUS
<1>2. k * c <= b /\ b < k * c + c
  OBVIOUS
<1> HIDE DEF k
<1>3. k < NumChunks(s, c)
  <2> DEFINE n == NumChunks(s, c)
  <2>1. n \in Nat /\ s <= n * c
    BY ChunkCount
  <2> HIDE DEF n
  <2>2. n <= k => n * c <= k * c
    BY <1>1, <2>1, Monotone
  <2>3. k * c \in Nat /\ n * c \in Nat
    BY <1>1, <2>1, Successor
  <2> QED
    BY <1>1, <1>2, <2>1, <2>2, <2>3 DEF n
<1>4. ASSUME NEW j \in Nat, j # k
      PROVE  b < j * c \/ j * c + c <= b
  <2>1. /\ j + 1 <= k => (j + 1) * c <= k * c
        /\ k + 1 <= j => (k + 1) * c <= j * c
    BY <1>1, Monotone
  <2>2. /\ (j + 1) * c = j * c + c /\ j * c \in Nat
        /\ (k + 1) * c = k * c + c /\ k * c \in Nat
    BY <1>1, Successor
  <2>3. j + 1 <= k \/ k + 1 <= j
    BY <1>1, <1>4
  <2> QED
    BY <1>1, <1>2, <2>1, <2>2, <2>3
<1> QED
  BY <1>1, <1>2, <1>3, <1>4

\* A slice is a non-empty part of the file that fits the chunk buffer.
LEMMA PieceBounds ==
  ASSUME NEW s \in Nat, NEW c \in Nat \ {0}, NEW i \in Nat, i * c < s
  PROVE  /\ Piece(i, s, c) \in Pieces
         /\ Piece(i, s, c).off = i * c
         /\ Piece(i, s, c).len \in 1 .. c
         /\ Piece(i, s, c).off + Piece(i, s, c).len <= s
<1>1. i * c \in Nat
  BY SMT
<1> QED
  BY <1>1 DEF Piece, Pieces

-----------------------------------------------------------------------------
(***************************************************************************)
(* The steps.  First the two ways a transfer can end or go on unchanged,   *)
(* which most handlers share, then one lemma for each remaining outcome.   *)
(***************************************************************************)

\* The counters stay in the range of their C type.
LEMMA CountersInRange ==
  ASSUME IInv, CountErr \/ CountOk \/ UNCHANGED counters
  PROVE  okCount' \in 0 .. CounterMod - 1 /\ errCount' \in 0 .. CounterMod - 1
BY WidthsAssumption DEF IInv, TypeOK, CountErr, CountOk, counters

\* Nothing about an idle machine depends on the stale parameters.
LEMMA ClosedIsFine ==
  ASSUME IInv, Close,
         CountErr \/ CountOk,
         sent' \in Seq(Messages),
         lastPhoto' \in Photos \cup {NoPhoto},
         totalSize' \in Nat, chunkSize' \in 0 .. MaxChunk, totalChunks' \in Nat,
         curChunk' \in Nat, stuckTicks' \in 0 .. MaxStuckTicks,
         handed' \in Seq(Pieces)
  PROVE  IInv'
<1>1. state' = "IDLE" /\ xferFile' = NoPhoto
  BY DEF Close
<1>2. okCount' \in 0 .. CounterMod - 1 /\ errCount' \in 0 .. CounterMod - 1
  BY CountersInRange
<1>3. TypeOK'
  BY <1>1, <1>2 DEF TypeOK, States
<1>4. Setup' /\ Position' /\ HandedSlices' /\ GuardArmed'
  BY <1>1 DEF Setup, Position, HandedSlices, GuardArmed, Active
<1> QED
  BY <1>3, <1>4 DEF IInv

\* What a handler sends is no message or one.
LEMMA ShortSequences ==
  ASSUME NEW S, NEW m \in S
  PROVE  <<>> \in Seq(S) /\ <<m>> \in Seq(S)
OBVIOUS

\* An abort puts nothing or the ABORT message on the bus.
LEMMA AbortSends ==
  ASSUME Abort
  PROVE  sent' \in Seq(Messages) /\ Close /\ CountErr
<1>1. AbortMsg \in Messages
  BY DEF AbortMsg, Messages
<1> QED
  BY <1>1, ShortSequences DEF Abort, Quiet, Send

\* A message ignored in this state changes nothing.
LEMMA IgnoreKeeps ==
  ASSUME IInv, Ignore
  PROVE  IInv'
<1>1. TypeOK'
  BY DEF IInv, TypeOK, Ignore, Quiet, params, counters
<1>2. Setup' /\ Position' /\ HandedSlices' /\ GuardArmed'
  BY DEF IInv, Setup, Position, HandedSlices, GuardArmed, Ignore, params
<1> QED
  BY <1>1, <1>2 DEF IInv

\* The chunk size after BEGIN_ACK is COMM's or the old one, and the count is its.
LEMMA AdoptKeepsSetup ==
  ASSUME IInv, state = "WAIT_BEGIN_ACK", NEW chunk \in AckChunks, AdoptChunk(chunk),
         UNCHANGED totalSize
  PROVE  /\ chunkSize' \in 1 .. MaxChunk
         /\ totalChunks' = NumChunks(totalSize, chunkSize')
         /\ totalChunks' \in Nat \ {0}
         /\ totalSize \in Nat \ {0}
<1>1. /\ chunkSize \in 1 .. MaxChunk
      /\ totalChunks = NumChunks(totalSize, chunkSize)
      /\ totalSize \in Nat /\ totalSize > 0
  BY DEF IInv, TypeOK, Setup, Active
<1>2. /\ chunkSize' \in 1 .. MaxChunk
      /\ totalChunks' = NumChunks(totalSize, chunkSize')
  BY <1>1, WidthsAssumption DEF AdoptChunk
<1>3. chunkSize' \in Nat \ {0}
  BY <1>2, WidthsAssumption
<1> DEFINE n == totalChunks'
           c == chunkSize'
<1>4. n \in Nat /\ totalSize <= n * c /\ c \in Nat
  BY <1>1, <1>2, <1>3, ChunkCount
<1>5. n # 0
  <2>1. \A x \in Nat : 0 * x = 0
    OBVIOUS
  <2> HIDE DEF n, c
  <2> QED
    BY <1>1, <1>3, <1>4, <2>1
<1> QED
  BY <1>1, <1>2, <1>4, <1>5

\* A request opens the photo and sets every parameter, or aborts at once.
LEMMA StartKeeps ==
  ASSUME IInv, StartTransfer
  PROVE  IInv'
<1> DEFINE size == PhotoSize[lastPhoto]
<1>1. /\ state = "IDLE" /\ lastPhoto \in Photos /\ lastPhoto' = lastPhoto
      /\ size \in Nat /\ size > 0
      /\ totalSize' = size /\ chunkSize' = MaxChunk
      /\ totalChunks' = NumChunks(size, MaxChunk)
      /\ curChunk' = 0 /\ stuckTicks' = 0 /\ handed' = <<>>
  BY PhotosAssumption DEF IInv, TypeOK, StartTransfer
<1>2. totalChunks' \in Nat
  BY <1>1, WidthsAssumption, ChunkCount
<1>3. handed' \in Seq(Pieces) /\ Len(handed') = 0
  BY <1>1
<1>4. CASE Abort
  BY <1>1, <1>2, <1>3, <1>4, AbortSends, ClosedIsFine, WidthsAssumption
     DEF IInv, TypeOK
<1>5. CASE /\ Send(BeginMsg(lastPhoto, size, MaxChunk))
           /\ state' = "WAIT_BEGIN_ACK"
           /\ xferFile' = lastPhoto
           /\ UNCHANGED counters
  <2>1. sent' \in Seq(Messages)
    <3>1. BeginMsg(lastPhoto, size, MaxChunk) \in Messages
      BY <1>1, WidthsAssumption DEF BeginMsg, Messages
    <3> QED
      BY <1>5, <3>1, ShortSequences DEF Send
  <2>2. TypeOK'
    BY <1>1, <1>2, <1>3, <1>5, <2>1, CountersInRange, WidthsAssumption
       DEF IInv, TypeOK, States, Active
  <2>3. Setup' /\ Position' /\ HandedSlices' /\ GuardArmed'
    BY <1>1, <1>3, <1>5, WidthsAssumption
       DEF Setup, Position, HandedSlices, GuardArmed, Active
  <2> QED
    BY <2>2, <2>3 DEF IInv
<1> QED
  BY <1>4, <1>5 DEF StartTransfer

\* A chunk index cast to uint16.
LEMMA IndexCast ==
  ASSUME NEW i \in Nat
  PROVE  i % IdxMod \in Index
BY WidthsAssumption DEF Index

\* The transfer settles its chunk size before the first chunk, or ends.
LEMMA BeginAckKeeps ==
  ASSUME IInv, NEW short \in BOOLEAN, NEW status \in {0, 1}, NEW chunk \in AckChunks,
         OnBeginAck(short, status, chunk)
  PROVE  IInv'
<1>1. CASE state # "WAIT_BEGIN_ACK"
  BY <1>1, IgnoreKeeps DEF OnBeginAck
<1>2. CASE state = "WAIT_BEGIN_ACK"
  <2>1. UNCHANGED <<lastPhoto, totalSize, handed>>
    BY <1>2 DEF OnBeginAck
  <2>2. CASE short \/ status # 0
    <3>1. Abort /\ UNCHANGED <<chunkSize, totalChunks, curChunk, stuckTicks>>
      BY <1>2, <2>2 DEF OnBeginAck
    <3> QED
      BY <2>1, <3>1, AbortSends, ClosedIsFine DEF IInv, TypeOK
  <2>3. CASE ~(short \/ status # 0)
    <3>1. /\ AdoptChunk(chunk) /\ curChunk' = 0 /\ stuckTicks' = 0
          /\ \/ /\ Send(ChunkReadyMsg(0))
                /\ state' = "WAIT_CHUNK_ACK"
                /\ UNCHANGED <<xferFile, counters>>
             \/ Abort
      BY <1>2, <2>3 DEF OnBeginAck
    <3>2. /\ chunkSize' \in 1 .. MaxChunk
          /\ totalChunks' = NumChunks(totalSize, chunkSize')
          /\ totalChunks' \in Nat \ {0}
      BY <1>2, <2>1, <3>1, AdoptKeepsSetup
    <3>3. CASE Abort
      BY <2>1, <3>1, <3>2, <3>3, AbortSends, ClosedIsFine, WidthsAssumption
         DEF IInv, TypeOK
    <3>4. CASE /\ Send(ChunkReadyMsg(0))
               /\ state' = "WAIT_CHUNK_ACK"
               /\ UNCHANGED <<xferFile, counters>>
      <4>1. sent' \in Seq(Messages)
        <5>1. ChunkReadyMsg(0) \in Messages
          BY IndexCast DEF ChunkReadyMsg, Messages
        <5> QED
          BY <3>4, <5>1, ShortSequences DEF Send
      <4>2. TypeOK'
        BY <2>1, <3>1, <3>2, <3>4, <4>1, CountersInRange, WidthsAssumption
           DEF IInv, TypeOK, States, Active
      <4>3. Setup' /\ Position' /\ HandedSlices' /\ GuardArmed'
        BY <1>2, <2>1, <3>1, <3>2, <3>4, WidthsAssumption
           DEF IInv, TypeOK, Setup, Position, HandedSlices, GuardArmed, Active
      <4> QED
        BY <4>2, <4>3 DEF IInv
    <3> QED
      BY <3>1, <3>3, <3>4
  <2> QED
    BY <2>2, <2>3
<1> QED
  BY <1>1, <1>2

\* The acknowledged chunk is the next slice of the file.
LEMMA ChunkAckKeeps ==
  ASSUME IInv, NEW short \in BOOLEAN, NEW status \in {0, 1}, NEW idx \in Index,
         OnChunkAck(short, status, idx)
  PROVE  IInv'
<1>1. CASE state # "WAIT_CHUNK_ACK"
  BY <1>1, IgnoreKeeps DEF OnChunkAck
<1>2. CASE state = "WAIT_CHUNK_ACK"
  <2>1. UNCHANGED <<lastPhoto, params, curChunk>>
    BY <1>2 DEF OnChunkAck
  <2>2. CASE Abort /\ UNCHANGED <<stuckTicks, handed>>
    BY <2>1, <2>2, AbortSends, ClosedIsFine DEF IInv, TypeOK, params
  <2>3. CASE /\ SendSpiChunk
             /\ stuckTicks' = 0
             /\ state' = "WAIT_SPI_DONE"
             /\ UNCHANGED <<xferFile, counters>>
    <3> DEFINE piece == Piece(curChunk, totalSize, chunkSize)
    <3>1. /\ piece.off < totalSize
          /\ Send(SpiTxMsg(xferFile, curChunk, piece))
          /\ handed' = Append(handed, piece)
      BY <2>3 DEF SendSpiChunk
    <3>2. /\ xferFile \in Photos /\ totalSize \in Nat /\ chunkSize \in Nat \ {0}
          /\ curChunk \in Nat /\ handed \in Seq(Pieces)
          /\ curChunk < totalChunks /\ Len(handed) = curChunk
          /\ \A i \in 1 .. Len(handed) : handed[i] = Piece(i - 1, totalSize, chunkSize)
      BY <1>2, WidthsAssumption
         DEF IInv, TypeOK, Setup, Position, HandedSlices, Active
    <3>3. curChunk * chunkSize < totalSize
      BY <3>1 DEF Piece
    <3>4. piece \in Pieces
      BY <3>2, <3>3, PieceBounds
    <3> HIDE DEF piece
    <3>5. /\ handed' \in Seq(Pieces) /\ Len(handed') = curChunk + 1
          /\ \A i \in 1 .. Len(handed) : handed'[i] = handed[i]
          /\ handed'[curChunk + 1] = piece
      BY <3>1, <3>2, <3>4
    <3>6. \A i \in 1 .. Len(handed') : handed'[i] = Piece(i - 1, totalSize, chunkSize)
      <4> SUFFICES ASSUME NEW i \in 1 .. curChunk + 1
                   PROVE  handed'[i] = Piece(i - 1, totalSize, chunkSize)
        BY <3>5
      <4>1. CASE i = curChunk + 1
        <5>1. i - 1 = curChunk
          BY <3>2, <4>1
        <5> QED
          BY <3>5, <4>1, <5>1 DEF piece
      <4>2. CASE i # curChunk + 1
        BY <3>2, <3>5, <4>2
      <4> QED
        BY <4>1, <4>2
    <3>7. sent' \in Seq(Messages)
      <4>1. SpiTxMsg(xferFile, curChunk, piece) \in Messages
        BY <3>2, <3>4, IndexCast DEF SpiTxMsg, Messages
      <4> QED
        BY <3>1, <4>1, ShortSequences DEF Send
    <3>8. TypeOK'
      BY <2>1, <2>3, <3>5, <3>7, WidthsAssumption
         DEF IInv, TypeOK, States, Active, params, counters
    <3>9. Setup' /\ Position' /\ HandedSlices' /\ GuardArmed'
      BY <1>2, <2>1, <2>3, <3>2, <3>5, <3>6, WidthsAssumption
         DEF IInv, Setup, Position, HandedSlices, GuardArmed, Active, params
    <3> QED
      BY <3>8, <3>9 DEF IInv
  <2> QED
    BY <1>2, <2>2, <2>3 DEF OnChunkAck
<1> QED
  BY <1>1, <1>2

\* The next chunk exists, or all of them have been handed over.
LEMMA SpiDoneKeeps ==
  ASSUME IInv, NEW status \in {0, 1}, NEW idx \in Index, OnSpiDone(status, idx)
  PROVE  IInv'
<1>1. CASE state # "WAIT_SPI_DONE"
  BY <1>1, IgnoreKeeps DEF OnSpiDone
<1>2. CASE state = "WAIT_SPI_DONE"
  <2>1. UNCHANGED <<lastPhoto, params, handed>>
    BY <1>2 DEF OnSpiDone
  <2>2. CASE Abort /\ UNCHANGED <<curChunk, stuckTicks>>
    BY <2>1, <2>2, AbortSends, ClosedIsFine DEF IInv, TypeOK, params
  <2>3. CASE /\ curChunk' = curChunk + 1
             /\ stuckTicks' = 0
             /\ Abort
    BY <2>1, <2>3, AbortSends, ClosedIsFine, WidthsAssumption
       DEF IInv, TypeOK, params
  <2>4. CASE /\ curChunk' = curChunk + 1
             /\ stuckTicks' = 0
             /\ IF curChunk + 1 < totalChunks
                THEN Send(ChunkReadyMsg(curChunk + 1)) /\ state' = "WAIT_CHUNK_ACK"
                ELSE Send(EndMsg) /\ state' = "WAIT_RESULT"
             /\ UNCHANGED <<xferFile, counters>>
    <3>1. /\ curChunk \in Nat /\ totalChunks \in Nat
          /\ curChunk < totalChunks /\ Len(handed) = curChunk + 1
      BY <1>2 DEF IInv, TypeOK, Position
    <3>2. sent' \in Seq(Messages)
      <4>1. ChunkReadyMsg(curChunk + 1) \in Messages
        BY <3>1, IndexCast DEF ChunkReadyMsg, Messages
      <4>2. EndMsg \in Messages
        BY DEF EndMsg, Messages
      <4> QED
        BY <2>4, <4>1, <4>2, ShortSequences DEF Send
    <3>3. state' \in {"WAIT_CHUNK_ACK", "WAIT_RESULT"}
      BY <2>4
    <3>4. TypeOK'
      BY <2>1, <2>4, <3>1, <3>2, <3>3, WidthsAssumption
         DEF IInv, TypeOK, States, Active, params, counters
    <3>5. Setup' /\ HandedSlices' /\ GuardArmed'
      BY <1>2, <2>1, <2>4, <3>3, WidthsAssumption
         DEF IInv, Setup, HandedSlices, GuardArmed, Active, params
    <3>6. Position'
      BY <2>1, <2>4, <3>1 DEF Position, params
    <3> QED
      BY <3>4, <3>5, <3>6 DEF IInv
  <2> QED
    BY <1>2, <2>2, <2>3, <2>4 DEF OnSpiDone
<1> QED
  BY <1>1, <1>2

\* The result closes the file and leaves the transfer.
LEMMA ResultKeeps ==
  ASSUME IInv, NEW status \in {0, 1}, OnResult(status)
  PROVE  IInv'
<1>1. CASE state # "WAIT_RESULT"
  BY <1>1, IgnoreKeeps DEF OnResult
<1>2. CASE state = "WAIT_RESULT"
  <2>1. /\ Close
        /\ CountErr \/ CountOk
        /\ sent' = <<>>
        /\ UNCHANGED <<lastPhoto, params, curChunk, stuckTicks, handed>>
    BY <1>2 DEF OnResult, Quiet
  <2>2. sent' \in Seq(Messages)
    BY <2>1
  <2> QED
    BY <2>1, <2>2, ClosedIsFine DEF IInv, TypeOK, params
<1> QED
  BY <1>1, <1>2

\* A tick counts towards the abort or aborts.
LEMMA TickKeeps ==
  ASSUME IInv, OnTick
  PROVE  IInv'
<1>1. CASE state = "IDLE"
  BY <1>1, IgnoreKeeps DEF OnTick
<1>2. CASE state # "IDLE"
  <2>1. /\ stuckTicks' = stuckTicks + 1
        /\ UNCHANGED <<lastPhoto, params, curChunk, handed>>
    BY <1>2 DEF OnTick
  <2>2. stuckTicks \in Nat /\ stuckTicks < MaxStuckTicks
    BY <1>2, WidthsAssumption DEF IInv, TypeOK, GuardArmed, States
  <2>3. CASE Abort
    BY <2>1, <2>2, <2>3, AbortSends, ClosedIsFine, WidthsAssumption
       DEF IInv, TypeOK, params
  <2>4. CASE /\ ~(stuckTicks + 1 >= MaxStuckTicks)
             /\ Quiet /\ UNCHANGED <<state, xferFile, counters>>
    <3>1. TypeOK'
      BY <2>1, <2>2, <2>4, WidthsAssumption DEF IInv, TypeOK, Quiet, params, counters
    <3>2. Setup' /\ Position' /\ HandedSlices' /\ GuardArmed'
      BY <2>1, <2>2, <2>4, WidthsAssumption
         DEF IInv, Setup, Position, HandedSlices, GuardArmed, params
    <3> QED
      BY <3>1, <3>2 DEF IInv
  <2> QED
    BY <1>2, <2>3, <2>4 DEF OnTick
<1> QED
  BY <1>1, <1>2

\* A photo completed meanwhile only replaces the one to be sent next.
LEMMA FileCompleteKeeps ==
  ASSUME IInv, NEW f \in Photos \cup OtherFiles, OnDsFileComplete(f)
  PROVE  IInv'
<1>1. TypeOK'
  BY DEF IInv, TypeOK, OnDsFileComplete, Quiet, params, counters
<1>2. Setup' /\ Position' /\ HandedSlices' /\ GuardArmed'
  BY DEF IInv, Setup, Position, HandedSlices, GuardArmed, OnDsFileComplete, params
<1> QED
  BY <1>1, <1>2 DEF IInv

-----------------------------------------------------------------------------
(***************************************************************************)
(* The theorems.                                                           *)
(***************************************************************************)

\* The strengthening holds at start-up and every handler keeps it.
LEMMA InitIInv == Init => IInv
<1> SUFFICES ASSUME Init PROVE IInv
  OBVIOUS
<1>1. TypeOK
  BY WidthsAssumption DEF Init, TypeOK, States
<1>2. Setup /\ Position /\ HandedSlices /\ GuardArmed
  BY DEF Init, Setup, Position, HandedSlices, GuardArmed, Active
<1> QED
  BY <1>1, <1>2 DEF IInv

\* One case for each entry point of the state machine.
LEMMA NextIInv == IInv /\ [Next]_vars => IInv'
<1> SUFFICES ASSUME IInv, [Next]_vars PROVE IInv'
  OBVIOUS
<1>1. CASE UNCHANGED vars
  BY <1>1 DEF IInv, TypeOK, Setup, Position, HandedSlices, GuardArmed, vars, params,
     counters
<1>2. ASSUME NEW f \in Photos \cup OtherFiles, OnDsFileComplete(f) PROVE IInv'
  BY <1>2, FileCompleteKeeps
<1>3. CASE OnRequest
  BY <1>3, StartKeeps, IgnoreKeeps DEF OnRequest
<1>4. ASSUME NEW short \in BOOLEAN, NEW status \in {0, 1}, NEW chunk \in AckChunks,
             OnBeginAck(short, status, chunk)
      PROVE  IInv'
  BY <1>4, BeginAckKeeps
<1>5. ASSUME NEW short \in BOOLEAN, NEW status \in {0, 1}, NEW idx \in Index,
             OnChunkAck(short, status, idx)
      PROVE  IInv'
  BY <1>5, ChunkAckKeeps
<1>6. ASSUME NEW status \in {0, 1}, NEW idx \in Index, OnSpiDone(status, idx)
      PROVE  IInv'
  BY <1>6, SpiDoneKeeps
<1>7. ASSUME NEW status \in {0, 1}, OnResult(status) PROVE IInv'
  BY <1>7, ResultKeeps
<1>8. CASE OnTick
  BY <1>8, TickKeeps
<1> QED
  BY <1>1, <1>2, <1>3, <1>4, <1>5, <1>6, <1>7, <1>8 DEF Next

\* The strengthening holds in every reachable state.
THEOREM Invariance == Spec => []IInv
BY InitIInv, NextIInv, PTL DEF Spec

\* Every variable keeps to the range of the C field it models, for every set of
\* photos, chunk size, index width and abort threshold.
THEOREM TypeCorrect == Spec => []TypeOK
<1>1. IInv => TypeOK
  BY DEF IInv
<1> QED
  BY <1>1, Invariance, PTL

\* The chunk a running transfer asks for always exists in the file, so
\* SendSpiChunk's range check never fails.
THEOREM NoChunkOutOfRange == Spec => []ChunkInRange
<1>1. IInv => ChunkInRange
  <2> SUFFICES ASSUME IInv, state \in {"WAIT_CHUNK_ACK", "WAIT_SPI_DONE"}
               PROVE  curChunk * chunkSize < totalSize
    BY DEF ChunkInRange
  <2>1. /\ totalSize \in Nat /\ chunkSize \in Nat \ {0} /\ curChunk \in Nat
        /\ curChunk < NumChunks(totalSize, chunkSize)
    BY WidthsAssumption DEF IInv, TypeOK, Setup, Position, Active
  <2> QED
    BY <2>1, ChunkStartsInside
<1> QED
  BY <1>1, Invariance, PTL

\* What the invariant says of the chunks handed over in a running transfer.
LEMMA HandedFacts ==
  ASSUME IInv, state \in Active
  PROVE  /\ totalSize \in Nat /\ chunkSize \in Nat \ {0} /\ chunkSize <= MaxChunk
         /\ Len(handed) \in Nat /\ DOMAIN handed = 1 .. Len(handed)
         /\ Len(handed) <= NumChunks(totalSize, chunkSize)
         /\ \A i \in DOMAIN handed : handed[i] = Piece(i - 1, totalSize, chunkSize)
<1>1. /\ totalSize \in Nat /\ chunkSize \in Nat \ {0} /\ chunkSize <= MaxChunk
      /\ handed \in Seq(Pieces) /\ curChunk \in Nat /\ totalChunks \in Nat
      /\ totalChunks = NumChunks(totalSize, chunkSize)
  BY WidthsAssumption DEF IInv, TypeOK, Setup, Active
<1>2. Len(handed) <= totalChunks
  BY <1>1 DEF IInv, Position, Active
<1> QED
  BY <1>1, <1>2 DEF IInv, HandedSlices

\* Chunks go out in file order, without a gap, inside the file and the buffer.
THEOREM InOrder == Spec => []HandedInOrder
<1>1. IInv => HandedInOrder
  <2> SUFFICES ASSUME IInv, state \in Active, NEW i \in DOMAIN handed
               PROVE  /\ handed[i].len \in 1 .. MaxChunk
                      /\ handed[i].off + handed[i].len <= totalSize
                      /\ handed[i].off = IF i = 1 THEN 0
                                         ELSE handed[i-1].off + handed[i-1].len
    BY DEF HandedInOrder
  <2> DEFINE c == chunkSize
  <2>1. /\ totalSize \in Nat /\ c \in Nat \ {0} /\ c <= MaxChunk
        /\ i \in Nat \ {0} /\ i - 1 \in Nat /\ i - 1 < NumChunks(totalSize, c)
        /\ handed[i] = Piece(i - 1, totalSize, c)
    <3>1. NumChunks(totalSize, c) \in Nat
      BY HandedFacts, ChunkCount
    <3> QED
      BY HandedFacts, <3>1
  <2>2. (i - 1) * c < totalSize
    BY <2>1, ChunkStartsInside
  <2>3. /\ handed[i].off = (i - 1) * c
        /\ handed[i].len \in 1 .. c
        /\ handed[i].off + handed[i].len <= totalSize
    BY <2>1, <2>2, PieceBounds
  <2>4. CASE i = 1
    BY <2>1, <2>3, <2>4, WidthsAssumption
  <2>5. CASE i # 1
    <3>1. i - 2 \in Nat /\ (i - 2) + 1 = i - 1 /\ i - 1 \in DOMAIN handed /\ (i - 1) - 1 = i - 2
      BY <2>1, <2>5, HandedFacts
    <3>2. handed[i - 1] = Piece(i - 2, totalSize, c)
      BY <3>1, HandedFacts
    <3>3. (i - 1) * c = (i - 2) * c + c /\ (i - 2) * c \in Nat
      BY <2>1, <3>1, Successor
    <3>4. handed[i - 1].off = (i - 2) * c /\ handed[i - 1].len = c
      <4> DEFINE o == (i - 2) * c
      <4>1. handed[i - 1] = [off |-> o, len |-> IF totalSize - o < c THEN totalSize - o ELSE c]
        BY <3>2 DEF Piece
      <4>2. o \in Nat /\ o + c < totalSize
        BY <2>2, <3>3
      <4> HIDE DEF o
      <4>3. ~ (totalSize - o < c)
        BY <2>1, <4>2
      <4> QED
        BY <4>1, <4>3 DEF o
    <3> QED
      BY <2>1, <2>3, <2>5, <3>3, <3>4, WidthsAssumption
  <2> QED
    BY <2>4, <2>5
<1> QED
  BY <1>1, Invariance, PTL

\* At END every byte of the photo was handed over exactly once, for every photo
\* size, negotiated chunk size and index width.
THEOREM WholeImageHanded == Spec => []ImageCovered
<1>1. IInv => ImageCovered
  <2> SUFFICES ASSUME IInv, state = "WAIT_RESULT", NEW b \in 0 .. totalSize - 1
               PROVE  \E i \in DOMAIN handed :
                        /\ handed[i].off <= b /\ b < handed[i].off + handed[i].len
                        /\ \A j \in DOMAIN handed \ {i} :
                             b < handed[j].off \/ handed[j].off + handed[j].len <= b
    BY DEF ImageCovered
  <2> DEFINE c == chunkSize
             n == NumChunks(totalSize, c)
  <2>1. /\ totalSize \in Nat /\ c \in Nat \ {0} /\ n \in Nat
        /\ Len(handed) = n /\ DOMAIN handed = 1 .. n
        /\ \A i \in DOMAIN handed : handed[i] = Piece(i - 1, totalSize, c)
    BY HandedFacts, ChunkCount DEF IInv, Setup, Position, Active
  <2>2. PICK k \in Nat : /\ k < n
                         /\ k * c <= b /\ b < k * c + c
                         /\ \A j \in Nat : j # k => b < j * c \/ j * c + c <= b
    BY <2>1, ByteInOneSlice
  <2> HIDE DEF n, c
  <2>3. ASSUME NEW j \in DOMAIN handed
        PROVE  /\ handed[j].off = (j - 1) * c /\ (j - 1) * c \in Nat
               /\ handed[j].len = IF totalSize - (j - 1) * c < c
                                  THEN totalSize - (j - 1) * c ELSE c
    <3>1. j - 1 \in Nat
      BY <2>1
    <3>2. (j - 1) * c \in Nat
      BY <2>1, <3>1, Successor
    <3> QED
      BY <2>1, <3>2 DEF Piece
  <2>4. k + 1 \in DOMAIN handed /\ (k + 1) - 1 = k
    BY <2>1, <2>2
  <2>5. handed[k + 1].off <= b /\ b < handed[k + 1].off + handed[k + 1].len
    <3>1. /\ handed[k + 1].off = k * c /\ k * c \in Nat
          /\ handed[k + 1].len = IF totalSize - k * c < c THEN totalSize - k * c ELSE c
      BY <2>3, <2>4
    <3> QED
      BY <2>1, <2>2, <3>1
  <2>6. ASSUME NEW j \in DOMAIN handed \ {k + 1}
        PROVE  b < handed[j].off \/ handed[j].off + handed[j].len <= b
    <3>1. j - 1 \in Nat /\ j - 1 # k
      BY <2>1, <2>2
    <3>2. b < (j - 1) * c \/ (j - 1) * c + c <= b
      BY <2>2, <3>1
    <3> QED
      BY <2>1, <2>3, <3>2
  <2> QED
    BY <2>4, <2>5, <2>6
<1> QED
  BY <1>1, Invariance, PTL

\* The file handle is open exactly while a transfer runs: no path leaks it.
THEOREM NoHandleLeak == Spec => []FileOpenIffActive
<1>1. IInv => FileOpenIffActive
  BY PhotosAssumption
     DEF IInv, TypeOK, Setup, Position, FileOpenIffActive, States, Active
<1> QED
  BY <1>1, Invariance, PTL

\* No path through the handlers leaves a transfer running with its timeouts at or
\* past the abort threshold.
THEOREM AlwaysGuarded == Spec => []GuardArmed
<1>1. IInv => GuardArmed
  BY DEF IInv
<1> QED
  BY <1>1, Invariance, PTL

\* Counting a success or an error modulo 2^8 changes the counter.
LEMMA CountMoves ==
  ASSUME NEW n \in 0 .. CounterMod - 1
  PROVE  (n + 1) % CounterMod # n
BY WidthsAssumption

\* Ending a transfer moves one counter and only one.
LEMMA OneCounterMoves ==
  ASSUME IInv, CountErr \/ CountOk
  PROVE  UNCHANGED okCount <=> errCount' # errCount
<1>1. okCount \in 0 .. CounterMod - 1 /\ errCount \in 0 .. CounterMod - 1
  BY DEF IInv, TypeOK
<1>2. CASE CountErr
  BY <1>1, <1>2, CountMoves DEF CountErr
<1>3. CASE CountOk
  BY <1>1, <1>3, CountMoves DEF CountOk
<1> QED
  BY <1>2, <1>3

\* However it ends, a transfer is counted once, and nothing is counted before.
THEOREM CountedOnce == Spec => OneOutcomePerTransfer
<1> DEFINE Outcome == state \in Active =>
                        IF state' \in Active THEN UNCHANGED counters
                        ELSE UNCHANGED okCount <=> errCount' # errCount
<1>1. ASSUME IInv, Next, state \in Active
      PROVE  \/ state' \in Active /\ UNCHANGED counters
             \/ state' \notin Active /\ (CountErr \/ CountOk)
  <2>1. ASSUME Ignore PROVE state' \in Active /\ UNCHANGED counters
    BY <1>1, <2>1 DEF Ignore
  <2>2. ASSUME Abort PROVE state' \notin Active /\ CountErr
    BY <2>2 DEF Abort, Close, Active
  <2>3. ASSUME NEW f \in Photos \cup OtherFiles, OnDsFileComplete(f)
        PROVE  state' \in Active /\ UNCHANGED counters
    BY <1>1, <2>3 DEF OnDsFileComplete
  <2>4. CASE OnRequest
    BY <1>1, <2>1, <2>4 DEF OnRequest, StartTransfer, Active
  <2>5. ASSUME NEW short \in BOOLEAN, NEW status \in {0, 1}, NEW chunk \in AckChunks,
               OnBeginAck(short, status, chunk)
        PROVE  \/ state' \in Active /\ UNCHANGED counters
               \/ state' \notin Active /\ CountErr
    BY <2>1, <2>2, <2>5 DEF OnBeginAck, Active
  <2>6. ASSUME NEW short \in BOOLEAN, NEW status \in {0, 1}, NEW idx \in Index,
               OnChunkAck(short, status, idx)
        PROVE  \/ state' \in Active /\ UNCHANGED counters
               \/ state' \notin Active /\ CountErr
    BY <2>1, <2>2, <2>6 DEF OnChunkAck, Active
  <2>7. ASSUME NEW status \in {0, 1}, NEW idx \in Index, OnSpiDone(status, idx)
        PROVE  \/ state' \in Active /\ UNCHANGED counters
               \/ state' \notin Active /\ CountErr
    BY <2>1, <2>2, <2>7 DEF OnSpiDone, Active
  <2>8. ASSUME NEW status \in {0, 1}, OnResult(status)
        PROVE  \/ state' \in Active /\ UNCHANGED counters
               \/ state' \notin Active /\ (CountErr \/ CountOk)
    BY <2>1, <2>8 DEF OnResult, Close, Active
  <2>9. CASE OnTick
    BY <1>1, <2>1, <2>2, <2>9 DEF OnTick, Active
  <2> QED
    BY <1>1, <2>3, <2>4, <2>5, <2>6, <2>7, <2>8, <2>9 DEF Next
<1>2. IInv /\ [Next]_vars => [Outcome]_vars
  BY <1>1, OneCounterMoves
<1> QED
  BY <1>2, Invariance, PTL DEF Spec, OneOutcomePerTransfer

\* Once under way a transfer sends one file of one size in chunks of one size,
\* whatever photos DS completes meanwhile.
THEOREM OnePhotoSent == Spec => TransferIsOfOnePhoto
<1> DEFINE Same == /\ UNCHANGED <<xferFile, totalSize>>
                   /\ state # "WAIT_BEGIN_ACK" => UNCHANGED <<chunkSize, totalChunks>>
                   /\ \A i \in DOMAIN sent' :
                        sent'[i].type = "SPI_TX" => sent'[i].photo = xferFile
           Step == (state \in Active /\ state' \in Active) => Same
<1>1. ASSUME Next, state \in Active, state' \in Active PROVE Same
  <2>1. ASSUME Ignore PROVE Same
    BY <2>1 DEF Ignore, Quiet, params
  <2>2. ~ Abort
    BY <1>1 DEF Abort, Close, Active
  <2>3. ASSUME NEW f \in Photos \cup OtherFiles, OnDsFileComplete(f) PROVE Same
    BY <2>3 DEF OnDsFileComplete, Quiet, params
  <2>4. CASE OnRequest
    BY <1>1, <2>1, <2>4 DEF OnRequest, StartTransfer, Active
  <2>5. ASSUME NEW short \in BOOLEAN, NEW status \in {0, 1}, NEW chunk \in AckChunks,
               OnBeginAck(short, status, chunk)
        PROVE  Same
    BY <2>1, <2>2, <2>5 DEF OnBeginAck, Send, ChunkReadyMsg
  <2>6. ASSUME NEW short \in BOOLEAN, NEW status \in {0, 1}, NEW idx \in Index,
               OnChunkAck(short, status, idx)
        PROVE  Same
    BY <2>1, <2>2, <2>6 DEF OnChunkAck, SendSpiChunk, Send, SpiTxMsg, params
  <2>7. ASSUME NEW status \in {0, 1}, NEW idx \in Index, OnSpiDone(status, idx) PROVE Same
    BY <2>1, <2>2, <2>7 DEF OnSpiDone, Send, ChunkReadyMsg, EndMsg, params
  <2>8. ASSUME NEW status \in {0, 1}, OnResult(status) PROVE Same
    BY <1>1, <2>1, <2>8 DEF OnResult, Close, Active
  <2>9. CASE OnTick
    BY <2>1, <2>2, <2>9 DEF OnTick, Quiet, params
  <2> QED
    BY <1>1, <2>3, <2>4, <2>5, <2>6, <2>7, <2>8, <2>9 DEF Next
<1>2. [Next]_vars => [Step]_vars
  BY <1>1
<1> QED
  BY <1>2, PTL DEF Spec, TransferIsOfOnePhoto

-----------------------------------------------------------------------------
(***************************************************************************)
(* ImgXfer implements ImageDelivery: the initial state maps to the initial *)
(* state, and every handler to one abstract step or none.                  *)
(***************************************************************************)

\* Nothing is confirmed before the first chunk.
LEMMA ZeroTimes == \A c \in Nat : 0 * c = 0
OBVIOUS

\* Ending a transfer in error is giving the delivery up.
LEMMA AbortGivesUp ==
  ASSUME Abort
  PROVE  Delivery!GiveUp
BY DEF Abort, Close, CountErr, Confirmed, Active, Delivery!GiveUp

\* A message ignored is no abstract step.
LEMMA IgnoreStutters ==
  ASSUME Ignore
  PROVE  UNCHANGED Delivery!dVars
BY DEF Ignore, params, counters, Confirmed, Delivery!dVars

\* What is confirmed in each state of a transfer.
LEMMA ConfirmedFacts ==
  ASSUME IInv
  PROVE  /\ state = "IDLE" => Confirmed = 0 /\ xferFile = NoPhoto
         /\ state = "WAIT_BEGIN_ACK" => Confirmed = 0
         /\ state \in {"WAIT_CHUNK_ACK", "WAIT_SPI_DONE"} =>
              /\ Confirmed = curChunk * chunkSize
              /\ Confirmed < totalSize
         /\ state = "WAIT_RESULT" => Confirmed = totalSize
<1>1. /\ state = "IDLE" => Confirmed = 0 /\ xferFile = NoPhoto
      /\ state = "WAIT_BEGIN_ACK" => Confirmed = 0
  <2>1. chunkSize \in Nat => 0 * chunkSize = 0
    OBVIOUS
  <2> QED
    BY <2>1, WidthsAssumption
       DEF IInv, TypeOK, Setup, Position, Confirmed, Active
<1>2. ASSUME state \in {"WAIT_CHUNK_ACK", "WAIT_SPI_DONE"}
      PROVE  Confirmed = curChunk * chunkSize /\ Confirmed < totalSize
  <2>1. /\ totalSize \in Nat /\ chunkSize \in Nat \ {0} /\ curChunk \in Nat
        /\ curChunk < NumChunks(totalSize, chunkSize)
    BY <1>2, WidthsAssumption DEF IInv, TypeOK, Setup, Position, Active
  <2>2. curChunk * chunkSize < totalSize
    BY <2>1, ChunkStartsInside
  <2> QED
    BY <1>2, <2>2 DEF Confirmed, Active
<1>3. ASSUME state = "WAIT_RESULT"
      PROVE  Confirmed = totalSize
  <2>1. /\ totalSize \in Nat /\ chunkSize \in Nat \ {0} /\ curChunk \in Nat
        /\ curChunk = NumChunks(totalSize, chunkSize)
    BY <1>3, WidthsAssumption DEF IInv, TypeOK, Setup, Position, Active
  <2>2. totalSize <= curChunk * chunkSize /\ curChunk * chunkSize \in Nat
    BY <2>1, ChunkCount, Successor
  <2> QED
    BY <1>3, <2>1, <2>2 DEF Confirmed, Active
<1> QED
  BY <1>1, <1>2, <1>3

\* A request starts the delivery, or gives it up at once.
LEMMA StartRefines ==
  ASSUME IInv, StartTransfer
  PROVE  Delivery!DNext
<1>1. CASE Abort
  BY <1>1, AbortGivesUp DEF Delivery!DNext
<1>2. CASE ~Abort
  <2>1. /\ state = "IDLE" /\ lastPhoto \in Photos /\ PhotoSize[lastPhoto] \in Nat
        /\ PhotoSize[lastPhoto] # 0
        /\ totalSize' = PhotoSize[lastPhoto] /\ chunkSize' = MaxChunk /\ curChunk' = 0
        /\ state' = "WAIT_BEGIN_ACK" /\ xferFile' = lastPhoto /\ UNCHANGED counters
    BY <1>2, PhotosAssumption DEF IInv, TypeOK, StartTransfer
  <2>2. Confirmed = 0 /\ xferFile = NoPhoto
    BY <2>1, ConfirmedFacts
  <2>3. Confirmed' = 0
    <3>1. 0 * MaxChunk = 0
      BY WidthsAssumption
    <3> QED
      BY <2>1, <3>1 DEF Confirmed, Active
  <2>4. Delivery!Start(lastPhoto)
    BY <2>1, <2>2, <2>3 DEF Delivery!Start, counters
  <2> QED
    BY <2>1, <2>4 DEF Delivery!DNext
<1> QED
  BY <1>1, <1>2

\* The handshake confirms nothing yet, or gives the delivery up.
LEMMA BeginAckRefines ==
  ASSUME IInv, NEW short \in BOOLEAN, NEW status \in {0, 1}, NEW chunk \in AckChunks,
         OnBeginAck(short, status, chunk)
  PROVE  Delivery!DNext \/ UNCHANGED Delivery!dVars
<1>1. CASE state # "WAIT_BEGIN_ACK"
  BY <1>1, IgnoreStutters DEF OnBeginAck
<1>2. CASE Abort
  BY <1>2, AbortGivesUp DEF Delivery!DNext
<1>3. CASE state = "WAIT_BEGIN_ACK" /\ ~Abort
  <2>1. /\ UNCHANGED totalSize /\ AdoptChunk(chunk)
        /\ curChunk' = 0 /\ state' = "WAIT_CHUNK_ACK"
        /\ UNCHANGED <<xferFile, counters>>
    BY <1>3 DEF OnBeginAck
  <2>2. chunkSize' \in 1 .. MaxChunk /\ totalSize \in Nat \ {0}
    BY <1>3, <2>1, AdoptKeepsSetup
  <2>3. chunkSize' \in Nat
    BY <2>2, WidthsAssumption
  <2>4. Confirmed = 0
    BY <1>3, ConfirmedFacts
  <2>5. Confirmed' = 0
    <3>1. curChunk' * chunkSize' = 0
      BY <2>1, <2>3, ZeroTimes, Zenon
    <3>2. state' \in Active /\ curChunk' * chunkSize' < totalSize'
      <4>1. state' \in Active /\ 0 < totalSize'
        BY <2>1, <2>2 DEF Active
      <4> QED
        BY <3>1, <4>1, Zenon
    <3> QED
      BY <3>1, <3>2, Zenon DEF Confirmed
  <2> QED
    BY <2>1, <2>4, <2>5 DEF Delivery!dVars, counters
<1> QED
  BY <1>1, <1>2, <1>3

\* Handing a chunk over confirms nothing yet.
LEMMA ChunkAckRefines ==
  ASSUME IInv, NEW short \in BOOLEAN, NEW status \in {0, 1}, NEW idx \in Index,
         OnChunkAck(short, status, idx)
  PROVE  Delivery!DNext \/ UNCHANGED Delivery!dVars
<1>1. CASE state # "WAIT_CHUNK_ACK"
  BY <1>1, IgnoreStutters DEF OnChunkAck
<1>2. CASE Abort
  BY <1>2, AbortGivesUp DEF Delivery!DNext
<1>3. CASE state = "WAIT_CHUNK_ACK" /\ ~Abort
  <2>1. /\ UNCHANGED <<params, curChunk, xferFile, counters>>
        /\ state' = "WAIT_SPI_DONE"
    BY <1>3 DEF OnChunkAck
  <2>2. UNCHANGED Confirmed
    BY <1>3, <2>1 DEF Confirmed, Active, params
  <2> QED
    BY <2>1, <2>2 DEF Delivery!dVars, counters
<1> QED
  BY <1>1, <1>2, <1>3

\* A confirmed chunk is its bytes accepted.
LEMMA SpiDoneRefines ==
  ASSUME IInv, NEW status \in {0, 1}, NEW idx \in Index, OnSpiDone(status, idx)
  PROVE  Delivery!DNext \/ UNCHANGED Delivery!dVars
<1>1. CASE state # "WAIT_SPI_DONE"
  BY <1>1, IgnoreStutters DEF OnSpiDone
<1>2. CASE Abort
  BY <1>2, AbortGivesUp DEF Delivery!DNext
<1>3. CASE state = "WAIT_SPI_DONE" /\ ~Abort
  <2> DEFINE start == curChunk * chunkSize
             n == IF totalSize - start < chunkSize THEN totalSize - start ELSE chunkSize
  <2>1. /\ UNCHANGED <<params, xferFile, counters>>
        /\ curChunk' = curChunk + 1
        /\ state' \in Active
    BY <1>3 DEF OnSpiDone, Active
  <2>2. /\ totalSize \in Nat /\ curChunk \in Nat
        /\ chunkSize \in 1 .. MaxChunk /\ chunkSize \in Nat
        /\ xferFile \in Photos /\ totalSize = PhotoSize[xferFile]
    BY <1>3, WidthsAssumption DEF IInv, TypeOK, Setup, Active
  <2>3. Confirmed = start /\ start < totalSize /\ start \in Nat
    BY <1>3, <2>2, ConfirmedFacts, Successor
  <2>4. curChunk' * chunkSize' = start + chunkSize
    BY <2>1, <2>2, Successor DEF params
  <2>5. Confirmed' = IF start + chunkSize < totalSize THEN start + chunkSize ELSE totalSize
    BY <2>1, <2>4 DEF Confirmed, params
  <2> HIDE DEF start
  <2>6. n \in 1 .. MaxChunk /\ Confirmed + n <= totalSize /\ Confirmed' = Confirmed + n
    BY <2>2, <2>3, <2>5, WidthsAssumption
  <2>7. Delivery!Accept(n)
    BY <2>1, <2>2, <2>6, PhotosAssumption DEF Delivery!Accept, counters
  <2> QED
    BY <2>6, <2>7 DEF Delivery!DNext
<1> QED
  BY <1>1, <1>2, <1>3

\* A positive RESULT completes a delivery whose bytes have all been accepted.
LEMMA ResultRefines ==
  ASSUME IInv, NEW status \in {0, 1}, OnResult(status)
  PROVE  Delivery!DNext \/ UNCHANGED Delivery!dVars
<1>1. CASE state # "WAIT_RESULT"
  BY <1>1, IgnoreStutters DEF OnResult
<1>2. CASE state = "WAIT_RESULT"
  <2>1. Close /\ IF status = 0 THEN CountOk ELSE CountErr
    BY <1>2 DEF OnResult
  <2>2. Confirmed' = 0
    BY <2>1 DEF Close, Confirmed, Active
  <2>3. CASE status = 0
    <3>1. /\ xferFile \in Photos /\ totalSize = PhotoSize[xferFile]
          /\ Confirmed = totalSize
      BY <1>2, ConfirmedFacts DEF IInv, Setup, Active
    <3> QED
      BY <2>1, <2>2, <2>3, <3>1, PhotosAssumption
         DEF Close, CountOk, Delivery!DNext, Delivery!Complete
  <2>4. CASE status # 0
    BY <2>1, <2>2, <2>4 DEF Close, CountErr, Delivery!DNext, Delivery!GiveUp
  <2> QED
    BY <2>3, <2>4
<1> QED
  BY <1>1, <1>2

\* A tick gives the delivery up or is no abstract step.
LEMMA TickRefines ==
  ASSUME OnTick
  PROVE  Delivery!DNext \/ UNCHANGED Delivery!dVars
<1>1. CASE state = "IDLE"
  BY <1>1, IgnoreStutters DEF OnTick
<1>2. CASE Abort
  BY <1>2, AbortGivesUp DEF Delivery!DNext
<1>3. CASE state # "IDLE" /\ ~Abort
  BY <1>3 DEF OnTick, params, counters, Confirmed, Delivery!dVars
<1> QED
  BY <1>1, <1>2, <1>3

\* COMMMC counts a transfer as sent OK only after every byte of one photo was
\* confirmed by the SPI service, in file order: ImgXfer implements ImageDelivery.
THEOREM ImgXferImplementsImageDelivery == Spec => DeliversImages
<1>1. Init => Delivery!DInit
  BY DEF Init, Delivery!DInit, Confirmed, Active
<1>2. IInv /\ [Next]_vars => [Delivery!DNext]_(Delivery!dVars)
  <2> SUFFICES ASSUME IInv, [Next]_vars
               PROVE  Delivery!DNext \/ UNCHANGED Delivery!dVars
    OBVIOUS
  <2>1. CASE UNCHANGED vars
    BY <2>1 DEF vars, params, counters, Confirmed, Delivery!dVars
  <2>2. ASSUME NEW f \in Photos \cup OtherFiles, OnDsFileComplete(f)
        PROVE  UNCHANGED Delivery!dVars
    BY <2>2 DEF OnDsFileComplete, params, counters, Confirmed, Delivery!dVars
  <2>3. CASE OnRequest
    BY <2>3, StartRefines, IgnoreStutters DEF OnRequest
  <2> QED
    BY <2>1, <2>2, <2>3, BeginAckRefines, ChunkAckRefines, SpiDoneRefines,
       ResultRefines, TickRefines DEF Next
<1> QED
  BY <1>1, <1>2, Invariance, PTL DEF Spec, DeliversImages, Delivery!DSpec
=============================================================================
