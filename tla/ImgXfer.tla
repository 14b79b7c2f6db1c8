------------------------------ MODULE ImgXfer ------------------------------
(***************************************************************************)
(* COMMMC's image-transfer state machine (commMC_app_imgxfer.c): the       *)
(* transfer master that hands the last photo, chunk by chunk, to CANIOMC's *)
(* SPI service while a handshake with the COMM card runs over CAN.         *)
(*                                                                         *)
(* There is one action per entry point.  The module is open: a handler may *)
(* be called in any state with any message the entry point can be given,   *)
(* which covers late, repeated, reordered and foreign messages.            *)
(* ImgXferLink closes it with the software-bus pipes, CANIOMC, the CAN bus *)
(* and the card.  All handlers run in COMMMC's main task, so each one is   *)
(* one step.                                                               *)
(***************************************************************************)
EXTENDS Integers, Sequences

CONSTANTS
  Photos,         \* photo files DS can complete, under /cf/photos
  OtherFiles,     \* files of DS's other destinations
  NoPhoto,        \* "no photo cached" and "no file open"
  PhotoSize,      \* bytes in each photo file
  MaxChunk,       \* CANIOMC_SPI_MAX_CHUNK = COMMMC_IMGXFER_DEFAULT_CHUNK
  AckChunks,      \* chunk sizes a BEGIN_ACK may carry (uint16)
  IdxMod,         \* 2^16: chunk indices are uint16 on CAN and in SPI messages
  MaxStuckTicks,  \* COMMMC_IMGXFER_MAX_STUCK_TICKS
  CounterMod      \* 2^8: the command counters are uint8

ASSUME PhotosAssumption ==
  /\ NoPhoto \notin Photos
  /\ PhotoSize \in [Photos -> Nat]
ASSUME WidthsAssumption ==
  /\ MaxChunk \in Nat \ {0}
  /\ AckChunks \subseteq Nat
  /\ IdxMod \in Nat \ {0}
  /\ MaxStuckTicks \in Nat \ {0}
  /\ CounterMod \in Nat \ {0, 1}

VARIABLES
  state,        \* XferState
  lastPhoto,    \* LastPhotoPath, NoPhoto when HasLastPhoto is false
  xferFile,     \* XferFile: the photo open for reading, or NoPhoto
  totalSize,    \* XferTotalSize
  chunkSize,    \* XferChunkSize
  totalChunks,  \* XferTotalChunks
  curChunk,     \* XferCurChunk
  stuckTicks,   \* XferStuckTicks
  okCount,      \* what transfers add to CmdCounter
  errCount,     \* what transfers add to ErrCounter
  sent,         \* the messages the last handler put on the software bus
  handed        \* history: the chunks this transfer handed to the SPI service

params   == <<totalSize, chunkSize, totalChunks>>
counters == <<okCount, errCount>>
vars == <<state, lastPhoto, xferFile, params, curChunk, stuckTicks, counters,
          sent, handed>>

Active == {"WAIT_BEGIN_ACK", "WAIT_CHUNK_ACK", "WAIT_SPI_DONE", "WAIT_RESULT"}
States == {"IDLE"} \cup Active
Index  == 0 .. IdxMod - 1

(***************************************************************************)
(* Messages to CANIOMC.  Byte layout is left out; the index is truncated   *)
(* to uint16 exactly where the code casts it.                              *)
(***************************************************************************)
BeginMsg(photo, size, chunk) ==
  [type |-> "BEGIN", photo |-> photo, size |-> size, chunk |-> chunk]
ChunkReadyMsg(i)         == [type |-> "CHUNK_READY", idx |-> i % IdxMod]
SpiTxMsg(photo, i, piece) ==
  [type |-> "SPI_TX", idx |-> i % IdxMod, photo |-> photo, piece |-> piece]
EndMsg                   == [type |-> "END"]
AbortMsg                 == [type |-> "ABORT"]

\* Mutant: a size that is a multiple of the chunk's gets a chunk too many.
NumChunksOneMore(size, chunk) == size \div chunk + 1

NumChunks(size, chunk) == (size + chunk - 1) \div chunk

\* Mutant: the last slice is not cut off at the end of the file.
PieceUncut(i, size, chunk) == [off |-> i * chunk, len |-> chunk]

\* The slice of the file that chunk i is: what SendSpiChunk seeks to and reads.
Piece(i, size, chunk) ==
  [off |-> i * chunk,
   len |-> IF size - i * chunk < chunk THEN size - i * chunk ELSE chunk]

(***************************************************************************)
(* Effects shared by the handlers.                                         *)
(***************************************************************************)
Quiet    == sent' = <<>>
Send(m)  == sent' = <<m>>
Ignore   == /\ Quiet
            /\ UNCHANGED <<state, lastPhoto, xferFile, params, curChunk,
                           stuckTicks, counters, handed>>
CountErr == errCount' = (errCount + 1) % CounterMod /\ UNCHANGED okCount
CountOk  == okCount' = (okCount + 1) % CounterMod /\ UNCHANGED errCount

\* Mutant: the handle is forgotten.
CloseLeaking == state' = "IDLE" /\ UNCHANGED xferFile

\* CloseXferFile and back to IDLE, the part Abort and Finish share.
Close == state' = "IDLE" /\ xferFile' = NoPhoto

\* Mutant: an aborted transfer is not counted.
AbortUncounted ==
  /\ Close
  /\ UNCHANGED counters
  /\ Quiet \/ Send(AbortMsg)

\* The ABORT to the card is best effort: its own transmission may fail.
Abort ==
  /\ Close
  /\ CountErr
  /\ Quiet \/ Send(AbortMsg)

Init ==
  /\ state = "IDLE"
  /\ lastPhoto = NoPhoto
  /\ xferFile = NoPhoto
  /\ totalSize = 0 /\ chunkSize = 0 /\ totalChunks = 0
  /\ curChunk = 0
  /\ stuckTicks = 0
  /\ okCount = 0 /\ errCount = 0
  /\ sent = <<>>
  /\ handed = <<>>

-----------------------------------------------------------------------------
(***************************************************************************)
(* The entry points.                                                       *)
(***************************************************************************)

\* Mutant: the open file follows the cached path.
OnDsFileCompleteReopens(f) ==
  /\ lastPhoto' = IF f \in Photos THEN f ELSE lastPhoto
  /\ xferFile' = IF f \in Photos /\ state # "IDLE" THEN f ELSE xferFile
  /\ Quiet
  /\ UNCHANGED <<state, params, curChunk, stuckTicks, counters, handed>>

\* DS completed file f; only files of the photo destination are cached.
OnDsFileComplete(f) ==
  /\ lastPhoto' = IF f \in Photos THEN f ELSE lastPhoto
  /\ Quiet
  /\ UNCHANGED <<state, xferFile, params, curChunk, stuckTicks, counters, handed>>

\* The photo is sized and opened, the parameters reset, and BEGIN sent.
StartTransfer ==
  /\ state = "IDLE"
  /\ lastPhoto # NoPhoto
  /\ PhotoSize[lastPhoto] # 0
  /\ totalSize' = PhotoSize[lastPhoto]
  /\ chunkSize' = MaxChunk
  /\ totalChunks' = NumChunks(PhotoSize[lastPhoto], MaxChunk)
  /\ curChunk' = 0
  /\ stuckTicks' = 0
  /\ handed' = <<>>
  /\ UNCHANGED lastPhoto
  /\ \/ /\ Send(BeginMsg(lastPhoto, PhotoSize[lastPhoto], MaxChunk))
        /\ state' = "WAIT_BEGIN_ACK"
        /\ xferFile' = lastPhoto
        /\ UNCHANGED counters
     \/ Abort

\* A request is ignored while a transfer runs and before the first photo; path
\* translation, either fopen or a read may also fail on any call.
OnRequest == StartTransfer \/ Ignore

\* Mutants: no upper limit; the count not recomputed; COMM's size disregarded.
AdoptUnlimited(chunk) ==
  IF chunk > 0
  THEN /\ chunkSize' = chunk
       /\ totalChunks' = NumChunks(totalSize, chunk)
  ELSE UNCHANGED <<chunkSize, totalChunks>>
AdoptSizeOnly(chunk) ==
  /\ chunkSize' = IF chunk \in 1 .. MaxChunk THEN chunk ELSE chunkSize
  /\ UNCHANGED totalChunks
AdoptNothing(chunk) == UNCHANGED <<chunkSize, totalChunks>>

\* COMM's chunk size is adopted when it is usable, and the count recomputed.
AdoptChunk(chunk) ==
  IF chunk \in 1 .. MaxChunk
  THEN /\ chunkSize' = chunk
       /\ totalChunks' = NumChunks(totalSize, chunk)
  ELSE UNCHANGED <<chunkSize, totalChunks>>

OnBeginAck(short, status, chunk) ==
  IF state # "WAIT_BEGIN_ACK" THEN Ignore
  ELSE
    /\ UNCHANGED <<lastPhoto, totalSize, handed>>
    /\ IF short \/ status # 0
       THEN Abort /\ UNCHANGED <<chunkSize, totalChunks, curChunk, stuckTicks>>
       ELSE /\ AdoptChunk(chunk)
            /\ curChunk' = 0
            /\ stuckTicks' = 0
            /\ \/ /\ Send(ChunkReadyMsg(0))
                  /\ state' = "WAIT_CHUNK_ACK"
                  /\ UNCHANGED <<xferFile, counters>>
               \/ Abort

\* Mutant: the slice is read from the photo that is last by now.
SendSpiChunkOfLast ==
  LET piece == Piece(curChunk, totalSize, chunkSize) IN
  /\ piece.off < totalSize
  /\ Send(SpiTxMsg(lastPhoto, curChunk, piece))
  /\ handed' = Append(handed, piece)

\* SendSpiChunk: the slice must start inside the file; seek, read and transmit
\* may each fail, which the caller turns into an abort.
SendSpiChunk ==
  LET piece == Piece(curChunk, totalSize, chunkSize) IN
  /\ piece.off < totalSize
  /\ xferFile # NoPhoto
  /\ Send(SpiTxMsg(xferFile, curChunk, piece))
  /\ handed' = Append(handed, piece)

OnChunkAck(short, status, idx) ==
  IF state # "WAIT_CHUNK_ACK" THEN Ignore
  ELSE
    /\ UNCHANGED <<lastPhoto, params, curChunk>>
    /\ \/ Abort /\ UNCHANGED <<stuckTicks, handed>>
       \/ /\ ~short /\ status = 0 /\ idx = curChunk % IdxMod
          /\ SendSpiChunk
          /\ stuckTicks' = 0
          /\ state' = "WAIT_SPI_DONE"
          /\ UNCHANGED <<xferFile, counters>>

\* After the last chunk END is sent, before that the next CHUNK_READY.
OnSpiDone(status, idx) ==
  IF state # "WAIT_SPI_DONE" THEN Ignore
  ELSE
    /\ UNCHANGED <<lastPhoto, params, handed>>
    /\ IF status # 0 \/ idx # curChunk % IdxMod
       THEN Abort /\ UNCHANGED <<curChunk, stuckTicks>>
       ELSE /\ curChunk' = curChunk + 1
            /\ stuckTicks' = 0
            /\ \/ /\ IF curChunk + 1 < totalChunks
                     THEN Send(ChunkReadyMsg(curChunk + 1)) /\ state' = "WAIT_CHUNK_ACK"
                     ELSE Send(EndMsg) /\ state' = "WAIT_RESULT"
                  /\ UNCHANGED <<xferFile, counters>>
               \/ Abort

\* Mutant: a RESULT is believed in any state.
OnResultAlways(status) ==
  /\ Close
  /\ Quiet
  /\ IF status = 0 THEN CountOk ELSE CountErr
  /\ UNCHANGED <<lastPhoto, params, curChunk, stuckTicks, handed>>

OnResult(status) ==
  IF state # "WAIT_RESULT" THEN Ignore
  ELSE
    /\ Close
    /\ Quiet
    /\ IF status = 0 THEN CountOk ELSE CountErr
    /\ UNCHANGED <<lastPhoto, params, curChunk, stuckTicks, handed>>

\* Mutants: the guard fires a tick early; the wait for RESULT is not guarded.
OnTickEarly ==
  IF state = "IDLE" THEN Ignore
  ELSE
    /\ stuckTicks' = stuckTicks + 1
    /\ UNCHANGED <<lastPhoto, params, curChunk, handed>>
    /\ IF stuckTicks + 2 >= MaxStuckTicks
       THEN Abort
       ELSE Quiet /\ UNCHANGED <<state, xferFile, counters>>
OnTickSparesResult ==
  IF state \in {"IDLE", "WAIT_RESULT"} THEN Ignore
  ELSE
    /\ stuckTicks' = stuckTicks + 1
    /\ UNCHANGED <<lastPhoto, params, curChunk, handed>>
    /\ IF stuckTicks + 1 >= MaxStuckTicks
       THEN Abort
       ELSE Quiet /\ UNCHANGED <<state, xferFile, counters>>

\* The main loop's software-bus timeout.
OnTick ==
  IF state = "IDLE" THEN Ignore
  ELSE
    /\ stuckTicks' = stuckTicks + 1
    /\ UNCHANGED <<lastPhoto, params, curChunk, handed>>
    /\ IF stuckTicks + 1 >= MaxStuckTicks
       THEN Abort
       ELSE Quiet /\ UNCHANGED <<state, xferFile, counters>>

Next ==
  \/ \E f \in Photos \cup OtherFiles : OnDsFileComplete(f)
  \/ OnRequest
  \/ \E short \in BOOLEAN, status \in {0, 1}, chunk \in AckChunks :
       OnBeginAck(short, status, chunk)
  \/ \E short \in BOOLEAN, status \in {0, 1}, idx \in Index :
       OnChunkAck(short, status, idx)
  \/ \E status \in {0, 1}, idx \in Index : OnSpiDone(status, idx)
  \/ \E status \in {0, 1} : OnResult(status)
  \/ OnTick

Spec == Init /\ [][Next]_vars

-----------------------------------------------------------------------------
(***************************************************************************)
(* Properties.                                                             *)
(***************************************************************************)
Pieces   == [off : Nat, len : Nat]
Messages ==
  [type : {"BEGIN"}, photo : Photos, size : Nat, chunk : Nat]
    \cup [type : {"CHUNK_READY"}, idx : Index]
    \cup [type : {"SPI_TX"}, idx : Index, photo : Photos, piece : Pieces]
    \cup [type : {"END", "ABORT"}]

\* Every variable keeps to the range of the C field it models.
TypeOK ==
  /\ state \in States
  /\ lastPhoto \in Photos \cup {NoPhoto}
  /\ xferFile \in Photos \cup {NoPhoto}
  /\ totalSize \in Nat
  /\ chunkSize \in 0 .. MaxChunk
  /\ totalChunks \in Nat
  /\ curChunk \in Nat
  /\ stuckTicks \in 0 .. MaxStuckTicks
  /\ okCount \in 0 .. CounterMod - 1
  /\ errCount \in 0 .. CounterMod - 1
  /\ sent \in Seq(Messages)
  /\ handed \in Seq(Pieces)

\* When END has been sent, every byte of the photo was handed to the SPI
\* service in exactly one chunk: whatever size BEGIN_ACK negotiated and however
\* often the uint16 chunk index wrapped, no byte is missing and none repeated.
ImageCovered ==
  state = "WAIT_RESULT" =>
    \A b \in 0 .. totalSize - 1 : \E i \in DOMAIN handed :
      /\ handed[i].off <= b /\ b < handed[i].off + handed[i].len
      /\ \A j \in DOMAIN handed \ {i} :
           b < handed[j].off \/ handed[j].off + handed[j].len <= b

\* Chunks are handed over in file order without a gap, each one non-empty,
\* inside the file, and no larger than the SPI packet's Data array.
HandedInOrder ==
  state \in Active =>
    \A i \in DOMAIN handed :
      /\ handed[i].len \in 1 .. MaxChunk
      /\ handed[i].off + handed[i].len <= totalSize
      /\ handed[i].off = IF i = 1 THEN 0 ELSE handed[i-1].off + handed[i-1].len

\* The chunk the card has been asked for exists in the file, so SendSpiChunk's
\* own range check never turns a running transfer into an abort.
ChunkInRange ==
  state \in {"WAIT_CHUNK_ACK", "WAIT_SPI_DONE"} => curChunk * chunkSize < totalSize

\* The FILE handle is open exactly while a transfer runs: no path out of a
\* transfer leaks it and none closes it early.
FileOpenIffActive == (xferFile # NoPhoto) <=> (state \in Active)

\* A transfer that ends is counted once, as a success or as an error, and no
\* command counter moves while it goes on.
OneOutcomePerTransfer ==
  [][ (state \in Active) =>
        IF state' \in Active THEN UNCHANGED counters
        ELSE UNCHANGED okCount <=> errCount' # errCount ]_vars

\* The photo being sent is the one that was last when the request arrived: a
\* photo DS completes meanwhile changes neither the open file nor the announced
\* size, and the chunk size is settled before the first chunk goes out.
TransferIsOfOnePhoto ==
  [][ (state \in Active /\ state' \in Active) =>
        /\ UNCHANGED <<xferFile, totalSize>>
        /\ state # "WAIT_BEGIN_ACK" => UNCHANGED <<chunkSize, totalChunks>>
        /\ \A i \in DOMAIN sent' :
             sent'[i].type = "SPI_TX" => sent'[i].photo = xferFile ]_vars

\* While a transfer runs its idle timeouts stay below the abort threshold: no
\* path through the handlers restarts a transfer with ticks already on the clock
\* or leaves one running past the guard.
GuardArmed == state \in Active => stuckTicks < MaxStuckTicks
=============================================================================
