---------------------------- MODULE ImgXferLink -----------------------------
(***************************************************************************)
(* An image transfer end to end: COMMMC's state machine (ImgXfer), its     *)
(* software-bus pipe, CANIOMC's pipe and main loop, the CAN bus, the SPI   *)
(* link, and the COMM card.                                                *)
(*                                                                         *)
(* COMMMC and CANIOMC are two cFS tasks; each takes one message from its   *)
(* pipe, handles it to the end and takes the next.  The software bus drops *)
(* a message whose destination pipe is full and still tells the sender     *)
(* CFE_SUCCESS.  CANIOMC starts with both drivers, without SPI, or not at  *)
(* all.  The CAN bus may lose a message (a failed or partial SendSegmented *)
(* is a loss).  The card is not in the repository: what it does here is    *)
(* what COMMMC's handlers and the message definitions in                   *)
(* canIOMC_app_header_defs.h ask of it.                                    *)
(*                                                                         *)
(* Time.  COMMMC's idle tick needs five seconds without a message.  The    *)
(* on-board queues drain in milliseconds, so a tick finds them empty; the  *)
(* card may be slower, and is then late from there on.                     *)
(***************************************************************************)
EXTENDS ImgXfer, SequencesExt

CONSTANTS
  CardChunks,   \* chunk sizes the card may answer a BEGIN with
  PipeDepth,    \* COMMMC_PIPE_DEPTH, CANIOMC_PIPE_DEPTH
  MaxRequests,  \* bound: requests the card sends, and wake-ups of CANIOMC
  MaxFaults,    \* bound: CAN losses, dropped bus messages, failed SPI writes
  MaxFiles      \* bound: files DS completes after the first photo

\* A card that refuses a BEGIN answers with chunk size 0.
ASSUME LinkAssumption ==
  /\ CardChunks \cup {0} \subseteq AckChunks
  /\ PipeDepth \in Nat \ {0}
  /\ {MaxRequests, MaxFaults, MaxFiles} \subseteq Nat

VARIABLES
  drivers,   \* those CANIOMC has open: CAN, SPI; neither if it does not run
  commPipe,  \* messages waiting for COMMMC
  ioPipe,    \* messages waiting for CANIOMC
  toCard,    \* complete CAN messages on their way to the card
  fromCard,  \* complete CAN messages CANIOMC has not read yet
  card,      \* the card's side of the transfer
  wire,      \* history: the chunks clocked out on SPI since the transfer began
  late,      \* history: has the card ever left a message waiting that long?
  used       \* how much of each bound is used up

hist     == <<wire, late>>
linkVars == <<vars, drivers, commPipe, ioPipe, toCard, fromCard, card, hist, used>>

NoChunk  == -1
IdleCard == [open |-> FALSE, photo |-> NoPhoto, chunk |-> 0, armed |-> NoChunk, got |-> <<>>]

Spend(what) == used' = [used EXCEPT ![what] = @ + 1]
CanFault    == used.faults < MaxFaults

\* The software bus: a full pipe drops what is sent to it.
Post(pipe, msgs) ==
  SubSeq(pipe \o msgs, 1, IF Len(pipe \o msgs) < PipeDepth THEN Len(pipe \o msgs) ELSE PipeDepth)

\* Opening a device works or fails.
CANIO_HAL_Init       == {{}, {"CAN"}}
CANIOMC_SPI_HAL_Init == {{}, {"SPI"}}

\* The configuration table is registered, loaded and had the address of, or not.
CANIOMC_appTableInit == BOOLEAN

\* Without events, packet, pipe, subscriptions, CAN or table the application does not
\* run; without SPI it does.
CANIOMC_appInit ==
  \E can \in CANIO_HAL_Init, spi \in CANIOMC_SPI_HAL_Init, tableLoaded \in CANIOMC_appTableInit :
    drivers = IF can # {} /\ tableLoaded THEN can \cup spi ELSE {}

CANIOMC_runs == drivers # {}

LinkInit ==
  /\ Init
  /\ CANIOMC_appInit
  /\ commPipe = <<>> /\ ioPipe = <<>> /\ toCard = <<>> /\ fromCard = <<>>
  /\ card = IdleCard
  /\ wire = <<>> /\ late = FALSE
  /\ used = [requests |-> 0, faults |-> 0, files |-> 0]

-----------------------------------------------------------------------------
(***************************************************************************)
(* COMMMC's main loop: one message, or the idle tick.                      *)
(***************************************************************************)
Handle(m) ==
  \/ m.type = "DS_COMP"     /\ OnDsFileComplete(m.file)
  \/ m.type = "IMG_REQUEST" /\ OnRequest
  \/ m.type = "BEGIN_ACK"   /\ OnBeginAck(FALSE, m.status, m.chunk)
  \/ m.type = "CHUNK_ACK"   /\ OnChunkAck(FALSE, m.status, m.idx)
  \/ m.type = "SPI_DONE"    /\ OnSpiDone(m.status, m.idx)
  \/ m.type = "RESULT"      /\ OnResult(m.status)

\* What is sent to CANIOMC; without CANIOMC nobody has subscribed to it.
PostIo(msgs) == ioPipe' = IF CANIOMC_runs THEN Post(ioPipe, msgs) ELSE ioPipe

\* What the handler sent is posted to CANIOMC's pipe; other traffic may fill it.
PostSent ==
  \/ PostIo(sent') /\ UNCHANGED used
  \/ sent' # <<>> /\ CanFault /\ Spend("faults") /\ UNCHANGED ioPipe

\* The history starts afresh with the transfer.
ResetWire == wire' = IF state = "IDLE" THEN <<>> ELSE wire

CommStep ==
  /\ commPipe # <<>>
  /\ commPipe' = Tail(commPipe)
  /\ Handle(Head(commPipe))
  /\ PostSent
  /\ ResetWire
  /\ UNCHANGED <<drivers, toCard, fromCard, card, late>>

CommTick ==
  /\ commPipe = <<>> /\ ioPipe = <<>> /\ (CANIOMC_runs => fromCard = <<>>)
  /\ late' = (late \/ toCard # <<>>)
  /\ state # "IDLE"
  /\ OnTick
  /\ PostSent
  /\ UNCHANGED <<drivers, commPipe, toCard, fromCard, card, wire>>

-----------------------------------------------------------------------------
(***************************************************************************)
(* CANIOMC's main loop.                                                    *)
(***************************************************************************)

\* CANIO_HAL_Send of a message's frames: they are on the bus, or a write fails.
CanSend(msg) ==
  \/ toCard' = Append(toCard, msg) /\ UNCHANGED used
  \/ CanFault /\ Spend("faults") /\ UNCHANGED toCard

\* PollAndPublishCanRx: everything received so far is read and routed to COMMMC.
PollAndPublish == commPipe' = Post(commPipe, fromCard) /\ fromCard' = <<>>

\* ProcessSBCanPacket: a CANIOMC_CMD message goes out on CAN; then the bus is polled.
IoSendCan ==
  /\ ioPipe # <<>> /\ Head(ioPipe).type \in {"BEGIN", "CHUNK_READY", "END", "ABORT"}
  /\ ioPipe' = Tail(ioPipe)
  /\ CanSend(Head(ioPipe))
  /\ PollAndPublish
  /\ UNCHANGED <<vars, drivers, card, hist>>

\* A message whose handling the transfer does not notice.
IoOther(type) ==
  /\ ioPipe # <<>> /\ Head(ioPipe).type = type
  /\ ioPipe' = Tail(ioPipe)
  /\ UNCHANGED <<vars, drivers, commPipe, toCard, fromCard, card, hist, used>>

\* A frame without data to everybody, which the card drops; and CANIOMC's own packet,
\* which HK's table does not name.
CANIOMC_APP_SEND_HEARTBEAT == IoOther("SEND_HEARTBEAT")
CANIOMC_APP_SEND_HK_TO_SB  == IoOther("SEND_HK")

IoBeat == CANIOMC_APP_SEND_HEARTBEAT \/ CANIOMC_APP_SEND_HK_TO_SB

\* The ten-millisecond receive timeout.
IoPoll ==
  /\ CANIOMC_runs
  /\ ioPipe = <<>> /\ fromCard # <<>>
  /\ PollAndPublish
  /\ UNCHANGED <<vars, drivers, ioPipe, toCard, card, hist, used>>

\* Bytes on SPI reach the card's buffer only while it is armed for a chunk.
CardReceives(piece) ==
  card' = IF card.armed = NoChunk THEN card
          ELSE [card EXCEPT !.got = Append(@, piece), !.armed = NoChunk]

\* Mutant: the outcome of the write is not reported.
SpiDoneAlwaysOk(idx, status) == [type |-> "SPI_DONE", idx |-> idx, status |-> 0]

SpiDoneMsg(idx, status) == [type |-> "SPI_DONE", idx |-> idx, status |-> status]

\* CANIOMC_SPI_HAL_Write of a chunk, which is one burst: it is clocked out if the
\* device is open, or the transfer fails.
SpiWrite(m, ok) ==
  IF ok
  THEN /\ "SPI" \in drivers
       /\ wire' = Append(wire, m.piece)
       /\ CardReceives([photo |-> m.photo, piece |-> m.piece])
  ELSE UNCHANGED <<wire, card>>

\* ProcessSpiTx: the chunk is clocked out or the write fails, and COMMMC is told
\* which; a full pipe may swallow the notice.
IoSpiTx ==
  /\ ioPipe # <<>> /\ Head(ioPipe).type = "SPI_TX"
  /\ ioPipe' = Tail(ioPipe)
  /\ LET m == Head(ioPipe) IN
     \/ /\ SpiWrite(m, TRUE)
        /\ \/ commPipe' = Post(commPipe, <<SpiDoneMsg(m.idx, 0)>>) /\ UNCHANGED used
           \/ CanFault /\ Spend("faults") /\ UNCHANGED commPipe
     \/ /\ IF "SPI" \in drivers THEN CanFault /\ Spend("faults") ELSE UNCHANGED used
        /\ SpiWrite(m, FALSE)
        /\ commPipe' = Post(commPipe, <<SpiDoneMsg(m.idx, 1)>>)
  /\ UNCHANGED <<vars, drivers, toCard, fromCard, late>>

-----------------------------------------------------------------------------
(***************************************************************************)
(* The card (external).                                                    *)
(***************************************************************************)
Reply(m) == fromCard' = Append(fromCard, m)

OnBegin(m) ==
  \/ \E chunk \in CardChunks :
       /\ card' = [open |-> TRUE, photo |-> m.photo, chunk |-> chunk,
                   armed |-> NoChunk, got |-> <<>>]
       /\ Reply([type |-> "BEGIN_ACK", status |-> 0, chunk |-> chunk])
  \/ /\ card' = IdleCard
     /\ Reply([type |-> "BEGIN_ACK", status |-> 1, chunk |-> 0])

OnChunkReady(m) ==
  LET ready == card.open /\ m.idx = Len(card.got) % IdxMod IN
  /\ card' = IF ready THEN [card EXCEPT !.armed = m.idx] ELSE card
  /\ Reply([type |-> "CHUNK_ACK", status |-> IF ready THEN 0 ELSE 1, idx |-> m.idx])

\* The photo announced is complete when its slices have all arrived (the CRC).
CardHolds(photo) ==
  /\ card.open /\ card.photo = photo
  /\ card.got = [i \in 1 .. NumChunks(PhotoSize[photo], card.chunk) |->
                   [photo |-> photo, piece |-> Piece(i - 1, PhotoSize[photo], card.chunk)]]

\* The photo in the reply is history; the CAN message carries the status alone.
OnEnd ==
  /\ card' = IdleCard
  /\ Reply([type |-> "RESULT", status |-> IF CardHolds(card.photo) THEN 0 ELSE 1,
            photo |-> card.photo])

CardStep ==
  /\ toCard # <<>>
  /\ toCard' = Tail(toCard)
  /\ LET m == Head(toCard) IN
     \/ m.type = "BEGIN"       /\ OnBegin(m)
     \/ m.type = "CHUNK_READY" /\ OnChunkReady(m)
     \/ m.type = "END"         /\ OnEnd
     \/ m.type = "ABORT"       /\ card' = IdleCard /\ UNCHANGED fromCard
  /\ UNCHANGED <<vars, drivers, commPipe, ioPipe, hist, used>>

\* The card asks for the last photo, whenever it likes.
CardRequests ==
  /\ used.requests < MaxRequests
  /\ Spend("requests")
  /\ Reply([type |-> "IMG_REQUEST"])
  /\ UNCHANGED <<vars, drivers, commPipe, ioPipe, toCard, card, hist>>

LoseFromCard ==
  /\ fromCard # <<>> /\ CanFault /\ Spend("faults")
  /\ fromCard' = Tail(fromCard)
  /\ UNCHANGED <<vars, drivers, commPipe, ioPipe, toCard, card, hist>>

\* DS closes a file and announces it.
DsCompletes ==
  /\ used.files < MaxFiles
  /\ Spend("files")
  /\ \E f \in Photos : commPipe' = Post(commPipe, <<[type |-> "DS_COMP", file |-> f]>>)
  /\ UNCHANGED <<vars, drivers, ioPipe, toCard, fromCard, card, hist>>

\* The scheduler, or the ground, wakes CANIOMC.
WakeIo ==
  /\ used.requests < MaxRequests
  /\ Spend("requests")
  /\ \E type \in {"SEND_HEARTBEAT", "SEND_HK"} : PostIo(<<[type |-> type]>>)
  /\ UNCHANGED <<vars, drivers, commPipe, toCard, fromCard, card, hist>>

Work == CommStep \/ CommTick \/ IoSendCan \/ IoBeat \/ IoPoll \/ IoSpiTx \/ CardStep

\* Nothing is on its way and nobody waits for anything: the one place to stop.
Rest ==
  /\ state = "IDLE"
  /\ commPipe = <<>> /\ ioPipe = <<>> /\ toCard = <<>>
  /\ CANIOMC_runs => fromCard = <<>>
  /\ UNCHANGED linkVars

LinkNext == Work \/ CardRequests \/ LoseFromCard \/ DsCompletes \/ WakeIo \/ Rest

LinkSpec == LinkInit /\ [][LinkNext]_linkVars

\* Each task keeps taking messages from its pipe, the idle timeout fires when
\* nothing arrives, and the card keeps answering.
LinkFairness ==
  /\ WF_linkVars(CommStep) /\ WF_linkVars(CommTick)
  /\ WF_linkVars(IoSendCan) /\ WF_linkVars(IoBeat) /\ WF_linkVars(IoPoll) /\ WF_linkVars(IoSpiTx)
  /\ WF_linkVars(CardStep)

LinkFairSpec == LinkSpec /\ LinkFairness

-----------------------------------------------------------------------------
(***************************************************************************)
(* Properties.                                                             *)
(***************************************************************************)
\* COMMMC only advances to the next chunk once the bytes are physically on the
\* wire: whenever it has asked for the next chunk or for the result, the chunks
\* clocked out in this transfer are exactly those it handed over; a stale or
\* misattributed SPI_TX_DONE never lets it run ahead.
OnWireBeforeAdvance ==
  /\ state \in {"WAIT_CHUNK_ACK", "WAIT_RESULT"} => wire = handed
  /\ state = "WAIT_SPI_DONE" => wire = handed \/ wire = Front(handed)

\* As long as the card answers within COMMMC's receive timeout, both sides agree
\* about what chunk a slice is whenever one may be clocked out: the card is armed
\* for it, of that photo, and expects the chunk size COMMMC cuts the file with.
SidesAgree ==
  ~ late => \A i \in DOMAIN ioPipe : ioPipe[i].type = "SPI_TX" =>
    /\ card.armed = ioPipe[i].idx
    /\ card.photo = ioPipe[i].photo
    /\ card.chunk = chunkSize

\* As long as the card answers within COMMMC's receive timeout, a transfer is counted
\* as sent OK only for the card's verdict on the photo that was sent.  RESULT carries no
\* session, so nothing but the order of events keeps the verdict on an earlier transfer
\* from being taken for this one's.
SuccessIsThisPhotos ==
  [][ ~ late /\ okCount' # okCount => Head(commPipe).photo = xferFile ]_linkVars

\* Whatever is lost, dropped or refused, every transfer comes to an end.
TransferEnds == (state \in Active) ~> (state = "IDLE")
=============================================================================
