---------------------------- MODULE PhotoCapture ----------------------------
(***************************************************************************)
(* PAYLOADMC's cameras and its photos: the take-photo command starts the   *)
(* cameras' streams, the capture command puts one frame together from the  *)
(* packets that arrive, cuts it into chunks for DS and has DS close the    *)
(* file (payloadMC_app_cmds.c, payloadMC_gvcp_hal_udp.c).  While it        *)
(* captures, PAYLOADMC's task does nothing else.                           *)
(*                                                                         *)
(* All cameras send to one UDP port.  A frame is a block of packets: a     *)
(* leader, FrameSize packets of pixels, a trailer.  Packets of a camera    *)
(* may be lost but keep their order.  What a packet of pixels carries is   *)
(* named after capture, camera, block and place.                           *)
(***************************************************************************)
EXTENDS Integers, Sequences, FiniteSets

CONSTANTS
  Cameras,    \* PAYLOADMC_NUM_CAMERAS of them
  FrameSize,  \* width times height, in packets of pixels
  Blocks,     \* bound: blocks a camera sends during one capture
  ChunkSize,  \* PAYLOADMC_PHOTO_CHUNK_MAX_PAYLOAD, in such packets
  MaxRetries, \* PAYLOADMC_PHOTO_CHUNK_MAX_RETRIES
  DsDepth,    \* DS's pipe limit
  FileLimit   \* MaxFileSize of the destination of the photos, in chunk messages: all of one size

ASSUME PhotoAssumption ==
  {FrameSize, Blocks, ChunkSize, DsDepth, FileLimit} \subseteq Nat \ {0} /\ IsFiniteSet(Cameras)

VARIABLES
  imaging,   \* IsImaging
  ready,     \* CamInitialized
  streaming, \* cameras that send packets
  doing,     \* where captureFrame is: "NONE", "RECEIVE", "SEND", "CLOSE"
  next,      \* per camera: the packet it sends next in this capture
  gvsp,      \* frame, haveLeader and curBlock of CaptureFrame
  picture,   \* frameBuf: the header and the pixels
  offset,    \* what of it has been sent
  retry,     \* transmissions of this chunk that have failed
  dsPipe,    \* DS's pipe
  dsFile,    \* what the open photo file holds; <<>>: none is open
  dsSize,    \* its FileSize, in chunk messages
  dsOn,      \* DS and the destination of the photos are enabled
  completed, \* the photo files DS has completed in its last step
  shot,      \* history: captures so far
  spoilt,    \* history: captures of which something was lost, mixed or not stored,
             \* or that DS has cut in two
  unclosed   \* history: captures whose close command never reached DS

camera    == <<imaging, ready, streaming>>
sending   == <<picture, offset, retry>>
ds        == <<dsPipe, dsFile, dsSize, dsOn, completed>>
fates     == <<shot, spoilt, unclosed>>
photoVars == <<camera, doing, next, gvsp, sending, ds, fates>>

PerBlock == FrameSize + 2
LastPacket == Blocks * PerBlock

\* The i-th packet of a camera, counted from 0.
Packet(c, i) ==
  LET block == i \div PerBlock
      k == i % PerBlock
  IN [block |-> block,
      format |-> IF k = 0 THEN "LEADER" ELSE IF k > FrameSize THEN "TRAILER" ELSE "PAYLOAD",
      data |-> [shot |-> shot, camera |-> c, block |-> block, k |-> k]]

PgmHeader == [shot |-> shot, camera |-> "NONE", block |-> 0, k |-> 0]

NoFrame == [frame |-> <<>>, have |-> FALSE, block |-> 0]

-----------------------------------------------------------------------------
\* Commanding the cameras.  A camera can do all it is told, do it although its
\* last answer is lost, or refuse on the way (GVCP_WriteReg).
Outcomes == {"DONE", "NO_ANSWER", "REFUSED"}

\* PAYLOADMC_takePhoto.  Imaging mode is entered whatever has become of the cameras.
TakePhoto(outcome) ==
  /\ ready' = {c \in Cameras : outcome[c] = "DONE"}
  /\ streaming' = streaming \cup {c \in Cameras : outcome[c] # "REFUSED"}
  /\ imaging' = TRUE
  /\ UNCHANGED <<doing, next, gvsp, sending, ds, fates>>

\* PAYLOADMC_SendGvcpHeartbeatIfImaging reads a register of the cameras that are
\* ready; a lost answer does not matter.  A camera not asked in time may stop.
SendGvcpHeartbeat ==
  /\ \E lapsed \in SUBSET (streaming \ ready) :
       streaming' = IF imaging THEN streaming \ lapsed ELSE streaming
  /\ UNCHANGED <<imaging, ready, doing, next, gvsp, sending, ds, fates>>

-----------------------------------------------------------------------------
\* PAYLOADMC_captureFrame.  The port is bound now, so a camera may be in the
\* middle of a block.
CaptureFrame ==
  IF imaging
  THEN /\ doing' = "RECEIVE"
       /\ next' \in {n \in [Cameras -> 0 .. LastPacket] :
                       \A c \in Cameras : IF c \in streaming THEN n[c] < PerBlock
                                          ELSE n[c] = LastPacket}
       /\ gvsp' = NoFrame
       /\ shot' = shot + 1
       /\ spoilt' = IF Cardinality(streaming) > 1 THEN spoilt \cup {shot + 1} ELSE spoilt
       /\ UNCHANGED <<camera, sending, ds, unclosed>>
  ELSE UNCHANGED photoVars

\* Mutant: the block number is not compared.
OfAnyFrame(p) == gvsp.have

OfThisFrame(p) == gvsp.have /\ p.block = gvsp.block

\* PAYLOADMC_GVCP_HAL_CaptureFrame, one packet: a leader begins the frame anew,
\* pixels of its block are added in the order they come, and a trailer that comes
\* too early ends it.
Received(p) ==
  CASE p.format = "LEADER" ->
         [frame |-> <<>>, have |-> TRUE, block |-> p.block]
    [] p.format = "PAYLOAD" /\ OfThisFrame(p) ->
         IF Len(gvsp.frame) < FrameSize
         THEN [gvsp EXCEPT !.frame = Append(@, p.data)] ELSE gvsp
    [] p.format = "TRAILER" /\ OfThisFrame(p) ->
         [gvsp EXCEPT !.have = Len(gvsp.frame) >= FrameSize]
    [] OTHER -> gvsp

Complete(p) ==
  /\ p.format = "TRAILER" /\ OfThisFrame(p)
  /\ Len(gvsp.frame) >= FrameSize

Arrive(c) ==
  /\ doing = "RECEIVE" /\ next[c] < LastPacket
  /\ next' = [next EXCEPT ![c] = @ + 1]
  /\ LET p == Packet(c, next[c])
     IN IF Complete(p)
        THEN /\ picture' = <<PgmHeader>> \o gvsp.frame
             /\ offset' = 0 /\ retry' = 0
             /\ doing' = "SEND"
             /\ gvsp' = NoFrame
        ELSE /\ gvsp' = Received(p)
             /\ UNCHANGED <<doing, sending>>
  /\ UNCHANGED <<camera, ds, fates>>

LosePacket(c) ==
  /\ doing = "RECEIVE" /\ next[c] < LastPacket
  /\ next' = [next EXCEPT ![c] = @ + 1]
  /\ UNCHANGED <<camera, doing, gvsp, sending, ds, fates>>

\* No packet for GVSP_RECV_IDLE_LIMIT seconds; or there is no socket or no memory
\* to be had, which can happen at any time.
CaptureFails ==
  /\ doing = "RECEIVE"
  /\ doing' = "NONE"
  /\ gvsp' = NoFrame
  /\ UNCHANGED <<camera, next, sending, ds, fates>>

-----------------------------------------------------------------------------
\* The message at hand does not reach DS.
Lost ==
  IF doing = "CLOSE" THEN unclosed' = unclosed \cup {shot} /\ UNCHANGED spoilt
                     ELSE spoilt' = spoilt \cup {shot} /\ UNCHANGED unclosed

\* CFE_SB_TransmitMsg to DS: it succeeds too when DS's pipe is full, of these
\* messages or of what else DS stores, and the message is dropped.
ToDs(msg) ==
  \/ Len(dsPipe) < DsDepth /\ dsPipe' = Append(dsPipe, msg) /\ UNCHANGED <<spoilt, unclosed>>
  \/ Lost /\ UNCHANGED dsPipe

Chunk == SubSeq(picture, offset + 1,
                IF offset + ChunkSize < Len(picture) THEN offset + ChunkSize ELSE Len(picture))

\* The message at hand is done with: the next chunk, the close command, the end.
Proceed ==
  /\ retry' = 0
  /\ IF doing = "CLOSE"
     THEN doing' = "NONE" /\ picture' = <<>> /\ offset' = 0
     ELSE /\ offset' = offset + ChunkSize
          /\ doing' = IF offset + ChunkSize < Len(picture) THEN "SEND" ELSE "CLOSE"
          /\ UNCHANGED picture

\* A transmission of the loop in PAYLOADMC_captureFrame, or of
\* PAYLOADMC_APP_CLOSE_DS_PHOTO_FILE.
Transmit ==
  /\ doing \in {"SEND", "CLOSE"}
  /\ ToDs(IF doing = "SEND" THEN [kind |-> "CHUNK", data |-> Chunk] ELSE [kind |-> "CLOSE"])
  /\ Proceed
  /\ UNCHANGED <<camera, next, gvsp, dsFile, dsSize, dsOn, completed, shot>>

\* The software bus has no buffer: try again, after MaxRetries give up.
TransmitFails ==
  /\ doing \in {"SEND", "CLOSE"}
  /\ IF retry < MaxRetries
     THEN retry' = retry + 1 /\ UNCHANGED <<doing, picture, offset, spoilt, unclosed>>
     ELSE Lost /\ Proceed
  /\ UNCHANGED <<camera, next, gvsp, ds, shot>>

-----------------------------------------------------------------------------
(***************************************************************************)
(* DS, as far as the photo file goes; DsFile has its names, headers, ages, *)
(* sequence counts and resets.  A file is open while it has something in   *)
(* it: one whose header cannot be written is closed again.                 *)
(***************************************************************************)
CloseNext == dsPipe # <<>> /\ Head(dsPipe).kind = "CLOSE"

ChunkNext == dsPipe # <<>> /\ Head(dsPipe).kind = "CHUNK"

Payload == Head(dsPipe).data

\* The captures of which more is to come, in DS's pipe or from PAYLOADMC.
OnItsWay ==
  {dsPipe[i].data[1].shot : i \in {j \in DOMAIN dsPipe : dsPipe[j].kind = "CHUNK"}}
    \cup IF doing = "SEND" THEN {shot} ELSE {}

\* DS_FileCloseDest, where a file is open.
Completes(files) == completed' = files \ {<<>>}

\* The open file ends here, whatever is still to come of its captures.
CutOff == {dsFile[i].shot : i \in DOMAIN dsFile} \cap OnItsWay

\* DS_FileSetupWrite: the chunk would make the file too large, and a file of its
\* own is begun for it.
Rolls == dsFile # <<>> /\ dsSize + 1 > FileLimit

\* DS_FileStorePacket, for a chunk that is written.
DsStores ==
  /\ ChunkNext /\ dsOn
  /\ dsFile' = IF Rolls THEN Payload ELSE dsFile \o Payload
  /\ dsSize' = IF Rolls THEN 1 ELSE dsSize + 1
  /\ Completes(IF Rolls THEN {dsFile} ELSE {})
  /\ spoilt' = IF Rolls THEN spoilt \cup CutOff ELSE spoilt
  /\ dsPipe' = Tail(dsPipe)
  /\ UNCHANGED <<camera, doing, next, gvsp, sending, dsOn, shot, unclosed>>

\* DS_FileStorePacket, when the file cannot be created, its header not be written,
\* or not all of the chunk: the file is closed, and announced like any other, and
\* the destination disabled.
DsCannotStore ==
  /\ ChunkNext /\ dsOn
  /\ \E n \in 0 .. Len(Payload) - 1 :
       LET written == SubSeq(Payload, 1, n)
       IN Completes(IF Rolls THEN {dsFile, written} ELSE {dsFile \o written})
  /\ dsFile' = <<>> /\ dsSize' = 0
  /\ dsOn' = FALSE
  /\ spoilt' = spoilt \cup {Payload[1].shot}
  /\ dsPipe' = Tail(dsPipe)
  /\ UNCHANGED <<camera, doing, next, gvsp, sending, shot, unclosed>>

\* DS_FileStorePacket for a destination that is disabled: its file stays open.
DsSkips ==
  /\ ChunkNext /\ ~ dsOn
  /\ spoilt' = spoilt \cup {Payload[1].shot}
  /\ completed' = {}
  /\ dsPipe' = Tail(dsPipe)
  /\ UNCHANGED <<camera, doing, next, gvsp, sending, dsFile, dsSize, dsOn, shot, unclosed>>

\* DS_CloseFileCmd, for PAYLOADMC's command: disabled or not.
DsCloses ==
  /\ CloseNext
  /\ Completes({dsFile})
  /\ dsFile' = <<>> /\ dsSize' = 0
  /\ dsPipe' = Tail(dsPipe)
  /\ UNCHANGED <<camera, doing, next, gvsp, sending, dsOn, fates>>

\* DS_FileTestAge, or the ground closes the file.
DsClosesEarly ==
  /\ dsFile # <<>>
  /\ Completes({dsFile})
  /\ dsFile' = <<>> /\ dsSize' = 0
  /\ spoilt' = spoilt \cup CutOff
  /\ UNCHANGED <<camera, doing, next, gvsp, sending, dsPipe, dsOn, shot, unclosed>>

\* DS_SetDestStateCmd and DS_SetAppStateCmd.
DsSwitched(on) ==
  /\ dsOn' = on
  /\ completed' = {}
  /\ UNCHANGED <<camera, doing, next, gvsp, sending, dsPipe, dsFile, dsSize, fates>>

PhotoInit ==
  /\ imaging = FALSE /\ ready = {} /\ streaming = {}
  /\ doing = "NONE"
  /\ next = [c \in Cameras |-> LastPacket]
  /\ gvsp = NoFrame
  /\ picture = <<>> /\ offset = 0 /\ retry = 0
  /\ dsPipe = <<>> /\ dsFile = <<>> /\ dsSize = 0 /\ dsOn = TRUE /\ completed = {}
  /\ shot = 0 /\ spoilt = {} /\ unclosed = {}

-----------------------------------------------------------------------------
\* The k-th packet of a picture made from one block of one camera, after the header.
Pixel(s, c, b, k) ==
  IF k = 0 THEN [shot |-> s, camera |-> "NONE", block |-> 0, k |-> 0]
           ELSE [shot |-> s, camera |-> c, block |-> b, k |-> k]

\* The capture's whole picture, of one block of one camera, is in one piece in the
\* file, and nothing else of the capture is.
HoldsPicture(file, s) ==
  \E at \in 0 .. Len(file) - FrameSize - 1, c \in Cameras, b \in 0 .. Blocks - 1 :
    \A i \in DOMAIN file :
      IF i - at \in 1 .. FrameSize + 1 THEN file[i] = Pixel(s, c, b, i - at - 1)
                                       ELSE file[i].shot # s

\* A photo file that DS completes, by a close command, at its size limit, for its
\* age or after a write error, holds of every capture it has something of the
\* whole picture with every pixel in its place, whatever was lost of the stream
\* and whatever became of the captures before and of their close commands.  The
\* exceptions are the captures of which a chunk was dropped or not stored, those
\* DS has cut in two by ending their file, and those of several cameras streaming
\* to the one port.  Another capture comes after one in its file only when that
\* one's close command has been dropped.
PhotoWhole ==
  \A file \in completed : \A i \in DOMAIN file :
    /\ file[i].shot \in spoilt \/ HoldsPicture(file, file[i].shot)
    /\ file[i].shot \in unclosed \/ file[Len(file)].shot = file[i].shot

=============================================================================
